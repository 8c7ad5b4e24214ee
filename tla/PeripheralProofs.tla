-------------------------- MODULE PeripheralProofs -------------------------
(***************************************************************************)
(* Peripherals with a bring-up or a sequence of their own.                 *)
(*                                                                         *)
(* The watchdog (Watchdog): WdSafe, for every period, budget and pace of   *)
(* the loop. The script main has left is a suffix of the bring-up or one   *)
(* of its variants, and its place says what has been written (WdCodeInv);  *)
(* the counter is compared with the period the registers hold              *)
(* (WdClockInv).                                                           *)
(*                                                                         *)
(* The flash controller (Fmc): FmcSafe, for every array, protection,       *)
(* payload and budget, with power lost at any step. The invariant says     *)
(* what the lock, the mode and the mask are at each place of the sequence  *)
(* (FmControl), which cells hold what was asked for or will when the       *)
(* operation in flight ends (FmProgram, FmErase), and where a protection   *)
(* error comes from (FmError).                                             *)
(*                                                                         *)
(* The ports (Ports): PtSafe, for every set of rings, both layouts and any *)
(* order of calls. The invariant says whose each direction of a port is    *)
(* (PtHandInv), what a live receiver's slot, ring and channel hold         *)
(* (PtRcvInv), and whose each running channel and installed context is     *)
(* (PtChanInv).                                                            *)
(*                                                                         *)
(* The single-channel PWM (PwmOut): PwSafe, for every clock, width,        *)
(* frequency and duty; the invariant says what of the shadows has become   *)
(* live, and at which step of a reload the ramp and the compare still      *)
(* belong to the period before.                                            *)
(*                                                                         *)
(* The time base and delays (Ticks): TkSafe, for every clock, reload       *)
(* width, duration and rate; the invariant adds the cycles the counter has *)
(* run of the chunk under way to those of the chunks before it             *)
(* (TkWaitInv).                                                            *)
(*                                                                         *)
(* The SPI master (Spi): SpSafe, for every clock tree, rate, poll budget   *)
(* and length of the transfers, a mode fault at any moment. The invariant  *)
(* says, at each step of a word, where the one word under way is (SpStep). *)
(***************************************************************************)
EXTENDS Watchdog, Fmc, Ports, PwmOut, Ticks, Spi, FiniteSetTheorems, SequenceTheorems, TLAPS

---------------------------------------------------------------------------
(* The watchdog (Watchdog).                                               *)

\* The operations of the bring-up, in order, and what is left from the k-th on.
WdOps == <<"cause", "hold", "lsiOn", "lsiWait", "unlock", "psc", "rld", "updateWait",
           "reload", "start", "loop">>
WdFrom(k) == [i \in 1..(12 - k) |-> WdOps[i + k - 1]]

\* Every operation that main may have left.
WdNames == {"report", "clear", "halt"} \cup {WdOps[i] : i \in 1..11}

\* Two scripts of operation names in a row, place by place.
LEMMA WdConcat ==
  ASSUME NEW s \in Seq(WdNames), NEW t \in Seq(WdNames)
  PROVE  /\ s \o t \in Seq(WdNames) /\ Len(s \o t) = Len(s) + Len(t)
         /\ \A i \in 1..(Len(s) + Len(t)) :
              (s \o t)[i] = IF i <= Len(s) THEN s[i] ELSE t[i - Len(s)]
BY ConcatProperties

\* The same, each part by its own places.
LEMMA WdJoin ==
  ASSUME NEW s \in Seq(WdNames), NEW t \in Seq(WdNames)
  PROVE  /\ s \o t \in Seq(WdNames) /\ Len(s \o t) = Len(s) + Len(t)
         /\ \A i \in 1..Len(s) : (s \o t)[i] = s[i]
         /\ \A i \in 1..Len(t) : (s \o t)[Len(s) + i] = t[i]
<1>1. ASSUME NEW i \in 1..Len(t) PROVE (s \o t)[Len(s) + i] = t[i]
  <2>1. Len(s) + i \in 1..(Len(s) + Len(t)) /\ ~(Len(s) + i <= Len(s)) /\ (Len(s) + i) - Len(s) = i
    OBVIOUS
  <2> QED BY <2>1, WdConcat
<1>2. ASSUME NEW i \in 1..Len(s) PROVE (s \o t)[i] = s[i]
  <2>1. i \in 1..(Len(s) + Len(t)) /\ i <= Len(s)
    OBVIOUS
  <2> QED BY <2>1, WdConcat
<1> QED BY <1>1, <1>2, WdConcat

\* A script without its first operation.
LEMMA WdTailIs ==
  ASSUME NEW s \in Seq(WdNames), Len(s) > 0
  PROVE  Tail(s) \in Seq(WdNames) /\ Len(Tail(s)) = Len(s) - 1
         /\ \A i \in 1..(Len(s) - 1) : Tail(s)[i] = s[1 + i]
OBVIOUS

\* The bring-up's script (Boot) is the operations in order.
LEMMA WdBootIs == Boot = WdFrom(1)
<1> DEFINE a == <<"cause", "hold">>  c == a \o start  z == <<"loop">>
<1>0. \A i \in 1..11 : WdOps[i] \in WdNames
  BY DEF WdNames
<1>1. a \in Seq(WdNames) /\ Len(a) = 2
  BY <1>0 DEF WdOps
<1>2. start \in Seq(WdNames) /\ Len(start) = 8
  <2>1. {"lsiOn", "lsiWait", "unlock", "psc", "rld", "updateWait", "reload", "start"} \subseteq WdNames
    BY <1>0 DEF WdOps
  <2> QED BY <2>1 DEF start
<1>3. z \in Seq(WdNames) /\ Len(z) = 1
  BY <1>0 DEF WdOps
<1> HIDE DEF a, z
<1>4. /\ c \in Seq(WdNames) /\ Len(c) = Len(a) + Len(start)
      /\ \A i \in 1..(Len(a) + Len(start)) : c[i] = IF i <= Len(a) THEN a[i] ELSE start[i - Len(a)]
  BY <1>1, <1>2, WdConcat
<1> HIDE DEF c
<1>5. /\ Len(c \o z) = Len(c) + Len(z) /\ c \o z \in Seq(WdNames)
      /\ \A i \in 1..(Len(c) + Len(z)) : (c \o z)[i] = IF i <= Len(c) THEN c[i] ELSE z[i - Len(c)]
  BY <1>3, <1>4, WdConcat
<1>6. Len(c \o z) = 11 /\ \A i \in 1..11 : (c \o z)[i] = WdOps[i]
  <2>1. \A i \in 1..2 : a[i] = WdOps[i]
    BY DEF a, WdOps
  <2>2. \A i \in 1..8 : start[i] = WdOps[i + 2]
    BY DEF start, WdOps
  <2>3. z[1] = WdOps[11]
    BY DEF z, WdOps
  <2>4. Len(c) = 10
    BY <1>1, <1>2, <1>4
  <2>5. ASSUME NEW i \in 1..2 PROVE (c \o z)[i] = WdOps[i]
    <3>1. (c \o z)[i] = c[i]
      BY <2>4, <1>5, <1>3
    <3>2. c[i] = a[i]
      BY <1>1, <1>2, <1>4
    <3> QED BY <3>1, <3>2, <2>1
  <2>6. ASSUME NEW i \in 3..10 PROVE (c \o z)[i] = WdOps[i]
    <3>0. i \in 1..(Len(c) + Len(z)) /\ i <= Len(c)
      BY <2>4, <1>3
    <3>1. (c \o z)[i] = c[i]
      BY <3>0, <1>5
    <3>2. c[i] = start[i - 2]
      BY <1>1, <1>2, <1>4
    <3>3. start[i - 2] = WdOps[(i - 2) + 2]
      BY <2>2
    <3> QED BY <3>1, <3>2, <3>3
  <2>7. (c \o z)[11] = WdOps[11]
    BY <2>4, <2>3, <1>5, <1>3
  <2>8. Len(c \o z) = 11
    BY <2>4, <1>5, <1>3
  <2>9. ASSUME NEW i \in 1..11 PROVE i \in 1..2 \/ i \in 3..10 \/ i = 11
    OBVIOUS
  <2>10. \A i \in 1..11 : (c \o z)[i] = WdOps[i]
    BY <2>5, <2>6, <2>7, <2>9
  <2> QED BY <2>8, <2>10
<1>7. c \o z = [i \in 1..11 |-> WdOps[i]]
  <2>1. WdFrom(1) \in Seq(WdNames) /\ Len(WdFrom(1)) = 11 /\ \A i \in 1..11 : WdFrom(1)[i] = WdOps[i]
    <3>1. WdFrom(1) \in [1..11 -> WdNames]
      BY <1>0 DEF WdFrom
    <3> QED BY <3>1 DEF WdFrom
  <2>2. c \o z = WdFrom(1)
    BY <2>1, <1>5, <1>6, SeqEqual
  <2> QED BY <2>2 DEF WdFrom
<1> QED BY <1>7 DEF WdFrom, Boot, a, c, z

\* What is left of the bring-up from its k-th operation on.
LEMMA WdSuffix ==
  ASSUME NEW k \in 1..11
  PROVE  /\ WdFrom(k) \in Seq(WdNames) /\ WdFrom(k)[1] = WdOps[k]
         /\ Len(WdFrom(k)) = 12 - k
         /\ k < 11 => Tail(WdFrom(k)) = WdFrom(k + 1)
<1>1. \A i \in 1..11 : WdOps[i] \in WdNames
  BY DEF WdNames
<1>2. WdFrom(k) \in [1..(12 - k) -> WdNames]
  BY <1>1 DEF WdFrom
<1>3. WdFrom(k) \in Seq(WdNames) /\ Len(WdFrom(k)) = 12 - k
  BY <1>2
<1>4. WdFrom(k)[1] = WdOps[k]
  BY DEF WdFrom
<1>5. ASSUME k < 11 PROVE Tail(WdFrom(k)) = WdFrom(k + 1)
  BY <1>3, <1>5 DEF WdFrom
<1> QED BY <1>3, <1>4, <1>5

\* An empty script before another changes nothing.
LEMMA WdEmpty == ASSUME NEW s \in Seq(WdNames) PROVE << >> \o s = s
BY ConcatEmptySeq

---------------------------------------------------------------------------
WdDivs == {4, 8, 16, 32, 64, 128, 256}

\* The 40 kHz clock counts 40 ticks in a millisecond.
LEMMA WdTicks == ASSUME NEW ms \in Nat PROVE Ticks(ms) = 40 * ms
BY DEF Ticks, CeilDiv

\* The division that rounds up, for the seven divisors of PSC.
LEMMA WdCeil ==
  ASSUME NEW t \in Nat, NEW d \in WdDivs
  PROVE  /\ CeilDiv(t, d) \in Nat /\ d * CeilDiv(t, d) >= t /\ d * CeilDiv(t, d) < t + d
         /\ t > 0 => CeilDiv(t, d) > 0
BY DEF CeilDiv, WdDivs

\* A larger divisor never programs a shorter period for the same request.
LEMMA WdCeilMono ==
  ASSUME NEW t \in Nat, NEW i \in 1..7, NEW j \in 1..7, i <= j
  PROVE  Divisors[i] * CeilDiv(t, Divisors[i]) <= Divisors[j] * CeilDiv(t, Divisors[j])
BY DEF CeilDiv, Divisors

\* What resolve programs: registers in range, a period no shorter than asked for
\* unless it is the longest there is, at most one count longer, and no longer
\* than any divisor that fits would give.
LEMMA WdResolved ==
  ASSUME NEW ms \in Nat
  PROVE  /\ resolve(ms) \in [psc : 0..6, rld : 0..ReloadMax]
         /\ PeriodTicks(resolve(ms)) \in Nat
         /\ PeriodTicks(resolve(ms)) <= 40 * ms + 255
         /\ PeriodTicks(resolve(ms)) >= 40 * ms \/ PeriodTicks(resolve(ms)) = 256 * 4096
         /\ \A i \in 1..7 : Fits(ms, i) /\ ms > 0 =>
              PeriodTicks(resolve(ms)) <= Divisors[i] * CeilDiv(Ticks(ms), Divisors[i])
<1> DEFINE r == resolve(ms)  t == 40 * ms
<1>1. Ticks(ms) = t /\ t \in Nat
  BY WdTicks
<1>2. \A i \in 1..7 : Divisors[i] \in WdDivs
  BY DEF Divisors, WdDivs
<1>3. CASE t = 0
  <2>1. r = [psc |-> 0, rld |-> 0]
    BY <1>1, <1>3 DEF resolve
  <2>2. PeriodTicks(r) = 4
    BY <2>1 DEF PeriodTicks, Divisors
  <2>3. ms = 0
    BY <1>3
  <2> QED BY <2>1, <2>2, <2>3 DEF ReloadMax
<1>4. CASE t # 0 /\ \E i \in 1..7 : Fits(ms, i)
  <2> DEFINE Least(i) == Fits(ms, i) /\ \A j \in 1..(i - 1) : ~Fits(ms, j)
             w == CHOOSE i \in 1..7 : Least(i)
  <2>1. \E i \in 1..7 : Least(i)
    <3> HIDE DEF Fits
    <3>1. CASE Fits(ms, 1)
      BY <3>1
    <3>2. CASE ~Fits(ms, 1) /\ Fits(ms, 2)
      BY <3>2
    <3>3. CASE ~Fits(ms, 1) /\ ~Fits(ms, 2) /\ Fits(ms, 3)
      BY <3>3
    <3>4. CASE ~Fits(ms, 1) /\ ~Fits(ms, 2) /\ ~Fits(ms, 3) /\ Fits(ms, 4)
      BY <3>4
    <3>5. CASE ~Fits(ms, 1) /\ ~Fits(ms, 2) /\ ~Fits(ms, 3) /\ ~Fits(ms, 4) /\ Fits(ms, 5)
      BY <3>5
    <3>6. CASE ~Fits(ms, 1) /\ ~Fits(ms, 2) /\ ~Fits(ms, 3) /\ ~Fits(ms, 4) /\ ~Fits(ms, 5) /\ Fits(ms, 6)
      BY <3>6
    <3>7. CASE ~Fits(ms, 1) /\ ~Fits(ms, 2) /\ ~Fits(ms, 3) /\ ~Fits(ms, 4) /\ ~Fits(ms, 5) /\ ~Fits(ms, 6)
      BY <3>7, <1>4
    <3> QED BY <3>1, <3>2, <3>3, <3>4, <3>5, <3>6, <3>7
  <2>2. w \in 1..7 /\ Least(w)
    BY <2>1
  <2>3. r = [psc |-> w - 1, rld |-> CeilDiv(t, Divisors[w]) - 1]
    BY <1>1, <1>4 DEF resolve
  <2> HIDE DEF w
  <2> DEFINE d == Divisors[w]  c == CeilDiv(t, d)
  <2>4. /\ d \in WdDivs /\ c \in Nat /\ d * c >= t /\ d * c < t + d /\ c > 0
    BY <1>1, <1>2, <1>4, <2>2, WdCeil
  <2>5. c - 1 <= ReloadMax
    BY <1>1, <2>2 DEF Fits
  <2> HIDE DEF d, c
  <2>6. r \in [psc : 0..6, rld : 0..ReloadMax]
    <3>1. c - 1 \in 0..ReloadMax /\ w - 1 \in 0..6
      BY <2>2, <2>4, <2>5 DEF ReloadMax
    <3>2. r = [psc |-> w - 1, rld |-> c - 1]
      BY <2>3 DEF c, d
    <3> QED BY <3>1, <3>2
  <2>7. PeriodTicks(r) = d * c
    <3>1. (w - 1) + 1 = w /\ (c - 1) + 1 = c
      BY <2>2, <2>4
    <3> QED BY <2>3, <3>1 DEF PeriodTicks, d, c
  <2>8. d <= 256 /\ d \in Nat
    BY <2>4 DEF WdDivs
  <2>9. d * c \in Nat
    BY <2>4, <2>8
  <2>10. ASSUME NEW i \in 1..7, Fits(ms, i) PROVE d * c <= Divisors[i] * CeilDiv(t, Divisors[i])
    <3>1. w <= i
      BY <2>2, <2>10
    <3> QED BY <3>1, <2>2, <1>1, WdCeilMono DEF d, c
  <2> QED BY <2>4, <2>6, <2>7, <2>8, <2>9, <2>10, <1>1
<1>5. CASE t # 0 /\ ~\E i \in 1..7 : Fits(ms, i)
  <2>1. r = [psc |-> 6, rld |-> ReloadMax]
    BY <1>1, <1>5 DEF resolve
  <2>2. PeriodTicks(r) = 256 * 4096
    BY <2>1 DEF PeriodTicks, Divisors, ReloadMax
  <2>3. ~Fits(ms, 7)
    BY <1>5
  <2>4. CeilDiv(t, 256) - 1 > 4095
    <3>1. Divisors[7] = 256 /\ CeilDiv(t, 256) \in Nat
      BY <1>1, WdCeil DEF Divisors, WdDivs
    <3>2. ~(CeilDiv(t, 256) - 1 <= ReloadMax)
      BY <2>3, <1>1, <3>1 DEF Fits
    <3> QED BY <3>1, <3>2 DEF ReloadMax
  <2>5. t > 256 * 4095
    BY <2>4, <1>1 DEF CeilDiv
  <2>6. 256 * 4096 <= t + 255
    BY <2>4, <1>1 DEF CeilDiv
  <2> QED BY <2>1, <2>2, <2>6, <1>1, <1>5 DEF ReloadMax
<1> QED BY <1>1, <1>3, <1>4, <1>5

---------------------------------------------------------------------------
\* The shapes of the state.
WdTypes ==
  /\ wdReq \in WdRequests /\ wdPolls \in 0..WdPolls /\ wdElapsed \in Nat /\ wdHalted \in BOOLEAN
  /\ wdRcu \in [lsi : BOOLEAN, stable : BOOLEAN, fwdgt : BOOLEAN]
  /\ wdReg \in [open : BOOLEAN, psc : 0..6, rld : 0..ReloadMax, busy : BOOLEAN,
                running : BOOLEAN, hold : BOOLEAN]
  /\ wdLoop \in [due : BOOLEAN, hung : BOOLEAN]
  /\ wdHist \in [resets : 0..WdResets, unreported : Nat, healthy : BOOLEAN, halted : BOOLEAN]

\* The bring-up is at its k-th operation, and what it has done so far stands.
WdPlace(k) ==
  /\ wdCode = WdFrom(k)
  /\ wdReg.running <=> k = 11
  /\ k >= 2 => wdHist.unreported = 0
  /\ k >= 3 => wdReg.hold
  /\ k >= 4 => wdRcu.lsi
  /\ k >= 5 => wdRcu.stable
  /\ k \in 6..9 => wdReg.open
  /\ k >= 7 => wdReg.psc = resolve(wdReq).psc
  /\ k >= 8 => wdReg.rld = resolve(wdReq).rld
  /\ k >= 9 => ~wdReg.busy

\* The scripts that report a watchdog reset, and that of a failed bring-up.
WdReportCode == <<"report", "clear">> \o WdFrom(2)
WdClearCode == <<"clear">> \o WdFrom(2)
WdHaltCode == <<"halt">>

\* Where main is, and what that says of the registers.
WdCodeInv ==
  /\ wdHist.unreported > 0 => wdRcu.fwdgt
  /\ wdCode # WdHaltCode => wdPolls > 0
  /\ \/ \E k \in 1..11 : WdPlace(k)
     \/ wdCode = WdReportCode /\ ~wdReg.running
     \/ wdCode = WdClearCode /\ ~wdReg.running /\ wdHist.unreported = 0
     \/ wdCode = WdHaltCode /\ ~wdReg.running /\ wdHist.unreported = 0

\* What the counter may have reached.
WdClockInv ==
  /\ ~wdReg.running => wdElapsed = 0 /\ ~wdLoop.due /\ ~wdLoop.hung
  /\ wdReg.running => wdElapsed <= wdReq + WdStep + 6
  /\ ~wdLoop.hung => wdElapsed <= IF wdLoop.due THEN WdStep ELSE 0
  /\ ~wdHist.healthy /\ ~wdHist.halted

WdIInv == WdTypes /\ WdCodeInv /\ WdClockInv

\* The scripts that a report of the reset cause puts before the bring-up.
LEMMA WdPrefixes ==
  /\ WdReportCode[1] = "report" /\ Tail(WdReportCode) = WdClearCode
  /\ WdClearCode[1] = "clear" /\ Tail(WdClearCode) = WdFrom(2)
  /\ WdHaltCode[1] = "halt"
  /\ WdReportCode \in Seq(WdNames) /\ WdClearCode \in Seq(WdNames)
<1> DEFINE p == <<"report", "clear">>  q == <<"clear">>  z == WdFrom(2)
<1>1. p \in Seq(WdNames) /\ Len(p) = 2 /\ p[1] = "report" /\ p[2] = "clear"
  <2>1. {"report", "clear"} \subseteq WdNames
    BY DEF WdNames, WdOps
  <2> QED BY <2>1
<1>2. q \in Seq(WdNames) /\ Len(q) = 1 /\ q[1] = "clear"
  <2>1. {"clear"} \subseteq WdNames
    BY DEF WdNames, WdOps
  <2> QED BY <2>1
<1>3. z \in Seq(WdNames) /\ Len(z) = 10
  <2>1. 2 \in 1..11 /\ 12 - 2 = 10
    OBVIOUS
  <2>2. WdFrom(2) \in Seq(WdNames) /\ Len(WdFrom(2)) = 12 - 2
    BY <2>1, WdSuffix
  <2> QED BY <2>1, <2>2
<1> HIDE DEF p, q, z
<1>4. /\ p \o z \in Seq(WdNames) /\ Len(p \o z) = 2 + 10
      /\ \A i \in 1..2 : (p \o z)[i] = p[i]
      /\ \A i \in 1..10 : (p \o z)[2 + i] = z[i]
  <2>1. /\ p \o z \in Seq(WdNames) /\ Len(p \o z) = Len(p) + Len(z)
        /\ \A i \in 1..Len(p) : (p \o z)[i] = p[i]
        /\ \A i \in 1..Len(z) : (p \o z)[Len(p) + i] = z[i]
    BY <1>1, <1>3, WdJoin
  <2> QED BY <2>1, <1>1, <1>3
<1>5. /\ q \o z \in Seq(WdNames) /\ Len(q \o z) = 1 + 10
      /\ \A i \in 1..1 : (q \o z)[i] = q[i]
      /\ \A i \in 1..10 : (q \o z)[1 + i] = z[i]
  <2>1. /\ q \o z \in Seq(WdNames) /\ Len(q \o z) = Len(q) + Len(z)
        /\ \A i \in 1..Len(q) : (q \o z)[i] = q[i]
        /\ \A i \in 1..Len(z) : (q \o z)[Len(q) + i] = z[i]
    BY <1>2, <1>3, WdJoin
  <2> QED BY <2>1, <1>2, <1>3
<1>6. Tail(p \o z) = q \o z
  <2>1. Tail(p \o z) \in Seq(WdNames) /\ Len(Tail(p \o z)) = 11
        /\ \A i \in 1..11 : Tail(p \o z)[i] = (p \o z)[1 + i]
    <3>1. Len(p \o z) > 0 /\ Len(p \o z) - 1 = 11
      BY <1>4
    <3>2. Tail(p \o z) \in Seq(WdNames) /\ Len(Tail(p \o z)) = Len(p \o z) - 1
          /\ \A i \in 1..(Len(p \o z) - 1) : Tail(p \o z)[i] = (p \o z)[1 + i]
      BY <3>1, <1>4, WdTailIs
    <3> QED BY <3>1, <3>2
  <2>2. ASSUME NEW i \in 1..11 PROVE (p \o z)[1 + i] = (q \o z)[i]
    <3>1. CASE i = 1
      BY <3>1, <1>1, <1>2, <1>4, <1>5
    <3>2. CASE i # 1
      <4>1. i - 1 \in 1..10 /\ 1 + i = 2 + (i - 1) /\ i = 1 + (i - 1)
        BY <3>2
      <4>2. (p \o z)[2 + (i - 1)] = z[i - 1] /\ (q \o z)[1 + (i - 1)] = z[i - 1]
        BY <4>1, <1>4, <1>5
      <4> QED BY <4>1, <4>2
    <3> QED BY <3>1, <3>2
  <2>3. \A i \in 1..11 : Tail(p \o z)[i] = (q \o z)[i]
    BY <2>1, <2>2
  <2>4. Len(q \o z) = 11
    BY <1>5
  <2> QED BY <2>1, <2>3, <2>4, <1>5, SeqEqual
<1>7. Tail(q \o z) = z
  <2>1. Tail(q \o z) \in Seq(WdNames) /\ Len(Tail(q \o z)) = 10
        /\ \A i \in 1..10 : Tail(q \o z)[i] = (q \o z)[1 + i]
    <3>1. Len(q \o z) > 0 /\ Len(q \o z) - 1 = 10
      BY <1>5
    <3>2. Tail(q \o z) \in Seq(WdNames) /\ Len(Tail(q \o z)) = Len(q \o z) - 1
          /\ \A i \in 1..(Len(q \o z) - 1) : Tail(q \o z)[i] = (q \o z)[1 + i]
      BY <3>1, <1>5, WdTailIs
    <3> QED BY <3>1, <3>2
  <2>2. \A i \in 1..10 : Tail(q \o z)[i] = z[i]
    BY <2>1, <1>5
  <2> QED BY <2>1, <2>2, <1>3, SeqEqual
<1>8. (p \o z)[1] = "report" /\ (q \o z)[1] = "clear"
  BY <1>1, <1>2, <1>4, <1>5
<1> QED BY <1>4, <1>5, <1>6, <1>7, <1>8 DEF WdReportCode, WdClearCode, WdHaltCode, p, q, z

\* The first operation of the script tells its place and what it has found.
LEMMA WdAt ==
  ASSUME WdCodeInv, NEW o, wdCode[1] = o
  PROVE  /\ \A k \in 1..11 : WdOps[k] = o => WdPlace(k)
         /\ o = "report" => wdCode = WdReportCode /\ ~wdReg.running
         /\ o = "clear" => wdCode = WdClearCode /\ ~wdReg.running /\ wdHist.unreported = 0
         /\ \A k \in 1..11 : WdFrom(k) # WdHaltCode
<1>1. \A k \in 1..11 : WdFrom(k)[1] = WdOps[k]
  BY WdSuffix
<1>2. \A j, k \in 1..11 : WdOps[j] = WdOps[k] => j = k
  BY DEF WdOps
<1>3. \A k \in 1..11 : WdOps[k] \notin {"report", "clear", "halt"}
  BY DEF WdOps
<1>4. CASE \E k \in 1..11 : WdPlace(k)
  <2>1. PICK j \in 1..11 : WdPlace(j)
    BY <1>4
  <2>2. wdCode[1] = WdOps[j]
    BY <1>1, <2>1 DEF WdPlace
  <2>3. \A k \in 1..11 : WdFrom(k)[1] # WdHaltCode[1]
    BY <1>1, <1>3, WdPrefixes
  <2>4. \A k \in 1..11 : WdFrom(k) # WdHaltCode
    BY <2>3
  <2>5. o \notin {"report", "clear"}
    BY <1>3, <2>2
  <2> QED BY <1>2, <2>1, <2>2, <2>4, <2>5
<1>5. CASE wdCode = WdReportCode /\ ~wdReg.running
  BY <1>1, <1>3, <1>5, WdPrefixes
<1>6. CASE wdCode = WdClearCode /\ ~wdReg.running /\ wdHist.unreported = 0
  BY <1>1, <1>3, <1>6, WdPrefixes
<1>7. CASE wdCode = WdHaltCode /\ ~wdReg.running /\ wdHist.unreported = 0
  BY <1>1, <1>3, <1>7, WdPrefixes
<1> QED BY <1>4, <1>5, <1>6, <1>7 DEF WdCodeInv

\* Past its first operation, a script is the next place's.
LEMMA WdNextOp ==
  ASSUME NEW k \in 1..10, WdPlace(k)
  PROVE  << >> \o Tail(wdCode) = WdFrom(k + 1) /\ WdFrom(k + 1) # WdHaltCode
<1>1. Tail(wdCode) = WdFrom(k + 1)
  <2>1. k \in 1..11 /\ k < 11 /\ wdCode = WdFrom(k)
    BY DEF WdPlace
  <2>2. \A j \in 1..11 : j < 11 => Tail(WdFrom(j)) = WdFrom(j + 1)
    BY WdSuffix
  <2> QED BY <2>1, <2>2
<1>2. k + 1 \in 1..11
  OBVIOUS
<1>3. WdFrom(k + 1) \in Seq(WdNames) /\ WdFrom(k + 1)[1] = WdOps[k + 1]
  BY <1>2, WdSuffix
<1>4. WdOps[k + 1] # "halt"
  BY <1>2 DEF WdOps
<1> QED BY <1>1, <1>3, <1>4, WdEmpty, WdPrefixes

\* A requested period is one the application may ask for.
LEMMA WdPeriods == ASSUME WdTypes PROVE wdReq \in Nat /\ wdReq <= 50000
<1>1. wdReq \in WdRequests
  BY DEF WdTypes
<1> QED BY <1>1, WdAssumption

\* The constants as naturals.
LEMMA WdBounds == WdPolls \in Nat /\ WdPolls > 0 /\ WdResets \in Nat /\ WdStep \in Nat /\ WdStep > 0
<1>1. WdPolls \in Nat \ {0} /\ WdResets \in Nat /\ WdStep \in Nat \ {0}
  BY WdAssumption
<1> QED BY <1>1

\* Reading the reset cause keeps the invariant.
LEMMA WdReadCauseKeeps == ASSUME WdIInv, ReadCause PROVE WdIInv'
<1>1. WdPlace(1) /\ wdCode[1] = "cause"
  <2>1. wdCode[1] = "cause" /\ WdOps[1] = "cause"
    BY DEF ReadCause, At, WdOps
  <2> QED BY <2>1, WdAt DEF WdIInv
<1>2. Tail(wdCode) = WdFrom(2)
  BY <1>1, WdSuffix DEF WdPlace
<1>3. WdTypes'
  BY DEF WdIInv, WdTypes, ReadCause
<1>4. WdClockInv'
  BY DEF WdIInv, WdClockInv, ReadCause
<1>5. wdPolls > 0
  <2>1. WdCodeInv /\ wdCode = WdFrom(1) /\ WdFrom(1) # WdHaltCode
    BY <1>1, WdAt DEF WdIInv, WdPlace
  <2> QED BY <2>1 DEF WdCodeInv
<1>6. WdCodeInv'
  <2>1. CASE wdRcu.fwdgt
    <3>1. wdCode' = WdReportCode
      BY <1>2, <2>1 DEF ReadCause, Then, WdReportCode
    <3> QED BY <3>1, <1>1, <1>5, <2>1 DEF WdIInv, WdCodeInv, ReadCause, WdPlace
  <2>2. CASE ~wdRcu.fwdgt
    <3>1. wdCode' = WdFrom(2)
      BY <1>1, <2>2, WdNextOp DEF ReadCause, Then
    <3>2. wdHist.unreported = 0
      BY <2>2 DEF WdIInv, WdCodeInv, WdTypes
    <3>3. WdPlace(2)'
      BY <3>1, <3>2, <1>1 DEF WdPlace, ReadCause
    <3> QED BY <3>3, <3>2, <1>5 DEF WdCodeInv, ReadCause
  <2> QED BY <2>1, <2>2
<1> QED BY <1>3, <1>4, <1>6 DEF WdIInv

\* An operation that moves on leads to the next place.
LEMMA WdGo ==
  ASSUME WdCodeInv, NEW k \in 1..10, wdCode[1] = WdOps[k]
  PROVE  /\ WdPlace(k) /\ wdPolls > 0
         /\ Then(<< >>) => wdCode' = WdFrom(k + 1)
         /\ k + 1 \in 1..11
<1>1. WdPlace(k)
  BY WdAt
<1>2. WdFrom(k) # WdHaltCode
  BY WdAt
<1>3. wdPolls > 0
  BY <1>1, <1>2 DEF WdCodeInv, WdPlace
<1>4. Then(<< >>) => wdCode' = WdFrom(k + 1)
  BY <1>1, WdNextOp DEF Then
<1> QED BY <1>1, <1>3, <1>4

\* The watchdog's report of a cause keeps the invariant.
LEMMA WdSignalKeeps == ASSUME WdIInv, Signal PROVE WdIInv'
<1>1. wdCode = WdReportCode /\ ~wdReg.running
  BY WdAt DEF WdIInv, Signal, At
<1>2. wdCode' = WdClearCode
  BY <1>1, WdPrefixes, WdEmpty DEF Signal, Then
<1>3. WdTypes'
  BY DEF WdIInv, WdTypes, Signal
<1>4. WdClockInv'
  BY DEF WdIInv, WdTypes, WdClockInv, Signal
<1>5. wdPolls > 0
  <2>1. WdReportCode # WdHaltCode
    BY WdPrefixes
  <2> QED BY <1>1, <2>1 DEF WdIInv, WdCodeInv
<1>6. WdCodeInv'
  BY <1>1, <1>2, <1>5 DEF WdIInv, WdTypes, WdCodeInv, Signal
<1> QED BY <1>3, <1>4, <1>6 DEF WdIInv

\* clear_reset_cause keeps the invariant.
LEMMA WdClearKeeps == ASSUME WdIInv, clear_reset_cause PROVE WdIInv'
<1>1. wdCode = WdClearCode /\ ~wdReg.running /\ wdHist.unreported = 0
  BY WdAt DEF WdIInv, clear_reset_cause, At
<1>2. wdCode' = WdFrom(2)
  BY <1>1, WdPrefixes, WdEmpty, WdSuffix DEF clear_reset_cause, Then
<1>3. WdTypes'
  BY DEF WdIInv, WdTypes, clear_reset_cause
<1>4. WdClockInv'
  BY DEF WdIInv, WdTypes, WdClockInv, clear_reset_cause
<1>5. wdPolls > 0
  <2>1. WdClearCode # WdHaltCode
    BY WdPrefixes
  <2> QED BY <1>1, <2>1 DEF WdIInv, WdCodeInv
<1>6. WdPlace(2)'
  BY <1>1, <1>2 DEF WdPlace, clear_reset_cause
<1>7. WdCodeInv'
  BY <1>1, <1>5, <1>6 DEF WdCodeInv, clear_reset_cause
<1> QED BY <1>3, <1>4, <1>7 DEF WdIInv

\* freeze_on_debug_halt keeps the invariant.
LEMMA WdFreezeKeeps == ASSUME WdIInv, freeze_on_debug_halt PROVE WdIInv'
<1>1. WdPlace(2) /\ wdPolls > 0 /\ wdCode' = WdFrom(3)
  <2>1. wdCode[1] = WdOps[2]
    BY DEF freeze_on_debug_halt, At, WdOps
  <2> QED BY <2>1, WdGo DEF WdIInv, freeze_on_debug_halt
<1>2. WdTypes'
  BY DEF WdIInv, WdTypes, freeze_on_debug_halt
<1>3. WdClockInv'
  BY DEF WdIInv, WdTypes, WdClockInv, freeze_on_debug_halt
<1>4. WdPlace(3)'
  BY <1>1 DEF WdPlace, freeze_on_debug_halt, WdIInv, WdTypes
<1>5. WdCodeInv'
  BY <1>1, <1>4 DEF WdIInv, WdCodeInv, freeze_on_debug_halt
<1> QED BY <1>2, <1>3, <1>5 DEF WdIInv

\* Starting the low-speed oscillator keeps the invariant.
LEMMA WdLsiOnKeeps == ASSUME WdIInv, LsiOn PROVE WdIInv'
<1>1. WdPlace(3) /\ wdPolls > 0 /\ wdCode' = WdFrom(4)
  <2>1. wdCode[1] = WdOps[3]
    BY DEF LsiOn, At, WdOps
  <2> QED BY <2>1, WdGo DEF WdIInv, LsiOn
<1>2. WdTypes'
  BY DEF WdIInv, WdTypes, LsiOn
<1>3. WdClockInv'
  BY DEF WdIInv, WdTypes, WdClockInv, LsiOn
<1>4. WdPlace(4)'
  BY <1>1 DEF WdPlace, LsiOn, WdIInv, WdTypes
<1>5. WdCodeInv'
  BY <1>1, <1>4 DEF WdIInv, WdTypes, WdCodeInv, LsiOn
<1> QED BY <1>2, <1>3, <1>5 DEF WdIInv

\* A poll moves on, stays or, with the budget spent, ends main.
LEMMA WdPollKeeps ==
  ASSUME WdIInv, NEW k \in {4, 8}, NEW open \in BOOLEAN, WdPoll(WdOps[k], open),
         k = 4 /\ open => wdRcu.stable, k = 8 /\ open => ~wdReg.busy
  PROVE  WdIInv'
<1>1. WdPlace(k) /\ wdPolls > 0 /\ (Then(<< >>) => wdCode' = WdFrom(k + 1)) /\ k + 1 \in 1..11
  <2>1. wdCode[1] = WdOps[k]
    BY DEF WdPoll, At
  <2> QED BY <2>1, WdGo DEF WdIInv
<1>2. WdPolls \in Nat \ {0}
  BY WdAssumption
<1>3. wdPolls' \in 0..WdPolls
  BY <1>1, <1>2 DEF WdPoll, WdIInv, WdTypes
<1>4. WdTypes'
  BY <1>3 DEF WdIInv, WdTypes, WdPoll
<1>5. WdClockInv'
  BY DEF WdIInv, WdTypes, WdClockInv, WdPoll
<1>6. CASE open
  <2>1. wdCode' = WdFrom(k + 1) /\ wdPolls' > 0
    BY <1>1, <1>2, <1>6 DEF WdPoll
  <2>2. WdPlace(k + 1)'
    <3>1. CASE k = 4
      BY <3>1, <1>1, <1>6, <2>1 DEF WdPlace, WdPoll
    <3>2. CASE k = 8
      BY <3>2, <1>1, <1>6, <2>1 DEF WdPlace, WdPoll
    <3> QED BY <3>1, <3>2
  <2>3. WdCodeInv'
    BY <1>1, <2>1, <2>2 DEF WdIInv, WdTypes, WdCodeInv, WdPoll
  <2> QED BY <1>4, <1>5, <2>3 DEF WdIInv
<1>7. CASE ~open /\ wdPolls' = 0
  <2>1. wdCode' = WdHaltCode
    BY <1>7 DEF WdPoll, WdHaltCode
  <2>2. WdCodeInv'
    BY <1>1, <2>1 DEF WdIInv, WdTypes, WdCodeInv, WdPlace, WdPoll
  <2> QED BY <1>4, <1>5, <2>2 DEF WdIInv
<1>8. CASE ~open /\ wdPolls' # 0
  <2>1. wdCode' = wdCode /\ wdPolls' > 0
    <3>1. wdPolls' > 0
      BY <1>2, <1>3, <1>8
    <3>2. wdCode' = wdCode
      BY <1>8 DEF WdPoll
    <3> QED BY <3>1, <3>2
  <2>2. WdPlace(k)'
    BY <1>1, <2>1 DEF WdPlace, WdPoll
  <2>3. WdCodeInv'
    BY <1>1, <2>1, <2>2 DEF WdIInv, WdTypes, WdCodeInv, WdPoll
  <2> QED BY <1>4, <1>5, <2>3 DEF WdIInv
<1> QED BY <1>6, <1>7, <1>8

\* The key, prescaler, reload and start writes keep the invariant.
LEMMA WdProgramKeeps == ASSUME WdIInv, WdProgram PROVE WdIInv'
<1>1. resolve(wdReq) \in [psc : 0..6, rld : 0..ReloadMax]
  BY WdPeriods, WdResolved DEF WdIInv
<1>2. WdTypes'
  <2>1. wdReg' \in [open : BOOLEAN, psc : 0..6, rld : 0..ReloadMax, busy : BOOLEAN,
                    running : BOOLEAN, hold : BOOLEAN]
    <3> DEFINE P == resolve(wdReq).psc  R == resolve(wdReq).rld
    <3>1. P \in 0..6 /\ R \in 0..ReloadMax
      BY <1>1
    <3> HIDE DEF P, R
    <3>2. wdReg \in [open : BOOLEAN, psc : 0..6, rld : 0..ReloadMax, busy : BOOLEAN,
                    running : BOOLEAN, hold : BOOLEAN]
      BY DEF WdIInv, WdTypes
    <3>3. \/ wdReg' = [wdReg EXCEPT !.open = TRUE]
          \/ wdReg' = wdReg
          \/ wdReg' = [wdReg EXCEPT !.psc = P, !.busy = TRUE]
          \/ wdReg' = [wdReg EXCEPT !.rld = R, !.busy = TRUE]
          \/ wdReg' = [wdReg EXCEPT !.running = TRUE, !.open = FALSE]
          \/ wdReg' = [wdReg EXCEPT !.open = FALSE]
      BY DEF WdProgram, P, R
    <3> QED BY <3>1, <3>2, <3>3
  <2> QED BY <2>1 DEF WdIInv, WdTypes, WdProgram
<1>3. ASSUME NEW k \in 5..10, At(WdOps[k]), WdPlace(k + 1)'
      PROVE  WdCodeInv'
  <2>1. k + 1 \in 1..11 /\ wdPolls > 0
    BY <1>3, WdGo DEF At, WdIInv
  <2> QED BY <2>1, <1>3 DEF WdIInv, WdTypes, WdCodeInv, WdProgram
<1>4. ASSUME NEW k \in 5..10, At(WdOps[k])
      PROVE  WdPlace(k) /\ wdCode' = WdFrom(k + 1)
  BY <1>4, WdGo DEF At, WdIInv, WdProgram
<1>5. \/ At("unlock") /\ wdReg' = [wdReg EXCEPT !.open = TRUE]
      \/ At("psc") /\ wdReg' = IF wdReg.open THEN [wdReg EXCEPT !.psc = resolve(wdReq).psc, !.busy = TRUE] ELSE wdReg
      \/ At("rld") /\ wdReg' = IF wdReg.open THEN [wdReg EXCEPT !.rld = resolve(wdReq).rld, !.busy = TRUE] ELSE wdReg
      \/ At("start") /\ wdReg' = [wdReg EXCEPT !.running = TRUE, !.open = FALSE]
      \/ At("reload") /\ wdReg' = [wdReg EXCEPT !.open = FALSE]
  BY DEF WdProgram
<1>6. WdOps[5] = "unlock" /\ WdOps[6] = "psc" /\ WdOps[7] = "rld" /\ WdOps[9] = "reload" /\ WdOps[10] = "start"
  BY DEF WdOps
<1>7. UNCHANGED <<wdReq, wdPolls, wdRcu, wdLoop, wdHalted, wdHist>> /\ wdElapsed' = 0
  BY DEF WdProgram
<1>8. WdStep \in Nat /\ wdReq \in Nat
  BY WdAssumption, WdPeriods DEF WdIInv
<1>9. CASE At("unlock") /\ wdReg' = [wdReg EXCEPT !.open = TRUE]
  <2>1. WdPlace(5) /\ wdCode' = WdFrom(6)
    BY <1>4, <1>6, <1>9
  <2>2. WdPlace(6)'
    BY <1>7, <1>9, <2>1 DEF WdPlace, WdIInv, WdTypes
  <2>3. WdClockInv'
    BY <1>7, <1>8, <1>9, <2>1 DEF WdPlace, WdIInv, WdTypes, WdClockInv
  <2> QED BY <1>2, <1>3, <1>6, <1>9, <2>2, <2>3 DEF WdIInv
<1>10. CASE At("psc") /\ wdReg' = IF wdReg.open THEN [wdReg EXCEPT !.psc = resolve(wdReq).psc, !.busy = TRUE] ELSE wdReg
  <2>1. WdPlace(6) /\ wdCode' = WdFrom(7)
    BY <1>4, <1>6, <1>10
  <2>2. WdPlace(7)'
    BY <1>7, <1>10, <2>1 DEF WdPlace, WdIInv, WdTypes
  <2>3. WdClockInv'
    BY <1>7, <1>8, <1>10, <2>1 DEF WdPlace, WdIInv, WdTypes, WdClockInv
  <2> QED BY <1>2, <1>3, <1>6, <1>10, <2>2, <2>3 DEF WdIInv
<1>11. CASE At("rld") /\ wdReg' = IF wdReg.open THEN [wdReg EXCEPT !.rld = resolve(wdReq).rld, !.busy = TRUE] ELSE wdReg
  <2>1. WdPlace(7) /\ wdCode' = WdFrom(8)
    BY <1>4, <1>6, <1>11
  <2>2. WdPlace(8)'
    BY <1>7, <1>11, <2>1 DEF WdPlace, WdIInv, WdTypes
  <2>3. WdClockInv'
    BY <1>7, <1>8, <1>11, <2>1 DEF WdPlace, WdIInv, WdTypes, WdClockInv
  <2> QED BY <1>2, <1>3, <1>6, <1>11, <2>2, <2>3 DEF WdIInv
<1>12. CASE At("start") /\ wdReg' = [wdReg EXCEPT !.running = TRUE, !.open = FALSE]
  <2>1. WdPlace(10) /\ wdCode' = WdFrom(11)
    BY <1>4, <1>6, <1>12
  <2>2. WdPlace(11)'
    BY <1>7, <1>12, <2>1 DEF WdPlace, WdIInv, WdTypes
  <2>3. WdClockInv'
    BY <1>7, <1>8, <1>12, <2>1 DEF WdPlace, WdIInv, WdTypes, WdClockInv
  <2> QED BY <1>2, <1>3, <1>6, <1>12, <2>2, <2>3 DEF WdIInv
<1>13. CASE At("reload") /\ wdReg' = [wdReg EXCEPT !.open = FALSE]
  <2>1. WdPlace(9) /\ wdCode' = WdFrom(10)
    BY <1>4, <1>6, <1>13
  <2>2. WdPlace(10)'
    BY <1>7, <1>13, <2>1 DEF WdPlace, WdIInv, WdTypes
  <2>3. WdClockInv'
    BY <1>7, <1>8, <1>13, <2>1 DEF WdPlace, WdIInv, WdTypes, WdClockInv
  <2> QED BY <1>2, <1>3, <1>6, <1>13, <2>2, <2>3 DEF WdIInv
<1> QED BY <1>5, <1>9, <1>10, <1>11, <1>12, <1>13

\* A step that leaves main where it is, its registers and its history.
LEMMA WdCodeStays ==
  ASSUME WdCodeInv, UNCHANGED <<wdReq, wdCode, wdPolls>>, wdHist'.unreported = wdHist.unreported,
         wdRcu'.fwdgt = wdRcu.fwdgt, wdRcu.lsi => wdRcu'.lsi, wdRcu.stable => wdRcu'.stable,
         wdReg'.open = wdReg.open, wdReg'.psc = wdReg.psc, wdReg'.rld = wdReg.rld,
         wdReg'.running = wdReg.running, wdReg'.hold = wdReg.hold, ~wdReg.busy => ~wdReg'.busy
  PROVE  WdCodeInv'
<1>1. ASSUME NEW k \in 1..11, WdPlace(k) PROVE WdPlace(k)'
  BY <1>1 DEF WdPlace
<1> QED BY <1>1 DEF WdCodeInv

\* A watchdog that runs was programmed whole, and the application is in its loop.
LEMMA WdRunningLoops ==
  ASSUME WdCodeInv, wdReg.running
  PROVE  /\ WdPlace(11) /\ wdCode = <<"loop">> /\ wdReg.hold /\ wdRcu.stable /\ ~wdReg.busy
         /\ wdReg.psc = resolve(wdReq).psc /\ wdReg.rld = resolve(wdReq).rld
         /\ wdHist.unreported = 0
<1>1. WdPlace(11)
  BY DEF WdCodeInv, WdPlace
<1>2. WdFrom(11) = <<"loop">>
  BY DEF WdFrom, WdOps
<1> QED BY <1>1, <1>2 DEF WdPlace

\* A pass of the loop, which feeds or does not, keeps the invariant.
LEMMA WdLoopPassKeeps == ASSUME WdIInv, LoopPass PROVE WdIInv'
<1>1. wdElapsed' \in {wdElapsed, 0} /\ wdLoop' \in [due : BOOLEAN, hung : BOOLEAN]
  BY DEF LoopPass, WdIInv, WdTypes
<1>2. WdTypes'
  BY <1>1 DEF WdIInv, WdTypes, LoopPass
<1>3. WdCodeInv'
  BY WdCodeStays DEF WdIInv, LoopPass
<1>4. wdReg.running
  <2>1. wdCode[1] = WdOps[11]
    BY DEF LoopPass, At, WdOps
  <2> QED BY <2>1, WdAt DEF WdIInv, WdPlace
<1>5. WdStep \in Nat /\ wdReq \in Nat
  BY WdAssumption, WdPeriods DEF WdIInv
<1>6. WdClockInv'
  <2> SUFFICES ASSUME NEW pressed \in BOOLEAN,
                      wdLoop' = [due |-> FALSE, hung |-> wdLoop.hung \/ pressed],
                      wdElapsed' = IF wdLoop.hung \/ pressed THEN wdElapsed ELSE 0
               PROVE  WdClockInv'
    BY DEF LoopPass
  <2>1. wdReg' = wdReg /\ wdReq' = wdReq /\ wdHist' = wdHist
    BY DEF LoopPass
  <2>2. wdLoop'.due = FALSE /\ wdLoop'.hung = (wdLoop.hung \/ pressed)
    OBVIOUS
  <2> QED BY <2>1, <2>2, <1>4, <1>5 DEF WdClockInv, WdIInv, WdTypes
<1> QED BY <1>2, <1>3, <1>6 DEF WdIInv

\* The oscillator, the update of the registers and a debug halt keep the invariant.
LEMMA WdSiliconKeeps == ASSUME WdIInv, Stabilise \/ Updated \/ Halt PROVE WdIInv'
<1>1. WdTypes'
  BY DEF WdIInv, WdTypes, Stabilise, Updated, Halt
<1>2. WdCodeInv'
  <2>1. CASE Stabilise
    BY <2>1, WdCodeStays DEF WdIInv, WdTypes, Stabilise
  <2>2. CASE Updated
    BY <2>2, WdCodeStays DEF WdIInv, WdTypes, Updated
  <2>3. CASE Halt
    BY <2>3, WdCodeStays DEF WdIInv, WdTypes, Halt
  <2> QED BY <2>1, <2>2, <2>3
<1>3. WdClockInv'
  BY DEF WdIInv, WdTypes, WdClockInv, Stabilise, Updated, Halt
<1> QED BY <1>1, <1>2, <1>3 DEF WdIInv

\* The counter of a running watchdog expires at the period resolve chose.
LEMMA WdExpiry ==
  ASSUME WdIInv, wdReg.running
  PROVE  PeriodTicks(wdReg) = PeriodTicks(resolve(wdReq))
BY WdRunningLoops DEF PeriodTicks, WdIInv

\* Time keeps the invariant.
LEMMA WdTickKeeps == ASSUME WdIInv, Tick PROVE WdIInv'
<1>1. wdReg.running /\ wdReg.hold /\ ~wdHalted /\ wdCode = <<"loop">>
  BY WdRunningLoops DEF WdIInv, WdTypes, Tick, Counting
<1>2. ~wdLoop.due
  BY <1>1 DEF Tick
<1>3. WdStep \in Nat /\ wdReq \in Nat /\ wdElapsed \in Nat
  BY WdAssumption, WdPeriods DEF WdIInv, WdTypes
<1>4. wdElapsed' = wdElapsed + WdStep /\ wdLoop' = [wdLoop EXCEPT !.due = TRUE]
  BY <1>1 DEF Tick
<1>5. WdTypes'
  <2>1. wdElapsed' \in Nat
    BY <1>3, <1>4
  <2>2. wdLoop' \in [due : BOOLEAN, hung : BOOLEAN]
    BY <1>4 DEF WdIInv, WdTypes
  <2> QED BY <2>1, <2>2 DEF WdIInv, WdTypes, Tick
<1>6. WdCodeInv'
  BY WdCodeStays DEF WdIInv, Tick
<1>7. wdElapsed <= wdReq + 6
  <2> DEFINE P == PeriodTicks(resolve(wdReq))
  <2>1. P \in Nat /\ P <= 40 * wdReq + 255
    BY <1>3, WdResolved
  <2>2. ~(wdElapsed * 40 >= P)
    BY <1>1, WdExpiry DEF Tick, Expired
  <2> HIDE DEF P
  <2> QED BY <1>3, <2>1, <2>2
<1>8. WdClockInv'
  <2>1. wdReg' = wdReg /\ wdReq' = wdReq /\ wdHist' = wdHist
    BY DEF Tick
  <2>2. wdLoop'.due = TRUE /\ wdLoop'.hung = wdLoop.hung
    BY <1>4 DEF WdIInv, WdTypes
  <2>3. ~wdLoop.hung => wdElapsed = 0
    BY <1>2, <1>3 DEF WdIInv, WdClockInv
  <2> QED BY <1>1, <1>3, <1>4, <1>7, <2>1, <2>2, <2>3 DEF WdClockInv, WdIInv
<1> QED BY <1>5, <1>6, <1>8 DEF WdIInv

\* A reset keeps the invariant.
LEMMA WdResetKeeps == ASSUME WdIInv, NEW w \in BOOLEAN, Reset(w) PROVE WdIInv'
<1>1. WdPolls \in Nat \ {0} /\ WdResets \in Nat /\ WdStep \in Nat
  BY WdAssumption
<1>2. w => wdReg.running /\ ~wdHalted /\ wdHist.unreported = 0
  BY WdRunningLoops DEF Reset, Expired, Counting, WdIInv, WdTypes
<1>3. ASSUME w, ~wdLoop.hung, wdReq >= 2 * WdStep PROVE FALSE
  <2> DEFINE P == PeriodTicks(resolve(wdReq))
  <2>1. wdReq \in Nat /\ wdReq <= 50000
    BY WdPeriods DEF WdIInv
  <2>2. P \in Nat /\ (P >= 40 * wdReq \/ P = 256 * 4096)
    BY <2>1, WdResolved
  <2>3. wdElapsed * 40 >= P
    BY <1>2, <1>3, WdExpiry DEF Reset, Expired
  <2> HIDE DEF P
  <2>4. wdElapsed \in Nat /\ wdElapsed <= WdStep
    BY <1>1, <1>3 DEF WdIInv, WdTypes, WdClockInv
  <2>5. P > 0
    <3>1. WdStep > 0 /\ 256 * 4096 > 0
      BY WdBounds
    <3> QED BY <3>1, <2>2, <1>3, <1>1, <2>1
  <2> QED BY <1>1, <1>3, <2>1, <2>2, <2>3, <2>4, <2>5
<1>4. /\ wdHist'.resets = wdHist.resets + 1
      /\ wdHist'.unreported = IF w THEN wdHist.unreported + 1 ELSE wdHist.unreported
      /\ wdHist'.healthy = FALSE /\ wdHist'.halted = FALSE
      /\ wdHist' \in [resets : Nat, unreported : Nat, healthy : BOOLEAN, halted : BOOLEAN]
  <2> DEFINE h == wdHist
  <2>1. h \in [resets : 0..WdResets, unreported : Nat, healthy : BOOLEAN, halted : BOOLEAN]
        /\ ~h.healthy /\ ~h.halted
    BY DEF WdIInv, WdTypes, WdClockInv
  <2>2. (w /\ ~wdLoop.hung /\ ~wdHalted /\ wdReq >= 2 * WdStep) = FALSE /\ (w /\ wdHalted) = FALSE
    BY <1>2, <1>3
  <2>3. wdHist' = [h EXCEPT !.resets = @ + 1, !.unreported = IF w THEN @ + 1 ELSE @,
                            !.healthy = @ \/ FALSE, !.halted = @ \/ FALSE]
    BY <2>2 DEF Reset
  <2>4. h.resets \in Nat
    BY <2>1, <1>1
  <2>5. wdHist' = [resets |-> h.resets + 1, unreported |-> IF w THEN h.unreported + 1 ELSE h.unreported,
                   healthy |-> FALSE, halted |-> FALSE]
    BY <2>1, <2>3
  <2>6. h.unreported \in Nat /\ (IF w THEN h.unreported + 1 ELSE h.unreported) \in Nat
    BY <2>1
  <2> HIDE DEF h
  <2> QED BY <2>4, <2>5, <2>6 DEF h
<1>5. wdHist'.resets \in 0..WdResets
  BY <1>1, <1>4 DEF Reset, WdIInv, WdTypes
<1>6. WdTypes'
  <2>1. wdHist' \in [resets : 0..WdResets, unreported : Nat, healthy : BOOLEAN, halted : BOOLEAN]
    BY <1>4, <1>5
  <2>2. wdReg' \in [open : BOOLEAN, psc : 0..6, rld : 0..ReloadMax, busy : BOOLEAN,
                    running : BOOLEAN, hold : BOOLEAN]
    BY DEF Reset, WdResetReg, ReloadMax
  <2>3. wdRcu' \in [lsi : BOOLEAN, stable : BOOLEAN, fwdgt : BOOLEAN]
    BY DEF Reset, WdIInv, WdTypes
  <2>4. wdLoop' \in [due : BOOLEAN, hung : BOOLEAN] /\ wdElapsed' \in Nat /\ wdHalted' \in BOOLEAN
    BY DEF Reset
  <2>5. wdPolls' \in 0..WdPolls /\ wdReq' \in WdRequests
    BY <1>1 DEF Reset, WdIInv, WdTypes
  <2> QED BY <2>1, <2>2, <2>3, <2>4, <2>5 DEF WdTypes
<1>7. WdPlace(1)'
  BY WdBootIs DEF WdPlace, Reset, WdResetReg
<1>8. WdCodeInv'
  <2>1. wdRcu'.fwdgt = (wdRcu.fwdgt \/ w)
    BY DEF Reset
  <2>2. wdPolls' > 0
    BY <1>1 DEF Reset
  <2>3. wdHist'.unreported > 0 => wdRcu'.fwdgt
    BY <2>1, <1>2, <1>4 DEF WdCodeInv, WdIInv
  <2> QED BY <2>2, <2>3, <1>7 DEF WdCodeInv
<1>9. WdClockInv'
  BY <1>1, <1>4 DEF WdClockInv, Reset, WdResetReg
<1> QED BY <1>6, <1>8, <1>9 DEF WdIInv

\* The invariant holds at power-on.
LEMMA WdInitHolds == WdInit => WdIInv
<1> SUFFICES ASSUME WdInit PROVE WdIInv
  OBVIOUS
<1>1. WdPolls \in Nat \ {0} /\ WdResets \in Nat /\ WdStep \in Nat
  BY WdAssumption
<1>2. WdTypes
  <2>1. wdReg \in [open : BOOLEAN, psc : 0..6, rld : 0..ReloadMax, busy : BOOLEAN,
                   running : BOOLEAN, hold : BOOLEAN]
    BY DEF WdInit, WdResetReg, ReloadMax
  <2>2. wdHist \in [resets : 0..WdResets, unreported : Nat, healthy : BOOLEAN, halted : BOOLEAN]
    BY <1>1 DEF WdInit
  <2>3. wdPolls \in 0..WdPolls
    <3>1. wdPolls = WdPolls
      BY DEF WdInit
    <3> QED BY <1>1, <3>1
  <2>5. wdReq \in WdRequests /\ wdElapsed \in Nat /\ wdHalted \in BOOLEAN
    BY DEF WdInit
  <2>4. wdRcu \in [lsi : BOOLEAN, stable : BOOLEAN, fwdgt : BOOLEAN]
        /\ wdLoop \in [due : BOOLEAN, hung : BOOLEAN]
    BY DEF WdInit
  <2> QED BY <2>1, <2>2, <2>3, <2>4, <2>5 DEF WdTypes
<1>3. WdPlace(1)
  BY WdBootIs DEF WdPlace, WdInit, WdResetReg
<1>4. WdCodeInv
  BY <1>1, <1>3 DEF WdCodeInv, WdInit
<1>5. WdClockInv
  BY <1>1 DEF WdClockInv, WdInit, WdResetReg
<1> QED BY <1>2, <1>4, <1>5 DEF WdIInv

\* Every step keeps the invariant.
LEMMA WdStepKeeps == ASSUME WdIInv, [WdNext]_wdVars PROVE WdIInv'
<1>1. CASE ReadCause
  BY <1>1, WdReadCauseKeeps
<1>2. CASE Signal \/ clear_reset_cause \/ freeze_on_debug_halt \/ LsiOn
  BY <1>2, WdSignalKeeps, WdClearKeeps, WdFreezeKeeps, WdLsiOnKeeps
<1>3. CASE WdProgram \/ LoopPass
  BY <1>3, WdProgramKeeps, WdLoopPassKeeps
<1>4. CASE WdPoll("lsiWait", wdRcu.stable)
  <2>1. WdOps[4] = "lsiWait" /\ wdRcu.stable \in BOOLEAN
    BY DEF WdOps, WdIInv, WdTypes
  <2> QED BY <1>4, <2>1, WdPollKeeps
<1>5. CASE WdPoll("updateWait", ~wdReg.busy)
  <2> DEFINE o == ~wdReg.busy
  <2>1. WdOps[8] = "updateWait" /\ o \in BOOLEAN
    BY DEF WdOps
  <2>2. WdPoll(WdOps[8], o) /\ (o => ~wdReg.busy)
    BY <1>5, <2>1
  <2> HIDE DEF o
  <2> QED BY <2>1, <2>2, WdPollKeeps
<1>6. CASE Stabilise \/ Updated \/ Halt
  BY <1>6, WdSiliconKeeps
<1>7. CASE Tick
  BY <1>7, WdTickKeeps
<1>8. ASSUME NEW w \in BOOLEAN, Reset(w) PROVE WdIInv'
  BY <1>8, WdResetKeeps
<1>9. CASE UNCHANGED wdVars
  BY <1>9 DEF wdVars, WdIInv, WdTypes, WdCodeInv, WdClockInv, WdPlace
<1> QED BY <1>1, <1>2, <1>3, <1>4, <1>5, <1>6, <1>7, <1>8, <1>9 DEF WdNext

\* The invariant implies WdSafe.
LEMMA WdIInvSafe == ASSUME WdIInv PROVE WdSafe
<1>1. WdTypeOK
  BY DEF WdIInv, WdTypes, WdTypeOK
<1>2. wdReq \in Nat /\ wdReq <= 50000
  BY WdPeriods DEF WdIInv
<1>3. ResolveHonest
  <2>1. PeriodTicks(resolve(wdReq)) >= Ticks(wdReq) \/ PeriodTicks(resolve(wdReq)) = 256 * 4096
    BY <1>2, WdResolved, WdTicks
  <2> QED BY <1>2, <2>1, WdResolved DEF ResolveHonest
<1>4. RunsAsAsked
  <2> SUFFICES ASSUME wdReg.running
               PROVE  wdRcu.stable /\ ~wdReg.busy /\ [psc |-> wdReg.psc, rld |-> wdReg.rld] = resolve(wdReq)
    BY DEF RunsAsAsked
  <2>1. resolve(wdReq) \in [psc : 0..6, rld : 0..ReloadMax]
    BY <1>2, WdResolved
  <2> QED BY <2>1, WdRunningLoops DEF WdIInv
<1>5. HealthyNotReset /\ HaltSafe /\ HungInTime
  BY DEF WdIInv, WdClockInv, HealthyNotReset, HaltSafe, HungInTime
<1>6. NoResetUnreported
  BY WdRunningLoops DEF WdIInv, NoResetUnreported
<1> QED BY <1>1, <1>3, <1>4, <1>5, <1>6 DEF WdSafe

\* For every period, budget and pace of the loop: the watchdog runs only once the
\* whole configuration has been taken over (free_watchdog.rs), with the period
\* resolve chose for the request; a reset it made is reported once, by the next
\* boot; a fed loop is never reset, and a hung one is within its period.
THEOREM WatchdogSafety == WdSpec => []WdSafe
<1>1. WdInit => WdIInv
  BY WdInitHolds
<1>2. WdIInv /\ [WdNext]_wdVars => WdIInv'
  BY WdStepKeeps
<1>3. WdIInv => WdSafe
  BY WdIInvSafe
<1> QED BY <1>1, <1>2, <1>3, PTL DEF WdSpec

---------------------------------------------------------------------------
(* The flash controller (Fmc).                                            *)

\* The places before the first operation of a call, and after its last.
FmEarly == {"mask", "unlock", "key1", "key2", "mode", "start"}
FmLate  == {"end", "unmask", "return"}

\* The shapes of the state.
FmTypes ==
  /\ flash \in [Cells -> Words] /\ wp \in SUBSET (0 .. FlashPages - 1)
  /\ lk \in {"locked", "half", "open"}
  /\ fmcCtl \in {{}, {"PG"}, {"PER"}} /\ stat \in SUBSET {"ENDF", "WPERR"}
  /\ DOMAIN busy \subseteq Cells /\ busy \in [DOMAIN busy -> Words]
  /\ primask \in BOOLEAN
  /\ op \in [kind : {"none", "erase", "program"}, addr : CallAddrs \cup {0}, data : Payloads \cup {<<>>},
             k : Nat, left : 0 .. BusyTimeout, worst : SUBSET {"ENDF", "WPERR", "TIMEOUT"},
             mask : BOOLEAN, res : Results \ {"ProgramError"}]
  /\ fpc \in {"idle", "store", "wait"} \cup FmEarly \cup FmLate

\* The lock, the mode and the mask are where the sequence has put them.
FmControl ==
  /\ fpc \in {"idle", "mask", "unlock"} => lk \in {"locked", "open"}
  /\ fpc = "key1" => lk = "locked"
  /\ fpc = "key2" => lk = "half"
  /\ fpc \in {"mode", "start", "store", "wait"} \cup FmLate => lk = "open"
  /\ fpc \in {"start", "store", "wait"} => fmcCtl = IF op.kind = "erase" THEN {"PER"} ELSE {"PG"}
  /\ fpc \notin {"idle", "mask", "return"} => primask
  /\ fpc \in {"idle"} \cup FmEarly => busy = Idle
  /\ fpc \in {"store"} \cup FmLate /\ busy # Idle => "TIMEOUT" \in op.worst

\* A call past its checks, and how far it is.
FmCall ==
  fpc # "idle" =>
    /\ op.res = "Ok" /\ op.kind \in {"erase", "program"} /\ op.addr \in Cells
    /\ fpc \in FmEarly => op.k = 0
    /\ op.kind = "erase" => fpc # "store"
    /\ op.kind = "program" =>
         /\ fpc # "start" /\ op.addr + Len(op.data) <= FlashEnd
         /\ fpc \in FmEarly \cup {"store", "wait"} => op.k < Len(op.data)
         /\ fpc \in FmLate => op.k = Len(op.data)

\* How many of its operations a call has begun.
FmBegun == IF fpc = "wait" THEN op.k + 1 ELSE op.k
\* Cell a holds w, or will when the operation in flight completes.
FmHolds(a, w) == IF a \in DOMAIN busy THEN busy[a] = w ELSE flash[a] = w

\* Each halfword is where it was asked for once begun, and its cell erased before.
FmProgram ==
  fpc # "idle" /\ op.kind = "program" =>
    /\ DOMAIN busy \subseteq {op.addr + FmBegun - 1}
    /\ \A i \in 0 .. Len(op.data) - 1 :
         /\ i >= FmBegun => flash[op.addr + i] = ERASED
         /\ i < FmBegun => \/ FmHolds(op.addr + i, op.data[i + 1])
                           \/ PageOf(op.addr + i) \in wp /\ "WPERR" \in stat \cup op.worst
    /\ LET last == op.addr + Len(op.data) - 1 IN
       last % 2 = 1 /\ SamePage(last, last + 1) => flash[last + 1] = ERASED

\* A page whose erase has begun is erased, or protected and reported.
FmErase ==
  fpc # "idle" /\ op.kind = "erase" /\ fpc \notin FmEarly =>
    \/ \A a \in PageSet(PageOf(op.addr)) : FmHolds(a, ERASED)
    \/ PageOf(op.addr) \in wp /\ "WPERR" \in stat \cup op.worst

\* Where a protection error comes from.
FmHit == PageOf(op.addr) \in wp \/ \E a \in Span(op) : PageOf(a) \in wp
FmError ==
  /\ "WPERR" \in stat => fpc = "wait" /\ FmHit
  /\ "WPERR" \in op.worst => FmHit

\* Between two calls nothing moves.
FmDone == fpc = "idle" => RefusalJustified /\ OkMeansDone /\ ErrorHonest /\ PrefixLanded

FmIInv == FmTypes /\ FmControl /\ FmCall /\ FmProgram /\ FmErase /\ FmError /\ FmDone
---------------------------------------------------------------------------
\* The flash is FlashPages pages of PageCells cells.
LEMMA FmConsts ==
  /\ FlashPages \in Nat \ {0} /\ PageCells \in Nat \ {0} /\ FlashEnd \in Nat \ {0}
  /\ FlashEnd = FlashPages * PageCells /\ 0 \in Cells /\ Cells \subseteq Nat
<1>1. FlashPages \in Nat \ {0} /\ PageCells \in Nat \ {0}
  BY FmcAssumption
<1>2. FlashPages * PageCells \in Nat \ {0}
  BY <1>1
<1> QED BY <1>1, <1>2 DEF FlashEnd, Cells

\* The page after the last one begins where the flash ends.
LEMMA FmLastPage == ASSUME NEW a \in Cells, SamePage(a, a + 1) PROVE a + 1 \in Cells
<1>1. a \in Nat /\ a < FlashEnd
  BY FmConsts DEF Cells
<1>2. SUFFICES ASSUME a + 1 = FlashEnd PROVE FALSE
  BY <1>1, FmConsts DEF Cells
<1>3. (a + 1) \div PageCells = FlashPages
  BY <1>1, <1>2, FmConsts
<1>4. a \div PageCells < FlashPages
  BY <1>1, FmConsts
<1> QED BY <1>1, <1>3, <1>4, FmConsts DEF SamePage, PageOf

\* Nothing is in flight exactly when no cell is.
LEMMA FmIdleDom ==
  ASSUME FmTypes
  PROVE  busy = Idle <=> DOMAIN busy = {}
<1>1. DOMAIN Idle = {} /\ Idle \in [{} -> Words]
  BY DEF Idle
<1>2. ASSUME DOMAIN busy = {} PROVE busy = Idle
  BY <1>1, <1>2 DEF FmTypes
<1> QED BY <1>1, <1>2

FmOps ==
  [kind : {"none", "erase", "program"}, addr : CallAddrs \cup {0}, data : Payloads \cup {<<>>},
   k : Nat, left : 0 .. BusyTimeout, worst : SUBSET {"ENDF", "WPERR", "TIMEOUT"},
   mask : BOOLEAN, res : Results \ {"ProgramError"}]

\* The call's fields and the array, for the steps that read them.
LEMMA FmOpTyped ==
  ASSUME FmTypes
  PROVE  /\ op \in FmOps /\ op.addr \in Int /\ op.k \in Nat /\ op.data \in Seq(Words) /\ Len(op.data) \in Nat
         /\ flash \in [Cells -> Words]
<1>1. op \in FmOps
  BY DEF FmTypes, FmOps
<1>2. op.addr \in CallAddrs \cup {0} /\ op.k \in Nat /\ op.data \in Payloads \cup {<<>>}
  BY <1>1 DEF FmOps
<1>3. op.addr \in Int
  <2>1. CallAddrs \subseteq Int /\ 0 \in Int
    BY FmcAssumption
  <2> QED BY <1>2, <2>1
<1>4. op.data \in Seq(Words)
  <2>1. << >> \in Seq(Words) /\ Payloads \subseteq Seq(Words)
    BY FmcAssumption
  <2> QED BY <1>2, <2>1
<1>5. Len(op.data) \in Nat
  BY <1>4
<1> QED BY <1>1, <1>2, <1>3, <1>4, <1>5 DEF FmTypes

\* A statement that leaves the flash, the flags and the call alone.
LEMMA FmWalk ==
  ASSUME FmIInv, fpc \notin {"idle", "wait"}, fpc' \notin {"idle", "wait"},
         UNCHANGED <<flash, wp, stat, busy, op>>,
         fpc' \in FmEarly \/ fpc \notin FmEarly \/ op.kind = "program"
  PROVE  FmProgram' /\ FmErase' /\ FmError' /\ FmDone'
<1>1. FmBegun' = FmBegun
  BY DEF FmBegun
<1>2. FmProgram'
  BY <1>1 DEF FmIInv, FmProgram, FmHolds
<1>3. FmErase'
  BY DEF FmIInv, FmErase, FmHolds
<1>4. FmError'
  BY DEF FmIInv, FmError, FmHit, Span
<1>5. FmDone'
  BY DEF FmDone
<1> QED BY <1>2, <1>3, <1>4, <1>5

\* Masking the interrupts keeps the invariant.
LEMMA FmMask ==
  ASSUME FmIInv, Mask
  PROVE  FmIInv'
<1>1. fpc = "mask" /\ fpc' = "unlock" /\ primask' = TRUE /\ UNCHANGED <<flash, wp, lk, fmcCtl, stat, busy, op>>
  BY DEF Mask, Fetch, Goto
<1>2. FmTypes'
  BY <1>1 DEF FmIInv, FmTypes, FmEarly
<1>3. FmControl'
  BY <1>1 DEF FmIInv, FmControl, FmEarly, FmLate
<1>4. FmCall'
  BY <1>1 DEF FmIInv, FmCall, FmEarly, FmLate
<1> QED BY <1>1, <1>2, <1>3, <1>4, FmWalk DEF FmIInv, FmEarly

\* The test of the lock keeps the invariant.
LEMMA FmUnlock ==
  ASSUME FmIInv, Unlock
  PROVE  FmIInv'
<1>1. /\ fpc = "unlock" /\ fpc' \in {"mode", "key1"} /\ UNCHANGED <<flash, wp, lk, fmcCtl, stat, busy, primask, op>>
      /\ fpc' = "mode" <=> lk = "open"
  BY DEF Unlock, Goto
<1>2. FmTypes'
  BY <1>1 DEF FmIInv, FmTypes, FmEarly
<1>3. FmControl'
  BY <1>1 DEF FmIInv, FmControl, FmEarly, FmLate
<1>4. FmCall'
  BY <1>1 DEF FmIInv, FmCall, FmEarly, FmLate
<1> QED BY <1>1, <1>2, <1>3, <1>4, FmWalk DEF FmIInv, FmEarly

\* The two key writes keep the invariant.
LEMMA FmWriteKey ==
  ASSUME FmIInv, WriteKey
  PROVE  FmIInv'
<1>1. /\ \/ fpc = "key1" /\ fpc' = "key2" /\ lk' = "half"
         \/ fpc = "key2" /\ fpc' = "mode" /\ lk' = "open"
      /\ UNCHANGED <<flash, wp, fmcCtl, stat, busy, primask, op>>
  BY DEF WriteKey, Goto, KeyWrite, FmIInv, FmControl
<1>2. FmTypes'
  BY <1>1 DEF FmIInv, FmTypes, FmEarly
<1>3. FmControl'
  BY <1>1 DEF FmIInv, FmControl, FmEarly, FmLate
<1>4. FmCall'
  BY <1>1 DEF FmIInv, FmCall, FmEarly, FmLate
<1> QED BY <1>1, <1>2, <1>3, <1>4, FmWalk DEF FmIInv, FmEarly

\* Setting PG or PER keeps the invariant.
LEMMA FmMode ==
  ASSUME FmIInv, Mode
  PROVE  FmIInv'
<1>1. /\ fpc = "mode" /\ lk = "open" /\ UNCHANGED <<flash, wp, lk, stat, busy, primask, op>>
      /\ fmcCtl' = IF op.kind = "erase" THEN {"PER"} ELSE {"PG"}
      /\ fpc' = IF op.kind = "erase" THEN "start" ELSE "store"
  BY DEF Mode, Goto, CtlWrite, FmIInv, FmControl
<1>2. op.kind \in {"erase", "program"} /\ op.k = 0
  BY <1>1 DEF FmIInv, FmCall, FmEarly
<1>3. FmTypes'
  BY <1>1 DEF FmIInv, FmTypes, FmEarly
<1>4. FmControl'
  BY <1>1, <1>2 DEF FmIInv, FmControl, FmEarly, FmLate
<1>5. FmCall'
  BY <1>1, <1>2 DEF FmIInv, FmCall, FmEarly, FmLate
<1> QED BY <1>1, <1>2, <1>3, <1>4, <1>5, FmWalk DEF FmIInv, FmEarly

\* Leaving the mode and the masked section keep the invariant.
LEMMA FmEndUnmask ==
  ASSUME FmIInv, End \/ Unmask
  PROVE  FmIInv'
<1>1. /\ \/ fpc = "end" /\ fpc' = "unmask" /\ fmcCtl' = {} /\ primask' = primask
         \/ fpc = "unmask" /\ fpc' = "return" /\ fmcCtl' = fmcCtl /\ primask' = op.mask
      /\ lk = "open" /\ UNCHANGED <<flash, wp, lk, stat, busy, op>>
  BY DEF End, Unmask, Goto, CtlWrite, FmIInv, FmControl, FmLate
<1>2. FmTypes'
  BY <1>1 DEF FmIInv, FmTypes, FmLate
<1>3. FmControl'
  BY <1>1 DEF FmIInv, FmControl, FmEarly, FmLate
<1>4. FmCall'
  BY <1>1 DEF FmIInv, FmCall, FmEarly, FmLate
<1>5. fpc \notin FmEarly /\ fpc \notin {"idle", "wait"} /\ fpc' \notin {"idle", "wait"}
  BY <1>1 DEF FmEarly
<1> QED BY <1>1, <1>2, <1>3, <1>4, <1>5, FmWalk DEF FmIInv

\* A poll that finds the controller busy keeps the invariant.
LEMMA FmPollBusy ==
  ASSUME FmIInv, PollBusy
  PROVE  FmIInv'
<1>1. /\ fpc = "wait" /\ op.left > 1 /\ op' = [op EXCEPT !.left = op.left - 1]
      /\ UNCHANGED <<flash, wp, lk, fmcCtl, stat, busy, primask, fpc>>
  BY DEF PollBusy
<1>2. op \in FmOps
  BY FmOpTyped DEF FmIInv
<1>3. /\ op' \in FmOps /\ op'.kind = op.kind /\ op'.addr = op.addr /\ op'.data = op.data /\ op'.k = op.k
      /\ op'.worst = op.worst /\ op'.res = op.res
  BY <1>1, <1>2, FmcAssumption DEF FmOps
<1>4. FmTypes'
  BY <1>1, <1>3 DEF FmIInv, FmTypes, FmOps
<1>5. FmControl'
  BY <1>1, <1>3 DEF FmIInv, FmControl
<1>6. FmCall'
  BY <1>1, <1>3 DEF FmIInv, FmCall
<1>7. FmProgram' /\ FmErase'
  BY <1>1, <1>3 DEF FmIInv, FmProgram, FmErase, FmBegun, FmHolds
<1>8. FmError'
  BY <1>1, <1>3 DEF FmIInv, FmError, FmHit, Span
<1>9. FmDone'
  BY <1>1 DEF FmDone
<1> QED BY <1>4, <1>5, <1>6, <1>7, <1>8, <1>9 DEF FmIInv

\* The poll that ends a wait, with its flags or its budget, keeps the invariant.
LEMMA FmPollEnd ==
  ASSUME FmIInv, PollEnd
  PROVE  FmIInv'
<1> DEFINE w == op.worst \cup stat \cup (IF busy # Idle THEN {"TIMEOUT"} ELSE {})
           more == op.kind = "program" /\ op.k + 1 < Len(op.data)
<1>1. /\ fpc = "wait" /\ op' = [op EXCEPT !.worst = w, !.k = op.k + 1] /\ stat' = {}
      /\ fpc' = IF more THEN "store" ELSE "end"
      /\ UNCHANGED <<flash, wp, lk, fmcCtl, busy, primask>>
  BY DEF PollEnd
<1>2. op \in FmOps /\ op.k \in Nat /\ Len(op.data) \in Nat
  BY FmOpTyped DEF FmIInv
<1>3. w \in SUBSET {"ENDF", "WPERR", "TIMEOUT"} /\ (busy # Idle => "TIMEOUT" \in w)
      /\ ("WPERR" \in w <=> "WPERR" \in stat \cup op.worst)
  BY <1>2 DEF FmIInv, FmTypes, FmOps
<1> HIDE DEF w
<1>4. /\ op' \in FmOps /\ op'.kind = op.kind /\ op'.addr = op.addr /\ op'.data = op.data /\ op'.k = op.k + 1
      /\ op'.worst = w /\ op'.res = op.res
  <2>1. op.k + 1 \in Nat
    BY <1>2
  <2> QED BY <1>1, <1>2, <1>3, <2>1 DEF FmOps
<1>5. fpc' \in {"store", "end"} /\ (fpc' = "store" <=> more)
  BY <1>1
<1>6. FmTypes'
  BY <1>1, <1>4, <1>5 DEF FmIInv, FmTypes, FmOps, FmLate
<1>7. FmControl'
  BY <1>1, <1>3, <1>4, <1>5 DEF FmIInv, FmControl, FmEarly, FmLate
<1>8. FmCall'
  BY <1>1, <1>2, <1>4, <1>5 DEF FmIInv, FmCall, FmEarly, FmLate
<1>9. FmBegun' = FmBegun
  BY <1>1, <1>4, <1>5 DEF FmBegun
<1>10. FmProgram' /\ FmErase'
  <2>1. "WPERR" \in stat \cup op.worst <=> "WPERR" \in stat' \cup op'.worst
    BY <1>1, <1>3, <1>4
  <2>2. fpc # "idle" /\ fpc \notin FmEarly
    BY <1>1 DEF FmEarly
  <2>3. FmProgram'
    BY <1>1, <1>4, <1>9, <2>1, <2>2 DEF FmIInv, FmProgram, FmHolds
  <2>4. FmErase'
    BY <1>1, <1>4, <2>1, <2>2 DEF FmIInv, FmErase, FmHolds
  <2> QED BY <2>3, <2>4
<1>11. FmError'
  BY <1>1, <1>3, <1>4 DEF FmIInv, FmError, FmHit, Span
<1>12. FmDone'
  BY <1>5 DEF FmDone
<1> QED BY <1>6, <1>7, <1>8, <1>10, <1>11, <1>12 DEF FmIInv
\* START begins the erase, or a protected page refuses it.
LEMMA FmStart ==
  ASSUME FmIInv, Start
  PROVE  FmIInv'
<1> DEFINE page == PageSet(PageOf(op.addr))
           change == [a \in page |-> ERASED]
<1>1. /\ fpc = "start" /\ fpc' = "wait" /\ op' = [op EXCEPT !.left = BusyTimeout]
      /\ UNCHANGED <<flash, wp, lk, fmcCtl, primask>>
  BY DEF Start, Wait
<1>2. /\ op.kind = "erase" /\ op.k = 0 /\ op.addr \in Cells /\ op.res = "Ok"
  BY <1>1 DEF FmIInv, FmCall, FmEarly
<1>3. fmcCtl = {"PER"} /\ lk = "open" /\ busy = Idle
  BY <1>1, <1>2 DEF FmIInv, FmControl, FmEarly
<1>4. op \in FmOps /\ flash \in [Cells -> Words]
  BY FmOpTyped DEF FmIInv
<1>5. /\ op' \in FmOps /\ op'.kind = op.kind /\ op'.addr = op.addr /\ op'.data = op.data /\ op'.k = op.k
      /\ op'.worst = op.worst /\ op'.res = op.res
  BY <1>1, <1>4, FmcAssumption DEF FmOps
<1>6. page \subseteq Cells /\ op.addr \in page /\ \A a \in page : PageOf(a) = PageOf(op.addr)
  BY <1>2 DEF PageSet
<1>7. Begin(change, FALSE)
  BY <1>1, <1>3 DEF Start
<1>8. DOMAIN change = page /\ \A a \in page : change[a] = ERASED
  OBVIOUS
<1>9. change \in [page -> Words]
  BY FmcAssumption
<1> HIDE DEF page, change
<1>10. \/ PageOf(op.addr) \in wp /\ stat' = stat \cup {"WPERR"} /\ busy' = busy
       \/ busy' = change /\ stat' = stat
  BY <1>6, <1>7, <1>8 DEF Begin
<1>11. stat \in SUBSET {"ENDF", "WPERR"} /\ "WPERR" \notin stat
  BY <1>1 DEF FmIInv, FmTypes, FmError
<1>12. /\ DOMAIN busy' \subseteq Cells /\ busy' \in [DOMAIN busy' -> Words]
       /\ stat' \in SUBSET {"ENDF", "WPERR"}
  <2>1. CASE busy' = change /\ stat' = stat
    BY <1>6, <1>8, <1>9, <1>11, <2>1
  <2>2. CASE stat' = stat \cup {"WPERR"} /\ busy' = busy
    BY <1>11, <2>2 DEF FmIInv, FmTypes
  <2> QED BY <1>10, <2>1, <2>2
<1>13. FmTypes'
  BY <1>1, <1>5, <1>12 DEF FmIInv, FmTypes, FmOps
<1>14. FmControl'
  BY <1>1, <1>2, <1>3, <1>5 DEF FmIInv, FmControl, FmEarly, FmLate
<1>15. FmCall'
  BY <1>1, <1>2, <1>5 DEF FmCall, FmEarly, FmLate
<1>16. FmProgram'
  BY <1>2, <1>5 DEF FmProgram
<1>17. FmErase'
  <2>1. CASE busy' = change
    BY <1>5, <1>8, <2>1 DEF FmErase, FmHolds, page
  <2>2. CASE PageOf(op.addr) \in wp /\ stat' = stat \cup {"WPERR"}
    BY <1>1, <1>5, <2>2 DEF FmErase
  <2> QED BY <1>10, <2>1, <2>2
<1>18. FmError'
  BY <1>1, <1>5, <1>10, <1>11 DEF FmIInv, FmError, FmHit, Span
<1>19. FmDone'
  BY <1>1 DEF FmDone
<1> QED BY <1>13, <1>14, <1>15, <1>16, <1>17, <1>18, <1>19 DEF FmIInv

\* What the pre-check let through the controller does not refuse.
LEMMA FmNotRefused ==
  ASSUME FmIInv, fpc = "store"
  PROVE  /\ op.kind = "program" /\ op.addr \in Nat /\ op.k \in Nat /\ op.k < Len(op.data)
         /\ op.addr + op.k \in Cells /\ Len(op.data) \in Nat /\ op.data[op.k + 1] \in Words
         /\ ~Refuses(op.addr + op.k)
<1> DEFINE a == op.addr + op.k
           L == Len(op.data)
<1>1. /\ op.kind = "program" /\ op.addr \in Cells /\ op.k < L
      /\ op.addr + L <= FlashEnd
  BY DEF FmIInv, FmCall, FmEarly
<1>2. op.k \in Nat /\ L \in Nat /\ op.data \in Seq(Words)
  BY FmOpTyped DEF FmIInv
<1>3. op.addr \in Nat /\ a \in Cells
  BY <1>1, <1>2, FmConsts DEF Cells
<1>4. op.data[op.k + 1] \in Words
  <2>1. op.k + 1 \in 1 .. L
    BY <1>1, <1>2
  <2> QED BY <1>2, <2>1
<1>5. FmBegun = op.k
  BY DEF FmBegun
<1>6. \A i \in 0 .. L - 1 : i >= op.k => flash[op.addr + i] = ERASED
  BY <1>1, <1>5 DEF FmIInv, FmProgram
<1>7. flash[a] = ERASED
  BY <1>1, <1>2, <1>6
<1>8. ~Closed(a)
  <2>1. CASE op.k + 1 < L
    <3>1. op.k + 1 \in 0 .. L - 1 /\ a + 1 = op.addr + (op.k + 1)
      BY <1>2, <1>3, <2>1
    <3>2. flash[a + 1] = ERASED
      BY <1>2, <1>6, <3>1
    <3> QED BY <3>2 DEF Closed
  <2>2. CASE op.k + 1 = L
    <3>1. a = op.addr + L - 1
      BY <1>2, <1>3, <2>2
    <3>2. a % 2 = 1 /\ SamePage(a, a + 1) => flash[a + 1] = ERASED
      BY <1>1, <3>1 DEF FmIInv, FmProgram
    <3> QED BY <3>2 DEF Closed
  <2> QED BY <1>1, <1>2, <2>1, <2>2
<1> QED BY <1>1, <1>2, <1>3, <1>4, <1>7, <1>8 DEF Refuses

\* A halfword's store keeps the invariant.
LEMMA FmStore ==
  ASSUME FmIInv, Store
  PROVE  FmIInv'
<1> DEFINE a == op.addr + op.k
           w == op.data[op.k + 1]
           change == [c \in {a} |-> w]
<1>1. /\ fpc = "store" /\ busy = Idle /\ fpc' = "wait" /\ op' = [op EXCEPT !.left = BusyTimeout]
      /\ UNCHANGED <<flash, wp, lk, fmcCtl, primask>>
  BY DEF Store, Wait, Fetch
<1>2. /\ op.kind = "program" /\ op.addr \in Nat /\ op.k \in Nat /\ op.k < Len(op.data)
      /\ a \in Cells /\ Len(op.data) \in Nat /\ w \in Words /\ ~Refuses(a)
  BY <1>1, FmNotRefused
<1>3. fmcCtl = {"PG"}
  BY <1>1, <1>2 DEF FmIInv, FmControl
<1>4. op \in FmOps /\ flash \in [Cells -> Words]
  BY FmOpTyped DEF FmIInv
<1>5. /\ op' \in FmOps /\ op'.kind = op.kind /\ op'.addr = op.addr /\ op'.data = op.data /\ op'.k = op.k
      /\ op'.worst = op.worst /\ op'.res = op.res
  BY <1>1, <1>4, FmcAssumption DEF FmOps
<1>6. Begin(change, Refuses(a))
  BY <1>1, <1>3 DEF Store
<1>7. DOMAIN change = {a} /\ change[a] = w /\ change \in [{a} -> Words]
  BY <1>2
<1>8. DOMAIN busy = {}
  BY <1>1, FmIdleDom DEF FmIInv
<1> HIDE DEF change
<1>9. \/ PageOf(a) \in wp /\ stat' = stat \cup {"WPERR"} /\ busy' = busy
      \/ busy' = change /\ stat' = stat
  BY <1>2, <1>6, <1>7 DEF Begin
<1>10. stat \in SUBSET {"ENDF", "WPERR"} /\ "WPERR" \notin stat
  BY <1>1 DEF FmIInv, FmTypes, FmError
<1>11. /\ DOMAIN busy' \subseteq {a} /\ busy' \in [DOMAIN busy' -> Words]
       /\ stat' \in SUBSET {"ENDF", "WPERR"}
  <2>1. CASE busy' = change /\ stat' = stat
    BY <1>7, <1>10, <2>1
  <2>2. CASE stat' = stat \cup {"WPERR"} /\ busy' = busy
    BY <1>8, <1>10, <2>2 DEF FmIInv, FmTypes
  <2> QED BY <1>9, <2>1, <2>2
<1>12. FmTypes'
  BY <1>1, <1>2, <1>5, <1>11 DEF FmIInv, FmTypes, FmOps
<1>13. FmControl'
  BY <1>1, <1>2, <1>3, <1>5 DEF FmIInv, FmControl, FmEarly, FmLate
<1>14. FmCall'
  BY <1>1, <1>2, <1>5 DEF FmIInv, FmCall, FmEarly, FmLate
<1>15. FmBegun = op.k /\ FmBegun' = op.k + 1
  BY <1>1, <1>5 DEF FmBegun
<1>16. FmProgram'
  <2>1. DOMAIN busy' \subseteq {op.addr + (op.k + 1) - 1}
    BY <1>2, <1>11
  <2>2. ASSUME NEW i \in 0 .. Len(op.data) - 1
        PROVE  /\ i >= op.k + 1 => flash[op.addr + i] = ERASED
               /\ i < op.k + 1 => \/ FmHolds(op.addr + i, op.data[i + 1])'
                                  \/ PageOf(op.addr + i) \in wp /\ "WPERR" \in stat' \cup op.worst
    <3>1. /\ i >= op.k => flash[op.addr + i] = ERASED
          /\ i < op.k => \/ FmHolds(op.addr + i, op.data[i + 1])
                         \/ PageOf(op.addr + i) \in wp /\ "WPERR" \in stat \cup op.worst
      BY <1>1, <1>2, <1>15 DEF FmIInv, FmProgram
    <3>2. CASE i > op.k
      BY <1>2, <3>1, <3>2
    <3>3. CASE i < op.k
      <4>1. op.addr + i # a
        BY <1>2, <3>3
      <4>2. FmHolds(op.addr + i, op.data[i + 1]) => FmHolds(op.addr + i, op.data[i + 1])'
        BY <1>1, <1>5, <1>8, <1>11, <4>1 DEF FmHolds
      <4>3. "WPERR" \in stat => "WPERR" \in stat'
        BY <1>9
      <4> QED BY <1>2, <3>1, <3>3, <4>2, <4>3
    <3>4. CASE i = op.k
      <4>1. op.addr + i = a /\ op.data[i + 1] = w
        BY <3>4
      <4>2. CASE busy' = change
        <5>1. FmHolds(a, w)'
          BY <1>1, <1>5, <1>7, <4>2 DEF FmHolds
        <5>2. op'.addr + i = a /\ op'.data[i + 1] = w
          BY <1>5, <4>1
        <5>3. FmHolds(op.addr + i, op.data[i + 1])'
          BY <1>7, <4>1, <4>2, <5>2 DEF FmHolds
        <5> QED BY <1>2, <3>4, <5>3
      <4>3. CASE PageOf(a) \in wp /\ stat' = stat \cup {"WPERR"}
        BY <1>2, <3>4, <4>1, <4>3
      <4> QED BY <1>9, <4>2, <4>3
    <3> QED BY <1>2, <3>2, <3>3, <3>4
  <2>3. LET last == op.addr + Len(op.data) - 1 IN
        last % 2 = 1 /\ SamePage(last, last + 1) => flash[last + 1] = ERASED
    BY <1>1, <1>2 DEF FmIInv, FmProgram
  <2> QED BY <1>1, <1>5, <1>15, <2>1, <2>2, <2>3 DEF FmProgram, FmHolds
<1>17. FmErase'
  BY <1>2, <1>5 DEF FmErase
<1>18. FmError'
  <2>1. PageOf(a) \in wp => \E c \in Span(op) : PageOf(c) \in wp
    BY <1>2 DEF Span
  <2> QED BY <1>1, <1>5, <1>9, <1>10, <2>1 DEF FmIInv, FmError, FmHit, Span
<1>19. FmDone'
  BY <1>1 DEF FmDone
<1> QED BY <1>12, <1>13, <1>14, <1>16, <1>17, <1>18, <1>19 DEF FmIInv
\* What a call has begun before its latest operation has landed.
LEMMA FmLanded ==
  ASSUME FmIInv, fpc # "idle", op.kind = "program", \A a \in Span(op) : PageOf(a) \notin wp,
         NEW i \in 1 .. Len(op.data), NEW j \in 1 .. Len(op.data), i < j, j - 1 < FmBegun
  PROVE  op.addr + i - 1 \notin DOMAIN busy /\ flash[op.addr + i - 1] = op.data[i]
<1>1. op.addr \in Cells /\ op.addr \in Int /\ op.k \in Nat /\ Len(op.data) \in Nat
  BY FmOpTyped DEF FmIInv, FmCall
<1>2. FmBegun \in Nat
  BY <1>1 DEF FmBegun
<1>3. i - 1 \in 0 .. Len(op.data) - 1 /\ i - 1 < FmBegun - 1 /\ (i - 1) + 1 = i
      /\ op.addr + (i - 1) = op.addr + i - 1
  BY <1>1, <1>2
<1>4. op.addr + (i - 1) \in Span(op)
  BY <1>3 DEF Span
<1>5. FmHolds(op.addr + (i - 1), op.data[(i - 1) + 1])
  <2>1. i - 1 < FmBegun
    BY <1>2, <1>3
  <2> QED BY <1>3, <1>4, <2>1 DEF FmIInv, FmProgram
<1>6. op.addr + (i - 1) \notin DOMAIN busy
  <2>1. DOMAIN busy \subseteq {op.addr + FmBegun - 1}
    BY DEF FmIInv, FmProgram
  <2> QED BY <1>1, <1>2, <1>3, <2>1
<1> QED BY <1>3, <1>5, <1>6 DEF FmHolds

\* What a call has not begun is erased.
LEMMA FmNotBegun ==
  ASSUME FmIInv, fpc # "idle", op.kind = "program",
         NEW j \in 1 .. Len(op.data), ~(j - 1 < FmBegun)
  PROVE  op.addr + j - 1 \notin DOMAIN busy /\ flash[op.addr + j - 1] = ERASED
<1>1. op.addr \in Int /\ op.k \in Nat /\ Len(op.data) \in Nat
  BY FmOpTyped DEF FmIInv
<1>2. FmBegun \in Nat
  BY <1>1 DEF FmBegun
<1>3. j - 1 \in 0 .. Len(op.data) - 1 /\ j - 1 >= FmBegun /\ op.addr + (j - 1) = op.addr + j - 1
  BY <1>1, <1>2
<1>4. flash[op.addr + (j - 1)] = ERASED
  BY <1>3 DEF FmIInv, FmProgram
<1>5. op.addr + (j - 1) \notin DOMAIN busy
  <2>1. DOMAIN busy \subseteq {op.addr + FmBegun - 1}
    BY DEF FmIInv, FmProgram
  <2> QED BY <1>1, <1>2, <1>3, <2>1
<1> QED BY <1>3, <1>4, <1>5

\* The controller's completion of an operation keeps the invariant.
LEMMA FmFinish ==
  ASSUME FmIInv, FmcFinish
  PROVE  FmIInv'
<1> DEFINE f == [a \in Cells |-> IF a \in DOMAIN busy THEN busy[a] ELSE flash[a]]
<1>1. /\ busy # Idle /\ flash' = f /\ busy' = Idle /\ stat' = stat \cup {"ENDF"}
      /\ UNCHANGED <<wp, lk, fmcCtl, primask, op, fpc>>
  BY DEF FmcFinish
<1>2. FmTypes /\ flash \in [Cells -> Words] /\ DOMAIN busy \subseteq Cells /\ busy \in [DOMAIN busy -> Words]
  BY DEF FmIInv, FmTypes
<1>3. fpc # "idle" /\ fpc \notin FmEarly
  BY <1>1 DEF FmIInv, FmControl
<1>4. op.addr \in Cells /\ op.addr \in Int /\ op.k \in Nat /\ Len(op.data) \in Nat
      /\ (op.kind = "program" => op.addr + Len(op.data) <= FlashEnd)
  BY <1>2, <1>3, FmOpTyped DEF FmIInv, FmCall
<1>5. f \in [Cells -> Words] /\ \A a \in Cells : f[a] = IF a \in DOMAIN busy THEN busy[a] ELSE flash[a]
  BY <1>2
<1>6. DOMAIN busy' = {} /\ busy' \in [{} -> Words]
  BY <1>1 DEF Idle
<1> HIDE DEF f
<1>7. stat' \in SUBSET {"ENDF", "WPERR"} /\ ("WPERR" \in stat' <=> "WPERR" \in stat)
  BY <1>1, <1>2 DEF FmTypes
<1>8. FmTypes'
  BY <1>1, <1>2, <1>5, <1>6, <1>7 DEF FmTypes
<1>9. FmControl'
  BY <1>1 DEF FmIInv, FmControl
<1>10. FmCall'
  BY <1>1 DEF FmIInv, FmCall
<1>11. \A a \in Cells : \A w : FmHolds(a, w) => f[a] = w
  BY <1>5 DEF FmHolds
<1>12. ASSUME op.kind = "program" PROVE FmProgram'
  <2>1. FmBegun' = FmBegun /\ FmBegun \in Nat
    BY <1>1, <1>4 DEF FmBegun
  <2>2. ASSUME NEW i \in 0 .. Len(op.data) - 1
        PROVE  /\ i >= FmBegun => f[op.addr + i] = ERASED
               /\ i < FmBegun => \/ f[op.addr + i] = op.data[i + 1]
                                 \/ PageOf(op.addr + i) \in wp /\ "WPERR" \in stat' \cup op.worst
    <3>1. op.addr + i \in Cells
      BY <1>4, <1>12, FmConsts DEF Cells
    <3>2. CASE i >= FmBegun
      <4>1. i + 1 \in 1 .. Len(op.data) /\ ~((i + 1) - 1 < FmBegun) /\ op.addr + (i + 1) - 1 = op.addr + i
        BY <1>4, <2>1, <3>2
      <4>2. op.addr + i \notin DOMAIN busy /\ flash[op.addr + i] = ERASED
        BY <1>3, <1>12, <4>1, FmNotBegun
      <4>3. f[op.addr + i] = ERASED
        BY <1>5, <3>1, <4>2
      <4> QED BY <2>1, <3>2, <4>3
    <3>3. CASE i < FmBegun
      <4>1. \/ FmHolds(op.addr + i, op.data[i + 1])
            \/ PageOf(op.addr + i) \in wp /\ "WPERR" \in stat \cup op.worst
        BY <1>3, <1>12, <3>3 DEF FmIInv, FmProgram
      <4> QED BY <1>7, <1>11, <2>1, <3>1, <3>3, <4>1
    <3> QED BY <2>1, <3>2, <3>3
  <2>3. ASSUME NEW last, last = op.addr + Len(op.data) - 1, last % 2 = 1, SamePage(last, last + 1)
        PROVE  f[last + 1] = ERASED
    <3>1. flash[last + 1] = ERASED
      BY <1>3, <1>12, <2>3 DEF FmIInv, FmProgram
    <3>2. op.k < Len(op.data) \/ FmBegun = Len(op.data)
      BY <1>3, <1>4, <1>12 DEF FmIInv, FmCall, FmBegun, FmTypes, FmEarly, FmLate
    <3>3. FmBegun <= Len(op.data)
      BY <1>4, <2>1, <3>2 DEF FmBegun
    <3>4. DOMAIN busy \subseteq {op.addr + FmBegun - 1}
      BY <1>3, <1>12 DEF FmIInv, FmProgram
    <3>5. last + 1 \notin DOMAIN busy
      BY <1>4, <2>1, <2>3, <3>3, <3>4
    <3>6. CASE Len(op.data) = 0
      <4>1. fpc \in FmLate /\ op.k = 0
        BY <1>3, <1>4, <1>12, <3>6 DEF FmIInv, FmCall, FmTypes
      <4>2. FmBegun = 0
        BY <4>1 DEF FmBegun, FmLate
      <4>3. last + 1 \in Cells
        BY <1>4, <2>3, <3>6
      <4> QED BY <1>5, <3>1, <3>5, <4>3
    <3>7. CASE Len(op.data) # 0
      <4>1. last \in Cells
        BY <1>4, <1>12, <2>3, <3>7, FmConsts DEF Cells
      <4>2. last + 1 \in Cells
        BY <2>3, <4>1, FmLastPage
      <4> QED BY <1>5, <3>1, <3>5, <4>2
    <3> QED BY <3>6, <3>7
  <2> HIDE DEF f
  <2> QED BY <1>1, <1>6, <2>1, <2>2, <2>3 DEF FmProgram, FmHolds
<1>13. ASSUME op.kind = "erase" PROVE FmErase'
  <2>1. \/ \A a \in PageSet(PageOf(op.addr)) : FmHolds(a, ERASED)
        \/ PageOf(op.addr) \in wp /\ "WPERR" \in stat \cup op.worst
    BY <1>3, <1>13 DEF FmIInv, FmErase
  <2>2. CASE \A a \in PageSet(PageOf(op.addr)) : FmHolds(a, ERASED)
    <3>1. \A a \in PageSet(PageOf(op.addr)) : f[a] = ERASED
      BY <1>11, <2>2 DEF PageSet
    <3> QED BY <1>1, <1>6, <3>1 DEF FmErase, FmHolds
  <2>3. CASE PageOf(op.addr) \in wp /\ "WPERR" \in stat \cup op.worst
    BY <1>1, <1>7, <2>3 DEF FmErase
  <2> QED BY <2>1, <2>2, <2>3
<1>14. FmProgram' /\ FmErase'
  <2>1. op.kind # "program" => FmProgram'
    BY <1>1 DEF FmProgram
  <2>2. op.kind # "erase" => FmErase'
    BY <1>1 DEF FmErase
  <2> QED BY <1>12, <1>13, <2>1, <2>2
<1>15. FmError'
  BY <1>1, <1>7 DEF FmIInv, FmError, FmHit, Span
<1>16. FmDone'
  BY <1>1, <1>3 DEF FmDone
<1> QED BY <1>8, <1>9, <1>10, <1>14, <1>15, <1>16 DEF FmIInv
\* A call that ends without touching the flash.
LEMMA FmIdles ==
  ASSUME FmIInv, fpc' = "idle", op' \in FmOps, busy' = Idle,
         flash' \in [Cells -> Words], wp' = wp, primask' \in BOOLEAN,
         lk' \in {"locked", "open"}, fmcCtl' \in {{}, {"PG"}, {"PER"}},
         stat' \in SUBSET {"ENDF"}, op'.worst = {}, FmDone'
  PROVE  FmIInv'
<1>1. DOMAIN busy' = {} /\ busy' \in [{} -> Words]
  BY DEF Idle
<1>2. FmTypes'
  BY <1>1 DEF FmIInv, FmTypes, FmOps
<1>3. FmControl'
  BY DEF FmControl, FmLate
<1>4. FmCall' /\ FmProgram' /\ FmErase'
  BY DEF FmCall, FmProgram, FmErase
<1>5. FmError'
  BY DEF FmError
<1> QED BY <1>2, <1>3, <1>4, <1>5 DEF FmIInv

\* The record a call leaves behind.
LEMMA FmDoneRecord ==
  ASSUME NEW o \in FmOps, NEW r \in Results \ {"ProgramError"}
  PROVE  /\ Done(o, r) \in FmOps /\ Done(o, r).kind = o.kind /\ Done(o, r).addr = o.addr
         /\ Done(o, r).data = o.data /\ Done(o, r).res = r /\ Done(o, r).worst = {}
         /\ Span(Done(o, r)) = Span(o)
<1>1. NoOp \in FmOps /\ NoOp.worst = {}
  <2>1. 0 \in 0 .. BusyTimeout /\ "Ok" \in Results \ {"ProgramError"}
    BY FmcAssumption DEF Results
  <2> QED BY <2>1 DEF NoOp, FmOps
<1> DEFINE d == [NoOp EXCEPT !.kind = o.kind, !.addr = o.addr, !.data = o.data, !.res = r]
<1>2. /\ d \in FmOps /\ d.kind = o.kind /\ d.addr = o.addr /\ d.data = o.data /\ d.res = r
      /\ d.worst = {}
  BY <1>1 DEF FmOps
<1>3. Done(o, r) = d
  BY DEF Done
<1> QED BY <1>2, <1>3 DEF Span

\* Outside a wait no error flag stands.
LEMMA FmStatNow ==
  ASSUME FmIInv, fpc # "wait"
  PROVE  stat \in SUBSET {"ENDF"}
BY DEF FmIInv, FmTypes, FmError

\* The return of a call keeps the invariant.
LEMMA FmReturns ==
  ASSUME FmIInv, FmcReturn
  PROVE  FmIInv'
<1> DEFINE r == Decode(op.worst)
<1>1. /\ fpc = "return" /\ busy = Idle /\ op' = Done(op, r) /\ fpc' = "idle"
      /\ UNCHANGED <<flash, wp, lk, fmcCtl, stat, busy, primask>>
  BY DEF FmcReturn, Fetch, Answer
<1>2. op \in FmOps /\ FmTypes /\ flash \in [Cells -> Words] /\ Len(op.data) \in Nat /\ op.addr \in Int /\ op.k \in Nat
  BY FmOpTyped DEF FmIInv
<1>3. op.worst \in SUBSET {"ENDF", "WPERR", "TIMEOUT"}
  BY <1>2 DEF FmOps
<1>4. /\ r \in {"Ok", "Timeout", "WriteProtect"}
      /\ r = "Ok" => "TIMEOUT" \notin op.worst /\ "WPERR" \notin op.worst
      /\ r = "WriteProtect" => "WPERR" \in op.worst
  BY <1>3 DEF Decode
<1> HIDE DEF r
<1>5. r \in Results \ {"ProgramError"}
  BY <1>4 DEF Results
<1>6. /\ op' \in FmOps /\ op'.kind = op.kind /\ op'.addr = op.addr /\ op'.data = op.data /\ op'.res = r
      /\ op'.worst = {} /\ Span(op') = Span(op)
  BY <1>1, <1>2, <1>5, FmDoneRecord
<1>7. stat \in SUBSET {"ENDF"} /\ lk = "open" /\ fpc \notin FmEarly
  BY <1>1, FmStatNow DEF FmIInv, FmControl, FmLate, FmEarly
<1>8. op.kind \in {"erase", "program"} /\ (op.kind = "program" => op.k = Len(op.data)) /\ FmBegun = op.k
  BY <1>1 DEF FmIInv, FmCall, FmLate, FmBegun
<1>9. DOMAIN busy = {}
  BY <1>1, <1>2, FmIdleDom
<1>10. RefusalJustified'
  BY <1>4, <1>6 DEF RefusalJustified
<1>11. OkMeansDone'
  <2>1. ASSUME r = "Ok", op.kind = "erase"
        PROVE  \A a \in PageSet(PageOf(op.addr)) : flash[a] = ERASED
    BY <1>1, <1>4, <1>7, <1>9, <2>1 DEF FmIInv, FmErase, FmHolds
  <2>2. ASSUME r = "Ok", op.kind = "program", NEW i \in 1 .. Len(op.data)
        PROVE  flash[op.addr + i - 1] = op.data[i]
    <3>1. i - 1 \in 0 .. Len(op.data) - 1 /\ i - 1 < FmBegun /\ (i - 1) + 1 = i /\ op.addr + (i - 1) = op.addr + i - 1
      BY <1>2, <1>8, <2>2
    <3>2. \/ FmHolds(op.addr + (i - 1), op.data[(i - 1) + 1])
          \/ "WPERR" \in stat \cup op.worst
      BY <1>1, <2>2, <3>1 DEF FmIInv, FmProgram
    <3>3. FmHolds(op.addr + (i - 1), op.data[(i - 1) + 1])
      BY <1>4, <1>7, <2>2, <3>2
    <3> QED BY <1>9, <3>1, <3>3 DEF FmHolds
  <2> QED BY <1>1, <1>6, <2>1, <2>2 DEF OkMeansDone
<1>12. ErrorHonest'
  <2>1. r = "WriteProtect" => PageOf(op.addr) \in wp \/ \E a \in Span(op) : PageOf(a) \in wp
    BY <1>4 DEF FmIInv, FmError, FmHit
  <2> QED BY <1>1, <1>6, <2>1 DEF ErrorHonest
<1>13. PrefixLanded'
  <2> SUFFICES ASSUME op.kind = "program", \A a \in Span(op) : PageOf(a) \notin wp,
                      NEW i \in 1 .. Len(op.data), NEW j \in 1 .. Len(op.data), i < j
               PROVE  flash[op.addr + i - 1] = op.data[i]
    BY <1>1, <1>6 DEF PrefixLanded
  <2>1. j - 1 < FmBegun
    BY <1>2, <1>8
  <2> QED BY <1>1, <2>1, FmLanded
<1>14. FmDone'
  BY <1>10, <1>11, <1>12, <1>13 DEF FmDone
<1> QED BY <1>1, <1>2, <1>6, <1>7, <1>14, FmIdles DEF FmTypes

\* Power fails: the call is lost with a prefix of its slice written.
LEMMA FmPowerLoss ==
  ASSUME FmIInv, PowerLoss
  PROVE  FmIInv'
<1> DEFINE f == [a \in Cells |-> IF a \in DOMAIN busy THEN busy[a] ELSE flash[a]]
<1>1. /\ flash' \in {flash, f} /\ lk' = "locked" /\ fmcCtl' = {} /\ stat' = {} /\ busy' = Idle
      /\ primask' = FALSE /\ fpc' = "idle" /\ wp' = wp
      /\ op' = IF fpc = "idle" THEN op ELSE Done(op, "Lost")
  BY DEF PowerLoss
<1>2. op \in FmOps /\ FmTypes /\ flash \in [Cells -> Words] /\ Len(op.data) \in Nat /\ op.addr \in Int /\ op.k \in Nat
  BY FmOpTyped DEF FmIInv
<1>3. DOMAIN busy \subseteq Cells /\ busy \in [DOMAIN busy -> Words]
  BY <1>2 DEF FmTypes
<1>4. f \in [Cells -> Words] /\ \A a \in Cells : f[a] = IF a \in DOMAIN busy THEN busy[a] ELSE flash[a]
  BY <1>2, <1>3
<1> HIDE DEF f
<1>5. CASE fpc = "idle"
  <2>1. DOMAIN busy = {}
    BY <1>2, <1>5, FmIdleDom DEF FmIInv, FmControl
  <2>2. flash' = flash
    BY <1>1, <1>2, <1>4, <2>1
  <2>3. op' = op
    BY <1>1, <1>5
  <2>4. FmTypes' /\ FmControl'
    BY <1>1, <1>2, <2>2, <2>3 DEF FmTypes, FmControl, FmLate, Idle
  <2>5. FmCall' /\ FmProgram' /\ FmErase'
    BY <1>1 DEF FmCall, FmProgram, FmErase
  <2>6. FmError'
    BY <1>1, <2>3 DEF FmIInv, FmError, FmHit, Span
  <2>7. FmDone'
    BY <1>1, <1>5, <2>2, <2>3 DEF FmIInv, FmDone, RefusalJustified, OkMeansDone, ErrorHonest, PrefixLanded, Refuses, Closed, Span
  <2> QED BY <2>4, <2>5, <2>6, <2>7 DEF FmIInv
<1>6. CASE fpc # "idle"
  <2>1. "Lost" \in Results \ {"ProgramError"}
    BY DEF Results
  <2>2. /\ op' \in FmOps /\ op'.kind = op.kind /\ op'.addr = op.addr /\ op'.data = op.data /\ op'.res = "Lost"
        /\ op'.worst = {} /\ Span(op') = Span(op)
    BY <1>1, <1>2, <1>6, <2>1, FmDoneRecord
  <2>3. RefusalJustified' /\ OkMeansDone' /\ ErrorHonest'
    BY <2>2 DEF RefusalJustified, OkMeansDone, ErrorHonest
  <2>4. PrefixLanded'
    <3> SUFFICES ASSUME op.kind = "program", \A a \in Span(op) : PageOf(a) \notin wp,
                        NEW i \in 1 .. Len(op.data), NEW j \in 1 .. Len(op.data), i < j,
                        flash'[op.addr + j - 1] # ERASED
                 PROVE  flash'[op.addr + i - 1] = op.data[i]
      BY <1>1, <2>2 DEF PrefixLanded
    <3>1. op.addr \in Cells /\ op.addr + Len(op.data) <= FlashEnd
      BY <1>6 DEF FmIInv, FmCall
    <3>2. op.addr + i - 1 \in Cells /\ op.addr + j - 1 \in Cells
      BY <1>2, <3>1, FmConsts DEF Cells
    <3>3. j - 1 < FmBegun
      <4>1. SUFFICES ASSUME ~(j - 1 < FmBegun) PROVE FALSE
        OBVIOUS
      <4>2. op.addr + j - 1 \notin DOMAIN busy /\ flash[op.addr + j - 1] = ERASED
        BY <1>6, <4>1, FmNotBegun
      <4> QED BY <1>1, <1>4, <3>2, <4>2
    <3>4. op.addr + i - 1 \notin DOMAIN busy /\ flash[op.addr + i - 1] = op.data[i]
      BY <1>6, <3>3, FmLanded
    <3> QED BY <1>1, <1>4, <3>2, <3>4
  <2>5. FmDone'
    BY <2>3, <2>4 DEF FmDone
  <2>6. flash' \in [Cells -> Words]
    BY <1>1, <1>2, <1>4
  <2> QED BY <1>1, <2>2, <2>5, <2>6, FmIdles
<1> QED BY <1>5, <1>6

\* A call past its checks enters the critical section.
LEMMA FmEnters ==
  ASSUME FmIInv, fpc = "idle", NEW o \in FmOps, Enter(o), UNCHANGED <<flash, wp, lk, fmcCtl, stat, busy, primask>>,
         o.k = 0, o.worst = {}, o.res = "Ok", o.kind \in {"erase", "program"}, o.addr \in Cells,
         o.kind = "program" =>
           /\ Len(o.data) > 0 /\ o.addr + Len(o.data) <= FlashEnd
           /\ \A i \in 0 .. Len(o.data) - 1 : flash[o.addr + i] = ERASED
           /\ LET last == o.addr + Len(o.data) - 1 IN
              last % 2 = 1 /\ SamePage(last, last + 1) => flash[last + 1] = ERASED
  PROVE  FmIInv'
<1>1. op' = [o EXCEPT !.mask = primask] /\ fpc' = "mask" /\ primask \in BOOLEAN
  BY DEF Enter, FmIInv, FmTypes
<1>2. /\ op' \in FmOps /\ op'.kind = o.kind /\ op'.addr = o.addr /\ op'.data = o.data /\ op'.k = 0
      /\ op'.worst = {} /\ op'.res = "Ok"
  BY <1>1 DEF FmOps
<1>3. busy = Idle /\ lk \in {"locked", "open"} /\ stat \in SUBSET {"ENDF"} /\ DOMAIN busy = {}
  BY FmStatNow, FmIdleDom DEF FmIInv, FmControl
<1>4. FmTypes'
  BY <1>1, <1>2 DEF FmIInv, FmTypes, FmOps, FmEarly
<1>5. FmControl'
  BY <1>1, <1>3 DEF FmControl, FmLate
<1>6. FmCall'
  BY <1>1, <1>2 DEF FmCall, FmLate
<1>7. FmBegun' = 0
  BY <1>1, <1>2 DEF FmBegun
<1>8. FmProgram'
  <2>1. ASSUME o.kind = "program", NEW i \in 0 .. Len(o.data) - 1
        PROVE  flash[o.addr + i] = ERASED /\ ~(i < 0)
    BY <2>1
  <2> QED BY <1>2, <1>3, <1>7, <2>1 DEF FmProgram
<1>9. FmErase' /\ FmDone'
  BY <1>1 DEF FmErase, FmDone, FmEarly
<1>10. FmError'
  BY <1>2, <1>3 DEF FmError
<1> QED BY <1>4, <1>5, <1>6, <1>8, <1>9, <1>10 DEF FmIInv
\* A call that is answered at once.
LEMMA FmAnswers ==
  ASSUME FmIInv, fpc = "idle", NEW o \in FmOps, NEW r \in Results \ {"ProgramError", "WriteProtect"},
         Answer(o, r), UNCHANGED <<flash, wp, lk, fmcCtl, stat, busy, primask>>,
         r = "Ok" => o.kind = "program" /\ Len(o.data) = 0,
         r \in {"NotErased", "Closed"} => \E a \in Span(o) : Refuses(a),
         r \notin {"Timeout", "Lost"}
  PROVE  FmIInv'
<1>1. op' = Done(o, r) /\ fpc' = "idle"
  BY DEF Answer
<1>2. r \in Results \ {"ProgramError"}
  OBVIOUS
<1>3. /\ op' \in FmOps /\ op'.kind = o.kind /\ op'.addr = o.addr /\ op'.data = o.data /\ op'.res = r
      /\ op'.worst = {} /\ Span(op') = Span(o)
  BY <1>1, <1>2, FmDoneRecord
<1>4. \A a : Refuses(a)' <=> Refuses(a)
  BY DEF Refuses, Closed
<1>5. RefusalJustified'
  BY <1>3, <1>4 DEF RefusalJustified
<1>6. OkMeansDone' /\ ErrorHonest'
  BY <1>3 DEF OkMeansDone, ErrorHonest
<1>7. PrefixLanded'
  BY <1>3 DEF PrefixLanded
<1>8. FmDone'
  BY <1>5, <1>6, <1>7 DEF FmDone
<1>9. busy = Idle /\ lk \in {"locked", "open"} /\ stat \in SUBSET {"ENDF"}
  BY FmStatNow DEF FmIInv, FmControl
<1> QED BY <1>1, <1>3, <1>8, <1>9, FmIdles DEF FmIInv, FmTypes

\* A call that begins has its arguments and nothing else.
LEMMA FmNewCall ==
  ASSUME NEW kind \in {"erase", "program"}, NEW a \in CallAddrs \cup {0}, NEW d \in Payloads \cup {<<>>}
  PROVE  LET o == [NoOp EXCEPT !.kind = kind, !.addr = a, !.data = d] IN
         /\ o \in FmOps /\ o.kind = kind /\ o.addr = a /\ o.data = d
         /\ o.k = 0 /\ o.worst = {} /\ o.res = "Ok"
<1>1. NoOp \in FmOps /\ NoOp.worst = {} /\ NoOp.k = 0 /\ NoOp.res = "Ok"
  <2>1. 0 \in 0 .. BusyTimeout /\ "Ok" \in Results \ {"ProgramError"}
    BY FmcAssumption DEF Results
  <2> QED BY <2>1 DEF NoOp, FmOps
<1> QED BY <1>1 DEF FmOps

\* A call of erase_page, entered or refused, keeps the invariant.
LEMMA FmErasePage ==
  ASSUME FmIInv, NEW a \in CallAddrs \cup {0}, NEW aligned \in BOOLEAN, ErasePage(a, aligned)
  PROVE  FmIInv'
<1> DEFINE o == [NoOp EXCEPT !.kind = "erase", !.addr = a]
<1>1. NoOp.data = << >>
  BY DEF NoOp
<1>2. /\ o \in FmOps /\ o.kind = "erase" /\ o.addr = a
      /\ o.k = 0 /\ o.worst = {} /\ o.res = "Ok"
  <2>1. NoOp \in FmOps /\ NoOp.worst = {} /\ NoOp.k = 0 /\ NoOp.res = "Ok"
    <3>1. 0 \in 0 .. BusyTimeout /\ "Ok" \in Results \ {"ProgramError"}
      BY FmcAssumption DEF Results
    <3> QED BY <3>1 DEF NoOp, FmOps
  <2> QED BY <2>1 DEF FmOps
<1>3. /\ fpc = "idle" /\ UNCHANGED <<flash, wp, lk, fmcCtl, stat, busy, primask>>
      /\ \/ Answer(o, "BadArg")
         \/ InFlash(a, PageCells) /\ Enter(o)
  BY DEF ErasePage, Fetch
<1> HIDE DEF o
<1>4. CASE Answer(o, "BadArg")
  <2>1. "BadArg" \in Results \ {"ProgramError", "WriteProtect"}
    BY DEF Results
  <2> QED BY <1>2, <1>3, <1>4, <2>1, FmAnswers
<1>5. CASE InFlash(a, PageCells) /\ Enter(o)
  <2>1. a \in Int
    <3>1. CallAddrs \subseteq Int /\ 0 \in Int
      BY FmcAssumption
    <3> QED BY <3>1
  <2>2. a \in Cells
    BY <1>5, <2>1, FmConsts DEF InFlash, Cells
  <2> QED BY <1>2, <1>3, <1>5, <2>2, FmEnters
<1> QED BY <1>3, <1>4, <1>5

\* A call of program, entered or refused, keeps the invariant.
LEMMA FmProgramCall ==
  ASSUME FmIInv, NEW a \in CallAddrs \cup {0}, NEW d \in Payloads, NEW aligned \in BOOLEAN, Program(a, d, aligned)
  PROVE  FmIInv'
<1> DEFINE o == [NoOp EXCEPT !.kind = "program", !.addr = a, !.data = d]
           L == Len(d)
           last == a + L - 1
<1>1. /\ o \in FmOps /\ o.kind = "program" /\ o.addr = a /\ o.data = d
      /\ o.k = 0 /\ o.worst = {} /\ o.res = "Ok"
  BY FmNewCall
<1>2. fpc = "idle" /\ UNCHANGED <<flash, wp, lk, fmcCtl, stat, busy, primask>>
  BY DEF Program, Fetch
<1>3. \/ d = << >> /\ Answer(o, "Ok")
      \/ Answer(o, "BadArg")
      \/ d # << >> /\ InFlash(a, L) /\ PreCheck(a, L) = "Ok" /\ Enter(o)
      \/ d # << >> /\ InFlash(a, L) /\ PreCheck(a, L) # "Ok" /\ Answer(o, PreCheck(a, L))
  BY DEF Program
<1>4. a \in Int /\ L \in Nat /\ (d # << >> => L > 0)
  <2>1. CallAddrs \subseteq Int /\ 0 \in Int
    BY FmcAssumption
  <2>2. d \in Seq(Words)
    BY FmcAssumption
  <2> QED BY <2>1, <2>2
<1>5. Span(o) = {a + i : i \in 0 .. L - 1}
  BY <1>1 DEF Span
<1> HIDE DEF o
<1>6. CASE d = << >> /\ Answer(o, "Ok")
  <2>1. "Ok" \in Results \ {"ProgramError", "WriteProtect"}
    BY DEF Results
  <2> QED BY <1>1, <1>2, <1>6, <2>1, FmAnswers
<1>7. CASE Answer(o, "BadArg")
  <2>1. "BadArg" \in Results \ {"ProgramError", "WriteProtect"}
    BY DEF Results
  <2> QED BY <1>1, <1>2, <1>7, <2>1, FmAnswers
<1>8. ASSUME d # << >>, InFlash(a, L)
      PROVE  a \in Cells /\ last \in Cells /\ a + L <= FlashEnd /\ last \in Span(o)
  <2>1. a \in Cells /\ last \in Cells /\ a + L <= FlashEnd
    BY <1>4, <1>8, FmConsts DEF InFlash, Cells
  <2>2. L - 1 \in 0 .. L - 1 /\ last = a + (L - 1)
    BY <1>4, <1>8
  <2> QED BY <1>5, <2>1, <2>2
<1>9. CASE d # << >> /\ InFlash(a, L) /\ PreCheck(a, L) = "Ok" /\ Enter(o)
  <2>1. \A i \in 0 .. L - 1 : flash[a + i] = ERASED
    BY <1>9 DEF PreCheck
  <2>2. last % 2 = 1 /\ SamePage(last, last + 1) => flash[last + 1] = ERASED
    BY <1>9 DEF PreCheck
  <2> QED BY <1>1, <1>2, <1>4, <1>8, <1>9, <2>1, <2>2, FmEnters
<1>10. CASE d # << >> /\ InFlash(a, L) /\ PreCheck(a, L) # "Ok" /\ Answer(o, PreCheck(a, L))
  <2>1. PreCheck(a, L) \in {"NotErased", "Closed"}
    BY <1>10 DEF PreCheck
  <2>2. PreCheck(a, L) \in Results \ {"ProgramError", "WriteProtect"}
    BY <2>1 DEF Results
  <2>3. \E c \in Span(o) : Refuses(c)
    <3>1. CASE \E i \in 0 .. L - 1 : flash[a + i] # ERASED
      BY <1>5, <3>1 DEF Refuses
    <3>2. CASE last % 2 = 1 /\ SamePage(last, last + 1) /\ flash[last + 1] # ERASED
      BY <1>8, <1>10, <3>2, FmLastPage DEF Refuses, Closed
    <3> QED BY <1>10, <3>1, <3>2 DEF PreCheck
  <2> QED BY <1>1, <1>2, <1>10, <2>1, <2>2, <2>3, FmAnswers
<1> QED BY <1>3, <1>6, <1>7, <1>9, <1>10
---------------------------------------------------------------------------
\* The invariant holds at power-on.
LEMMA FmInitIInv == FmcInit => FmIInv
<1> SUFFICES ASSUME FmcInit PROVE FmIInv
  OBVIOUS
<1>1. /\ flash \in [Cells -> Words] /\ wp \in SUBSET (0 .. FlashPages - 1)
      /\ lk = "locked" /\ fmcCtl = {} /\ stat = {} /\ busy = Idle /\ primask \in BOOLEAN
      /\ op = NoOp /\ fpc = "idle"
  BY FmcAssumption DEF FmcInit
<1>2. op \in FmOps /\ op.worst = {} /\ op.kind = "none" /\ op.res = "Ok"
  <2>1. 0 \in 0 .. BusyTimeout /\ "Ok" \in Results \ {"ProgramError"}
    BY FmcAssumption DEF Results
  <2> QED BY <1>1, <2>1 DEF NoOp, FmOps
<1>3. DOMAIN busy = {} /\ busy \in [{} -> Words]
  BY <1>1 DEF Idle
<1>4. FmTypes
  BY <1>1, <1>2, <1>3 DEF FmTypes, FmOps
<1>5. FmControl /\ FmCall /\ FmProgram /\ FmErase /\ FmError
  BY <1>1, <1>2 DEF FmControl, FmCall, FmProgram, FmErase, FmError, FmLate
<1>6. FmDone
  BY <1>2 DEF FmDone, RefusalJustified, OkMeansDone, ErrorHonest, PrefixLanded
<1> QED BY <1>4, <1>5, <1>6 DEF FmIInv

\* Every step keeps the invariant.
LEMMA FmNextIInv == FmIInv /\ [FmcNext]_FmcVars => FmIInv'
<1> SUFFICES ASSUME FmIInv, [FmcNext]_FmcVars PROVE FmIInv'
  OBVIOUS
<1>1. ASSUME NEW a \in CallAddrs, ErasePage(a, TRUE) PROVE FmIInv'
  BY <1>1, FmErasePage
<1>2. ASSUME NEW a \in CallAddrs, NEW d \in Payloads, Program(a, d, TRUE) PROVE FmIInv'
  BY <1>2, FmProgramCall
<1>3. CASE ErasePage(0, FALSE)
  BY <1>3, FmErasePage
<1>4. ASSUME NEW d \in Payloads, Program(0, d, FALSE) PROVE FmIInv'
  BY <1>4, FmProgramCall
<1>5. CASE FmcStep
  BY <1>5, FmMask, FmUnlock, FmWriteKey, FmMode, FmStart, FmStore, FmPollBusy, FmPollEnd, FmEndUnmask, FmReturns
     DEF FmcStep
<1>6. CASE FmcFinish
  BY <1>6, FmFinish
<1>7. CASE PowerLoss
  BY <1>7, FmPowerLoss
<1>8. CASE UNCHANGED FmcVars
  <2>1. UNCHANGED <<flash, wp, lk, fmcCtl, stat, busy, primask, op, fpc>>
    BY <1>8 DEF FmcVars
  <2>2. FmTypes' /\ FmControl' /\ FmCall'
    BY <2>1 DEF FmIInv, FmTypes, FmControl, FmCall
  <2>3. FmProgram' /\ FmErase'
    BY <2>1 DEF FmIInv, FmProgram, FmErase, FmBegun, FmHolds
  <2>4. FmError'
    BY <2>1 DEF FmIInv, FmError, FmHit, Span
  <2>5. FmDone'
    BY <2>1 DEF FmIInv, FmDone, RefusalJustified, OkMeansDone, ErrorHonest, PrefixLanded, Refuses, Closed, Span
  <2> QED BY <2>2, <2>3, <2>4, <2>5 DEF FmIInv
<1> QED BY <1>1, <1>2, <1>3, <1>4, <1>5, <1>6, <1>7, <1>8 DEF FmcNext

\* The invariant implies FmcSafe.
LEMMA FmIInvSafe == FmIInv => FmcSafe
<1> SUFFICES ASSUME FmIInv PROVE FmcSafe
  OBVIOUS
<1>1. op \in FmOps /\ FmTypes /\ flash \in [Cells -> Words] /\ Len(op.data) \in Nat /\ op.addr \in Int /\ op.k \in Nat
  BY FmOpTyped DEF FmIInv
<1>2. FmcTypeOK
  <2>1. stat \subseteq FmcFlags /\ op \in [kind : {"none", "erase", "program"}, addr : CallAddrs \cup {0},
          data : Payloads \cup {<<>>}, k : Nat, left : 0 .. BusyTimeout,
          worst : SUBSET (FmcFlags \cup {"TIMEOUT"}), mask : BOOLEAN, res : Results]
    BY <1>1 DEF FmTypes, FmcFlags, FmOps
  <2> QED BY <1>1, <2>1 DEF FmcTypeOK, FmTypes, FmEarly, FmLate
<1>3. NoPgerr
  BY <1>1 DEF NoPgerr, FmTypes, FmOps
<1>4. RefusalJustified /\ OkMeansDone /\ ErrorHonest
  BY DEF FmIInv, FmDone, RefusalJustified, OkMeansDone, ErrorHonest
<1>5. PrefixLanded
  <2>1. CASE fpc = "idle"
    BY <2>1 DEF FmIInv, FmDone
  <2>2. CASE fpc # "idle"
    <3> SUFFICES ASSUME op.kind = "program", \A a \in Span(op) : PageOf(a) \notin wp,
                        NEW i \in 1 .. Len(op.data), NEW j \in 1 .. Len(op.data), i < j,
                        flash[op.addr + j - 1] # ERASED
                 PROVE  flash[op.addr + i - 1] = op.data[i]
      BY DEF PrefixLanded
    <3>1. j - 1 < FmBegun
      BY <2>2, FmNotBegun
    <3> QED BY <2>2, <3>1, FmLanded
  <2> QED BY <2>1, <2>2
<1>6. FetchSafe
  <2> SUFFICES ASSUME busy # Idle, ~primask
               PROVE  fpc = "return" /\ "TIMEOUT" \in op.worst
    BY DEF FetchSafe
  <2>1. fpc = "return"
    BY DEF FmIInv, FmControl, FmEarly
  <2> QED BY <2>1 DEF FmIInv, FmControl, FmLate
<1> QED BY <1>2, <1>3, <1>4, <1>5, <1>6 DEF FmcSafe

\* For every flash and every payload: the controller's driver keeps FmcSafe
\* (flash.rs), power lost at any step included.
THEOREM FlashSafety == FmcSpec => []FmcSafe
BY FmInitIInv, FmNextIInv, FmIInvSafe, PTL DEF FmcSpec

---------------------------------------------------------------------------
(* The ports (Ports).                                                     *)

\* The shapes of the state.
PtHas(layout, u) == layout = "F10xSeparate" \/ u # "Usart2"
PtHeldSet == [whole : 0..1, tx : 0..1, rx : 0..1]
PtSources == {"rbneie", "idleie", "denr", "errie", "dent"}
PtSlotSet == [installed : BOOLEAN, ring : PtRings \cup {PtNone}]
PtRcvSet == [usart : Usarts, kind : {"buffered", "ring"}, ring : PtRings \cup {PtNone}]
PtTypes ==
  /\ ptLayout \in {"F1x0Grouped", "F10xSeparate"}
  /\ ptClaimed \in SUBSET Usarts /\ \A u \in ptClaimed : PtHas(ptLayout, u)
  /\ ptHeld \in [Usarts -> PtHeldSet]
  /\ ptRcv \in SUBSET PtRcvSet /\ ptSnd \in SUBSET Usarts
  /\ ptReg \in [Usarts -> SUBSET PtSources]
  /\ ptSlot \in [Usarts -> PtSlotSet]
  /\ ptCtx \in [Usarts -> [rx : 0..6, tx : 0..6]]
  /\ ptChan \in [1..6 -> [usart : Usarts \cup {"none"}, way : {"rx", "tx", "none"}]]
  /\ ptTaken \in SUBSET PtRings /\ ptOn \in SUBSET (0..47)

\* In whose hands the directions of a USART are.
PtHandInv ==
  \A u \in Usarts :
    /\ ptHeld[u].whole + ptHeld[u].tx <= 1 /\ ptHeld[u].whole + ptHeld[u].rx <= 1
    /\ u \in ptSnd => ptHeld[u].whole = 0 /\ ptHeld[u].tx = 0
    /\ \A r \in ptRcv : r.usart = u => ptHeld[u].whole = 0 /\ ptHeld[u].rx = 0
    /\ u \notin ptClaimed => /\ ptHeld[u].whole = 0 /\ ptHeld[u].tx = 0 /\ ptHeld[u].rx = 0
                             /\ u \notin ptSnd /\ \A r \in ptRcv : r.usart # u

\* What a receiver of a kind may have enabled.
PtMay(kind) == IF kind = "ring" THEN {"denr", "idleie", "errie", "dent"} ELSE {"rbneie", "idleie", "dent"}

\* A live receiver, its slot, its ring and its channel; no receiver, no source.
PtRcvInv ==
  /\ \A r, s \in ptRcv : r.usart = s.usart => r = s
  /\ \A r \in ptRcv :
       /\ ptSlot[r.usart] = [installed |-> TRUE, ring |-> r.ring]
       /\ ptReg[r.usart] \subseteq PtMay(r.kind)
       /\ r.kind = "ring" => /\ r.ring = PtNone
                             /\ ptChan[RxChan(ptLayout, r.usart)] = [usart |-> r.usart, way |-> "rx"]
                             /\ DmaIrqs(ptLayout, r.usart).rx \in ptOn
       /\ r.kind = "buffered" => r.ring \in ptTaken
  /\ \A r, s \in ptRcv : r.kind = "buffered" /\ s.kind = "buffered" /\ r.ring = s.ring => r = s
  /\ \A u \in Usarts : ptSlot[u].installed => \E r \in ptRcv : r.usart = u
  /\ \A u \in Usarts : ~ptSlot[u].installed => ptReg[u] \subseteq {"dent"}

\* A running channel and an installed context are those of the driver that has them.
PtRuns(c) ==
  /\ ptChan[c].usart \in Usarts
  /\ \/ /\ ptChan[c].way = "rx" /\ c = RxChan(ptLayout, ptChan[c].usart)
        /\ [usart |-> ptChan[c].usart, kind |-> "ring", ring |-> PtNone] \in ptRcv
     \/ /\ ptChan[c].way = "tx" /\ c = TxChan(ptLayout, ptChan[c].usart)
        /\ ptChan[c].usart \in ptSnd
PtChanInv ==
  /\ \A c \in 1..6 : ptChan[c] = PtStopped \/ PtRuns(c)
  /\ \A u \in Usarts :
       /\ ptCtx[u].rx \in {0, RxChan(ptLayout, u)}
       /\ ptCtx[u].rx # 0 => u \in ptClaimed
       /\ u \in ptSnd => /\ ptCtx[u].tx = TxChan(ptLayout, u) /\ "dent" \in ptReg[u]
                         /\ DmaIrqs(ptLayout, u).tx \in ptOn
       /\ u \notin ptSnd => ptCtx[u].tx = 0

PtIInv == PtTypes /\ PtHandInv /\ PtRcvInv /\ PtChanInv
---------------------------------------------------------------------------
\* The tables: the channels of two existing ports are apart, and the port's own
\* vectors are those its channels raise.
LEMMA PtTables ==
  ASSUME PtTypes, NEW u \in Usarts, PtHas(ptLayout, u)
  PROVE  /\ RxChan(ptLayout, u) \in 1..6 /\ TxChan(ptLayout, u) \in 1..6
         /\ RxChan(ptLayout, u) # TxChan(ptLayout, u)
         /\ VectorOf(ptLayout, RxChan(ptLayout, u)) = DmaIrqs(ptLayout, u).rx
         /\ VectorOf(ptLayout, TxChan(ptLayout, u)) = DmaIrqs(ptLayout, u).tx
         /\ DmaIrqs(ptLayout, u).rx \in 0..47 /\ DmaIrqs(ptLayout, u).tx \in 0..47
         /\ UsartIrq(ptLayout, u) \in 0..47
<1>1. ptLayout \in {"F1x0Grouped", "F10xSeparate"} /\ u \in {"Usart0", "Usart1", "Usart2"}
  BY DEF PtTypes, Usarts
<1>2. CASE ptLayout = "F1x0Grouped" /\ u = "Usart0"
  BY <1>2 DEF RxChan, TxChan, VectorOf, DmaIrqs, UsartIrq
<1>3. CASE ptLayout = "F1x0Grouped" /\ u = "Usart1"
  BY <1>3 DEF RxChan, TxChan, VectorOf, DmaIrqs, UsartIrq
<1>4. CASE ptLayout = "F10xSeparate" /\ u = "Usart0"
  BY <1>4 DEF RxChan, TxChan, VectorOf, DmaIrqs, UsartIrq
<1>5. CASE ptLayout = "F10xSeparate" /\ u = "Usart1"
  BY <1>5 DEF RxChan, TxChan, VectorOf, DmaIrqs, UsartIrq
<1>6. CASE ptLayout = "F10xSeparate" /\ u = "Usart2"
  BY <1>6 DEF RxChan, TxChan, VectorOf, DmaIrqs, UsartIrq
<1> QED BY <1>1, <1>2, <1>3, <1>4, <1>5, <1>6 DEF PtHas

LEMMA PtApart ==
  ASSUME PtTypes, NEW u \in Usarts, NEW v \in Usarts, PtHas(ptLayout, u), PtHas(ptLayout, v), u # v
  PROVE  /\ RxChan(ptLayout, u) # RxChan(ptLayout, v) /\ TxChan(ptLayout, u) # TxChan(ptLayout, v)
         /\ RxChan(ptLayout, u) # TxChan(ptLayout, v)
<1>1. ptLayout \in {"F1x0Grouped", "F10xSeparate"} /\ u \in {"Usart0", "Usart1", "Usart2"}
      /\ v \in {"Usart0", "Usart1", "Usart2"}
  BY DEF PtTypes, Usarts
<1>2. CASE ptLayout = "F1x0Grouped"
  BY <1>1, <1>2 DEF RxChan, TxChan, PtHas
<1>3. CASE ptLayout = "F10xSeparate"
  BY <1>1, <1>3 DEF RxChan, TxChan
<1> QED BY <1>1, <1>2, <1>3

\* A receiver is of a port that exists, and a transmitter too.
LEMMA PtLive ==
  ASSUME PtIInv
  PROVE  /\ \A r \in ptRcv : r.usart \in ptClaimed /\ r.usart \in Usarts
         /\ \A u \in ptSnd : u \in ptClaimed /\ u \in Usarts
         /\ \A u \in Usarts : ptHeld[u].whole + ptHeld[u].tx + ptHeld[u].rx > 0 => u \in ptClaimed
         /\ \A u \in ptClaimed : PtHas(ptLayout, u)
<1>1. ptRcv \subseteq PtRcvSet /\ ptSnd \subseteq Usarts /\ \A u \in ptClaimed : PtHas(ptLayout, u)
  BY DEF PtIInv, PtTypes
<1>2. \A r \in ptRcv : r.usart \in Usarts
  BY <1>1 DEF PtRcvSet
<1> QED BY <1>1, <1>2 DEF PtIInv, PtHandInv

\* Two ports' channels are apart.
LEMMA PtOthers ==
  ASSUME PtIInv, NEW u \in ptClaimed, NEW v \in ptClaimed, u # v
  PROVE  /\ RxChan(ptLayout, u) # RxChan(ptLayout, v) /\ TxChan(ptLayout, u) # TxChan(ptLayout, v)
         /\ RxChan(ptLayout, u) # TxChan(ptLayout, v)
<1>1. u \in Usarts /\ v \in Usarts /\ PtTypes
  BY DEF PtIInv, PtTypes
<1> QED BY <1>1, PtLive, PtApart

\* The channel of a port that has no driver on it does not run.
LEMMA PtRests ==
  ASSUME PtIInv, NEW u \in Usarts, PtHas(ptLayout, u)
  PROVE  /\ (\A r \in ptRcv : r.usart # u) => ptChan[RxChan(ptLayout, u)] = PtStopped
         /\ u \notin ptSnd => ptChan[TxChan(ptLayout, u)] = PtStopped
<1>1. /\ RxChan(ptLayout, u) \in 1..6 /\ TxChan(ptLayout, u) \in 1..6 /\ RxChan(ptLayout, u) # TxChan(ptLayout, u)
      /\ PtTypes
  BY PtTables DEF PtIInv
<1>2. \A c \in 1..6 : PtRuns(c) => /\ PtHas(ptLayout, ptChan[c].usart)
                                   /\ ptChan[c].usart \in Usarts
  <2>1. \A c \in 1..6 : PtRuns(c) => ptChan[c].usart \in ptClaimed
    BY PtLive DEF PtRuns
  <2> QED BY <2>1, PtLive DEF PtRuns
<1>3. \A v \in Usarts : PtHas(ptLayout, v) /\ v # u =>
        /\ RxChan(ptLayout, u) # RxChan(ptLayout, v) /\ TxChan(ptLayout, u) # TxChan(ptLayout, v)
        /\ RxChan(ptLayout, u) # TxChan(ptLayout, v) /\ TxChan(ptLayout, u) # RxChan(ptLayout, v)
  BY <1>1, PtApart
<1>4. \A c \in 1..6 : ptChan[c] = PtStopped \/ PtRuns(c)
  BY DEF PtIInv, PtChanInv
<1>5. ASSUME \A r \in ptRcv : r.usart # u, PtRuns(RxChan(ptLayout, u)) PROVE FALSE
  BY <1>1, <1>2, <1>3, <1>5 DEF PtRuns
<1>6. ASSUME u \notin ptSnd, PtRuns(TxChan(ptLayout, u)) PROVE FALSE
  BY <1>1, <1>2, <1>3, <1>6 DEF PtRuns
<1> QED BY <1>1, <1>4, <1>5, <1>6
---------------------------------------------------------------------------
(* The calls.                                                              *)

\* A bring-up of a USART keeps the invariant.
LEMMA PtNewKeeps ==
  ASSUME PtIInv, NEW u \in Usarts, NEW mapped \in Usarts \cup {"none"}, PtUsartNew(u, mapped)
  PROVE  PtIInv'
<1>1. /\ UNCHANGED <<ptLayout, ptRcv, ptSnd, ptReg, ptSlot, ptCtx, ptChan, ptTaken, ptOn>>
      /\ \/ UNCHANGED <<ptClaimed, ptHeld>>
         \/ /\ PtHas(ptLayout, u) /\ u \notin ptClaimed
            /\ ptClaimed' = ptClaimed \cup {u} /\ ptHeld' = [ptHeld EXCEPT ![u].whole = @ + 1]
  BY DEF PtUsartNew, Exists, claim_instance, PtHas
<1>2. CASE UNCHANGED <<ptClaimed, ptHeld>>
  BY <1>1, <1>2 DEF PtIInv, PtTypes, PtHandInv, PtRcvInv, PtChanInv, PtRuns
<1>3. CASE ~UNCHANGED <<ptClaimed, ptHeld>>
  <2>1. /\ PtHas(ptLayout, u) /\ u \notin ptClaimed
        /\ ptClaimed' = ptClaimed \cup {u} /\ ptHeld' = [ptHeld EXCEPT ![u].whole = @ + 1]
    BY <1>1, <1>3
  <2>2. /\ ptHeld[u].whole = 0 /\ ptHeld[u].tx = 0 /\ ptHeld[u].rx = 0 /\ u \notin ptSnd
        /\ \A r \in ptRcv : r.usart # u
    BY <2>1 DEF PtIInv, PtHandInv
  <2>3. /\ ptHeld' \in [Usarts -> PtHeldSet] /\ ptHeld'[u].whole = 1 /\ ptHeld'[u].tx = 0 /\ ptHeld'[u].rx = 0
        /\ \A v \in Usarts \ {u} : ptHeld'[v] = ptHeld[v]
    BY <2>1, <2>2 DEF PtIInv, PtTypes, PtHeldSet
  <2>4. PtTypes'
    BY <1>1, <2>1, <2>3 DEF PtIInv, PtTypes, PtHas
  <2>5. PtHandInv'
    BY <1>1, <2>1, <2>2, <2>3 DEF PtIInv, PtHandInv
  <2>6. PtRcvInv' /\ PtChanInv'
    BY <1>1, <2>1 DEF PtIInv, PtRcvInv, PtChanInv, PtRuns
  <2> QED BY <2>4, <2>5, <2>6 DEF PtIInv
<1> QED BY <1>2, <1>3

\* A change of hands that touches nothing else keeps what is about the hardware.
LEMMA PtHandsOnly ==
  ASSUME PtIInv, UNCHANGED <<ptLayout, ptClaimed, ptRcv, ptSnd, ptReg, ptSlot, ptCtx, ptChan, ptTaken, ptOn>>,
         ptHeld' \in [Usarts -> PtHeldSet], PtHandInv'
  PROVE  PtIInv'
<1>1. PtTypes'
  BY DEF PtIInv, PtTypes
<1>2. PtRcvInv' /\ PtChanInv'
  BY DEF PtIInv, PtRcvInv, PtChanInv, PtRuns
<1> QED BY <1>1, <1>2 DEF PtIInv

\* A split keeps the invariant.
LEMMA PtSplitKeeps ==
  ASSUME PtIInv, NEW u \in Usarts, split(u)
  PROVE  PtIInv'
<1>1. /\ UNCHANGED <<ptLayout, ptClaimed, ptRcv, ptSnd, ptReg, ptSlot, ptCtx, ptChan, ptTaken, ptOn>>
      /\ ptHeld[u].whole > 0
      /\ ptHeld' = [ptHeld EXCEPT ![u] = [whole |-> @.whole - 1, tx |-> @.tx + 1, rx |-> @.rx + 1]]
  BY DEF split
<1>2. ptHeld[u].whole = 1 /\ ptHeld[u].tx = 0 /\ ptHeld[u].rx = 0 /\ ptHeld \in [Usarts -> PtHeldSet]
      /\ u \notin ptSnd /\ (\A r \in ptRcv : r.usart # u) /\ u \in ptClaimed
  BY <1>1 DEF PtIInv, PtHandInv, PtTypes, PtHeldSet
<1>3. /\ ptHeld' \in [Usarts -> PtHeldSet] /\ ptHeld'[u].whole = 0 /\ ptHeld'[u].tx = 1 /\ ptHeld'[u].rx = 1
      /\ \A v \in Usarts \ {u} : ptHeld'[v] = ptHeld[v]
  BY <1>1, <1>2 DEF PtHeldSet
<1>4. PtHandInv'
  BY <1>1, <1>2, <1>3 DEF PtIInv, PtHandInv
<1> QED BY <1>1, <1>3, <1>4, PtHandsOnly

\* A rejoin, of two halves that belong together or not, keeps the invariant.
LEMMA PtRejoinKeeps ==
  ASSUME PtIInv, NEW t \in Usarts, NEW r \in Usarts, rejoin(t, r)
  PROVE  PtIInv'
<1>1. /\ UNCHANGED <<ptLayout, ptClaimed, ptRcv, ptSnd, ptReg, ptSlot, ptCtx, ptChan, ptTaken, ptOn>>
      /\ ptHeld[t].tx > 0 /\ ptHeld[r].rx > 0
      /\ t = r => ptHeld' = [ptHeld EXCEPT ![t] = [whole |-> @.whole + 1, tx |-> @.tx - 1, rx |-> @.rx - 1]]
      /\ t # r => ptHeld' = [ptHeld EXCEPT ![t].tx = @ - 1, ![r].rx = @ - 1]
  BY DEF rejoin
<1>2. ptHeld \in [Usarts -> PtHeldSet]
      /\ ptHeld[t].tx = 1 /\ ptHeld[t].whole = 0 /\ t \notin ptSnd /\ t \in ptClaimed
      /\ ptHeld[r].rx = 1 /\ ptHeld[r].whole = 0 /\ (\A q \in ptRcv : q.usart # r) /\ r \in ptClaimed
  BY <1>1 DEF PtIInv, PtHandInv, PtTypes, PtHeldSet
<1>3. CASE t = r
  <2>1. /\ ptHeld' \in [Usarts -> PtHeldSet] /\ ptHeld'[t].whole = 1 /\ ptHeld'[t].tx = 0 /\ ptHeld'[t].rx = 0
        /\ \A v \in Usarts \ {t} : ptHeld'[v] = ptHeld[v]
    BY <1>1, <1>2, <1>3 DEF PtHeldSet
  <2>2. PtHandInv'
    BY <1>1, <1>2, <1>3, <2>1 DEF PtIInv, PtHandInv
  <2> QED BY <1>1, <2>1, <2>2, PtHandsOnly
<1>4. CASE t # r
  <2>1. /\ ptHeld' \in [Usarts -> PtHeldSet]
        /\ ptHeld'[t].whole = 0 /\ ptHeld'[t].tx = 0 /\ ptHeld'[t].rx = ptHeld[t].rx
        /\ ptHeld'[r].whole = 0 /\ ptHeld'[r].rx = 0 /\ ptHeld'[r].tx = ptHeld[r].tx
        /\ \A v \in Usarts \ {t, r} : ptHeld'[v] = ptHeld[v]
    BY <1>1, <1>2, <1>4 DEF PtHeldSet
  <2>2. \A v \in Usarts : /\ ptHeld[v].whole \in 0..1 /\ ptHeld[v].tx \in 0..1 /\ ptHeld[v].rx \in 0..1
    BY <1>2 DEF PtHeldSet
  <2>3. PtHandInv'
    BY <1>1, <1>2, <1>4, <2>1, <2>2 DEF PtIInv, PtHandInv
  <2> QED BY <1>1, <2>1, <2>3, PtHandsOnly
<1> QED BY <1>3, <1>4

\* A half given up to a constructor, refused or not.
LEMMA PtRxGiven ==
  ASSUME PtIInv, NEW u \in Usarts, ptHeld[u].rx > 0, ptHeld' = [ptHeld EXCEPT ![u].rx = @ - 1]
  PROVE  /\ ptHeld' \in [Usarts -> PtHeldSet]
         /\ ptHeld'[u].whole = 0 /\ ptHeld'[u].tx = ptHeld[u].tx /\ ptHeld'[u].rx = 0
         /\ \A v \in Usarts \ {u} : ptHeld'[v] = ptHeld[v]
         /\ u \in ptClaimed /\ PtHas(ptLayout, u) /\ \A r \in ptRcv : r.usart # u
         /\ ~ptSlot[u].installed /\ ptReg[u] \subseteq {"dent"}
         /\ ptHeld[u].tx \in 0..1 /\ ptHeld[u].whole = 0
<1>1. ptHeld \in [Usarts -> PtHeldSet] /\ ptHeld[u].rx = 1 /\ ptHeld[u].whole = 0
      /\ (\A r \in ptRcv : r.usart # u) /\ u \in ptClaimed
  BY DEF PtIInv, PtHandInv, PtTypes, PtHeldSet
<1>2. ~ptSlot[u].installed
  BY <1>1 DEF PtIInv, PtRcvInv, PtTypes, PtSlotSet
<1>3. ptReg[u] \subseteq {"dent"}
  BY <1>2 DEF PtIInv, PtRcvInv
<1> QED BY <1>1, <1>2, <1>3, PtLive DEF PtHeldSet

\* A constructor that refuses keeps the invariant.
LEMMA PtRefused ==
  ASSUME PtIInv, NEW u \in Usarts, ptHeld[u].rx > 0, ptHeld' = [ptHeld EXCEPT ![u].rx = @ - 1],
         UNCHANGED <<ptLayout, ptClaimed, ptRcv, ptSnd, ptReg, ptSlot, ptCtx, ptChan, ptTaken, ptOn>>
  PROVE  PtIInv'
<1>1. /\ ptHeld' \in [Usarts -> PtHeldSet]
      /\ ptHeld'[u].whole = 0 /\ ptHeld'[u].tx = ptHeld[u].tx /\ ptHeld'[u].rx = 0
      /\ \A v \in Usarts \ {u} : ptHeld'[v] = ptHeld[v]
      /\ ptHeld[u].tx \in 0..1 /\ ptHeld[u].whole = 0
      /\ u \in ptClaimed /\ \A r \in ptRcv : r.usart # u
  BY PtRxGiven
<1>2. PtHandInv'
  BY <1>1 DEF PtIInv, PtHandInv
<1> QED BY <1>1, <1>2, PtHandsOnly

\* A buffered receiver's construction keeps the invariant.
LEMMA PtBufferedNewKeeps ==
  ASSUME PtIInv, NEW u \in Usarts, NEW ring \in PtRings, BufferedNew(u, ring)
  PROVE  PtIInv'
<1> DEFINE n == [usart |-> u, kind |-> "buffered", ring |-> ring]
<1>1. /\ UNCHANGED <<ptLayout, ptClaimed, ptSnd, ptCtx, ptChan>>
      /\ ptHeld[u].rx > 0 /\ ptHeld' = [ptHeld EXCEPT ![u].rx = @ - 1]
      /\ ptTaken' = ptTaken \cup {ring}
  BY DEF BufferedNew
<1>2. CASE ring \in ptTaken
  <2>1. UNCHANGED <<ptRcv, ptReg, ptSlot, ptOn, ptTaken>>
    BY <1>1, <1>2 DEF BufferedNew, RingFree
  <2> QED BY <1>1, <2>1, PtRefused
<1>3. CASE ring \notin ptTaken
  <2>1. /\ ptRcv' = ptRcv \cup {n}
        /\ ptSlot' = [ptSlot EXCEPT ![u] = [installed |-> TRUE, ring |-> ring]]
        /\ ptReg' = [ptReg EXCEPT ![u] = @ \cup {"rbneie", "idleie"}]
        /\ ptOn' = ptOn \cup {UsartIrq(ptLayout, u)}
    BY <1>3 DEF BufferedNew, RingFree
  <2>2. /\ ptHeld' \in [Usarts -> PtHeldSet]
        /\ ptHeld'[u].whole = 0 /\ ptHeld'[u].tx = ptHeld[u].tx /\ ptHeld'[u].rx = 0
        /\ \A v \in Usarts \ {u} : ptHeld'[v] = ptHeld[v]
        /\ u \in ptClaimed /\ PtHas(ptLayout, u) /\ \A r \in ptRcv : r.usart # u
        /\ ptReg[u] \subseteq {"dent"} /\ ptHeld[u].tx \in 0..1
    BY <1>1, PtRxGiven
  <2>3. n \in PtRcvSet /\ n.usart = u /\ n.kind = "buffered" /\ n.ring = ring
    BY DEF PtRcvSet
  <2>4. /\ ptSlot' \in [Usarts -> PtSlotSet] /\ ptSlot'[u] = [installed |-> TRUE, ring |-> ring]
        /\ \A v \in Usarts \ {u} : ptSlot'[v] = ptSlot[v]
    BY <2>1 DEF PtIInv, PtTypes, PtSlotSet
  <2>5. /\ ptReg' \in [Usarts -> SUBSET PtSources] /\ ptReg'[u] = ptReg[u] \cup {"rbneie", "idleie"}
        /\ \A v \in Usarts \ {u} : ptReg'[v] = ptReg[v]
    BY <2>1 DEF PtIInv, PtTypes, PtSources
  <2>6. UsartIrq(ptLayout, u) \in 0..47
    BY <2>2, PtTables DEF PtIInv
  <2> HIDE DEF n
  <2>7. PtTypes'
    <3>1. ptRcv' \in SUBSET PtRcvSet /\ ptOn' \in SUBSET (0..47) /\ ptTaken' \in SUBSET PtRings
      BY <1>1, <2>1, <2>3, <2>6 DEF PtIInv, PtTypes
    <3> QED BY <1>1, <2>2, <2>4, <2>5, <3>1 DEF PtIInv, PtTypes
  <2>8. PtHandInv'
    BY <1>1, <2>1, <2>2, <2>3 DEF PtIInv, PtHandInv
  <2>9. PtRcvInv'
    <3>1. \A r \in ptRcv : r \in PtRcvSet /\ r.usart \in Usarts /\ r.usart # u
      BY <2>2 DEF PtIInv, PtTypes, PtRcvSet
    <3>2. \A r, q \in ptRcv' : r.usart = q.usart => r = q
      BY <2>1, <2>3, <3>1 DEF PtIInv, PtRcvInv
    <3>3. \A r \in ptRcv' : ptSlot'[r.usart] = [installed |-> TRUE, ring |-> r.ring]
      BY <2>1, <2>3, <2>4, <3>1 DEF PtIInv, PtRcvInv
    <3>4. \A r \in ptRcv' : ptReg'[r.usart] \subseteq PtMay(r.kind)
      <4>1. ptReg'[u] \subseteq PtMay("buffered")
        BY <2>2, <2>5 DEF PtMay
      <4> QED BY <2>1, <2>3, <2>5, <3>1, <4>1 DEF PtIInv, PtRcvInv
    <3>5. \A r \in ptRcv' :
             /\ r.kind = "ring" => /\ r.ring = PtNone
                                   /\ ptChan'[RxChan(ptLayout', r.usart)] = [usart |-> r.usart, way |-> "rx"]
                                   /\ DmaIrqs(ptLayout', r.usart).rx \in ptOn'
             /\ r.kind = "buffered" => r.ring \in ptTaken'
      BY <1>1, <2>1, <2>3, <3>1 DEF PtIInv, PtRcvInv
    <3>6. \A r, q \in ptRcv' : r.kind = "buffered" /\ q.kind = "buffered" /\ r.ring = q.ring => r = q
      <4>1. \A r \in ptRcv : r.kind = "buffered" => r.ring # ring
        <5>1. \A r \in ptRcv : r.kind = "buffered" => r.ring \in ptTaken
          BY DEF PtIInv, PtRcvInv
        <5> QED BY <1>3, <5>1
      <4>2. \A r, q \in ptRcv : r.kind = "buffered" /\ q.kind = "buffered" /\ r.ring = q.ring => r = q
        BY DEF PtIInv, PtRcvInv
      <4> QED BY <2>1, <2>3, <4>1, <4>2
    <3>7. \A v \in Usarts : ptSlot'[v].installed => \E r \in ptRcv' : r.usart = v
      BY <2>1, <2>3, <2>4 DEF PtIInv, PtRcvInv
    <3>8. \A v \in Usarts : ~ptSlot'[v].installed => ptReg'[v] \subseteq {"dent"}
      BY <2>4, <2>5 DEF PtIInv, PtRcvInv
    <3> QED BY <3>2, <3>3, <3>4, <3>5, <3>6, <3>7, <3>8 DEF PtRcvInv
  <2>10. PtChanInv'
    <3>1. \A v \in ptSnd : "dent" \in ptReg'[v]
      BY <2>5 DEF PtIInv, PtChanInv, PtTypes
    <3> QED BY <1>1, <2>1, <3>1 DEF PtIInv, PtChanInv, PtRuns
  <2> QED BY <2>7, <2>8, <2>9, <2>10 DEF PtIInv
<1> QED BY <1>2, <1>3

\* What is left when a receiver is released.
LEMMA PtRxBack ==
  ASSUME PtIInv, NEW r \in ptRcv, ptHeld' = [ptHeld EXCEPT ![r.usart].rx = @ + 1]
  PROVE  /\ r \in PtRcvSet /\ r.usart \in Usarts /\ r.usart \in ptClaimed /\ PtHas(ptLayout, r.usart)
         /\ ptHeld' \in [Usarts -> PtHeldSet]
         /\ ptHeld'[r.usart].whole = 0 /\ ptHeld'[r.usart].tx = ptHeld[r.usart].tx /\ ptHeld'[r.usart].rx = 1
         /\ ptHeld[r.usart].tx \in 0..1
         /\ \A v \in Usarts \ {r.usart} : ptHeld'[v] = ptHeld[v]
         /\ \A q \in ptRcv \ {r} : q.usart # r.usart /\ q.usart \in Usarts /\ q \in PtRcvSet
<1>1. r \in PtRcvSet /\ ptHeld \in [Usarts -> PtHeldSet] /\ \A q \in ptRcv : q \in PtRcvSet
  BY DEF PtIInv, PtTypes
<1>2. r.usart \in Usarts /\ \A q \in ptRcv : q.usart \in Usarts
  BY <1>1 DEF PtRcvSet
<1>3. ptHeld[r.usart].whole = 0 /\ ptHeld[r.usart].rx = 0
  BY <1>2 DEF PtIInv, PtHandInv
<1>4. /\ ptHeld' \in [Usarts -> PtHeldSet]
      /\ ptHeld'[r.usart].whole = 0 /\ ptHeld'[r.usart].tx = ptHeld[r.usart].tx /\ ptHeld'[r.usart].rx = 1
      /\ ptHeld[r.usart].tx \in 0..1
      /\ \A v \in Usarts \ {r.usart} : ptHeld'[v] = ptHeld[v]
  <2> DEFINE u == r.usart
  <2>1. u \in Usarts /\ ptHeld[u].whole = 0 /\ ptHeld[u].rx = 0 /\ ptHeld' = [ptHeld EXCEPT ![u].rx = @ + 1]
    BY <1>2, <1>3
  <2> HIDE DEF u
  <2>2. /\ ptHeld' \in [Usarts -> PtHeldSet]
        /\ ptHeld'[u].whole = 0 /\ ptHeld'[u].tx = ptHeld[u].tx /\ ptHeld'[u].rx = 1
        /\ ptHeld[u].tx \in 0..1
        /\ \A v \in Usarts \ {u} : ptHeld'[v] = ptHeld[v]
    BY <1>1, <2>1 DEF PtHeldSet
  <2> QED BY <2>2 DEF u
<1>5. \A q \in ptRcv \ {r} : q.usart # r.usart
  BY DEF PtIInv, PtRcvInv
<1> QED BY <1>1, <1>2, <1>4, <1>5, PtLive

\* The release of a buffered receiver keeps the invariant.
LEMMA PtBufferedReleaseKeeps ==
  ASSUME PtIInv, NEW r \in ptRcv, BufferedRelease(r)
  PROVE  PtIInv'
<1> DEFINE u == r.usart
<1>1. /\ r.kind = "buffered"
      /\ ptReg' = [ptReg EXCEPT ![u] = @ \ BufferedSources]
      /\ ptSlot' = [ptSlot EXCEPT ![u].installed = FALSE]
      /\ ptTaken' = ptTaken \ {r.ring} /\ ptRcv' = ptRcv \ {r}
      /\ ptHeld' = [ptHeld EXCEPT ![u].rx = @ + 1]
      /\ UNCHANGED <<ptLayout, ptClaimed, ptSnd, ptCtx, ptChan, ptOn>>
  BY DEF BufferedRelease
<1>2. /\ u \in Usarts /\ u \in ptClaimed
      /\ ptHeld' \in [Usarts -> PtHeldSet]
      /\ ptHeld'[u].whole = 0 /\ ptHeld'[u].tx = ptHeld[u].tx /\ ptHeld'[u].rx = 1
      /\ ptHeld[u].tx \in 0..1
      /\ \A v \in Usarts \ {u} : ptHeld'[v] = ptHeld[v]
      /\ \A q \in ptRcv \ {r} : q.usart # u /\ q.usart \in Usarts /\ q \in PtRcvSet
  BY <1>1, PtRxBack
<1>3. ptReg[u] \subseteq {"rbneie", "idleie", "dent"} /\ r.ring \in ptTaken
  BY <1>1 DEF PtIInv, PtRcvInv, PtMay
<1> HIDE DEF u
<1>4. /\ ptReg' \in [Usarts -> SUBSET PtSources] /\ ptReg'[u] \subseteq {"dent"}
      /\ ("dent" \in ptReg[u] => "dent" \in ptReg'[u])
      /\ \A v \in Usarts \ {u} : ptReg'[v] = ptReg[v]
  BY <1>1, <1>2, <1>3 DEF PtIInv, PtTypes, PtSources, BufferedSources
<1>5. /\ ptSlot' \in [Usarts -> PtSlotSet] /\ ~ptSlot'[u].installed
      /\ \A v \in Usarts \ {u} : ptSlot'[v] = ptSlot[v]
  <2>1. ptSlot \in [Usarts -> PtSlotSet] /\ ptSlot[u] \in PtSlotSet
    BY <1>2 DEF PtIInv, PtTypes
  <2>2. /\ [ptSlot[u] EXCEPT !.installed = FALSE] \in PtSlotSet
        /\ [ptSlot[u] EXCEPT !.installed = FALSE].installed = FALSE
    BY <2>1 DEF PtSlotSet
  <2>3. ptSlot' = [ptSlot EXCEPT ![u] = [ptSlot[u] EXCEPT !.installed = FALSE]]
    BY <1>1
  <2> QED BY <1>2, <2>1, <2>2, <2>3
<1>6. PtTypes'
  BY <1>1, <1>2, <1>4, <1>5 DEF PtIInv, PtTypes
<1>7. PtHandInv'
  <2>1. \A q \in ptRcv : q = r \/ q.usart # u
    BY <1>2
  <2>2. u \notin ptSnd \/ ptHeld[u].tx = 0
    BY <1>2 DEF PtIInv, PtHandInv
  <2> QED BY <1>1, <1>2, <2>1, <2>2 DEF PtIInv, PtHandInv
<1>8. PtRcvInv'
  <2>1. \A q \in ptRcv' : q \in ptRcv /\ q # r /\ q.usart # u /\ q.usart \in Usarts
    BY <1>1, <1>2
  <2>2. \A q \in ptRcv' : q.kind = "buffered" => q.ring # r.ring
    BY <1>1, <2>1 DEF PtIInv, PtRcvInv
  <2>3. \A v \in Usarts : ptSlot'[v].installed => \E q \in ptRcv' : q.usart = v
    <3>1. \A v \in Usarts \ {u} : ptSlot[v].installed => \E q \in ptRcv : q.usart = v
      BY DEF PtIInv, PtRcvInv
    <3>2. r.usart = u
      BY DEF u
    <3> QED BY <1>1, <1>5, <3>1, <3>2
  <2>4. \A v \in Usarts : ~ptSlot'[v].installed => ptReg'[v] \subseteq {"dent"}
    BY <1>4, <1>5 DEF PtIInv, PtRcvInv
  <2>5. \A q \in ptRcv' :
             /\ ptSlot'[q.usart] = [installed |-> TRUE, ring |-> q.ring]
             /\ ptReg'[q.usart] \subseteq PtMay(q.kind)
    BY <1>4, <1>5, <2>1 DEF PtIInv, PtRcvInv
  <2>6. \A q \in ptRcv' :
             /\ q.kind = "ring" => /\ q.ring = PtNone
                                   /\ ptChan'[RxChan(ptLayout', q.usart)] = [usart |-> q.usart, way |-> "rx"]
                                   /\ DmaIrqs(ptLayout', q.usart).rx \in ptOn'
             /\ q.kind = "buffered" => q.ring \in ptTaken'
    BY <1>1, <2>1, <2>2 DEF PtIInv, PtRcvInv
  <2> QED BY <2>1, <2>3, <2>4, <2>5, <2>6 DEF PtIInv, PtRcvInv
<1>9. PtChanInv'
  <2>1. \A v \in ptSnd : "dent" \in ptReg'[v]
    BY <1>4 DEF PtIInv, PtChanInv, PtTypes
  <2>2. \A q \in ptRcv : q.kind = "ring" => q \in ptRcv'
    BY <1>1
  <2>3. \A v : [usart |-> v, kind |-> "ring", ring |-> PtNone].kind = "ring"
    OBVIOUS
  <2> QED BY <1>1, <2>1, <2>2, <2>3 DEF PtIInv, PtChanInv, PtRuns
<1> QED BY <1>6, <1>7, <1>8, <1>9 DEF PtIInv

\* A stopped channel stopped again is the same.
LEMMA PtStill ==
  ASSUME PtIInv, NEW c \in 1..6, ptChan[c] = PtStopped
  PROVE  [ptChan EXCEPT ![c] = PtStopped] = ptChan
BY DEF PtIInv, PtTypes

\* A ring receiver's construction keeps the invariant.
LEMMA PtRingNewKeeps ==
  ASSUME PtIInv, NEW u \in Usarts, NEW fits \in BOOLEAN, NEW answers \in BOOLEAN, RingNew(u, fits, answers)
  PROVE  PtIInv'
<1> DEFINE c == RxChan(ptLayout, u)
           n == [usart |-> u, kind |-> "ring", ring |-> PtNone]
           w == [usart |-> u, way |-> "rx"]
<1>1. /\ UNCHANGED <<ptLayout, ptClaimed, ptSnd, ptTaken>>
      /\ ptHeld[u].rx > 0 /\ ptHeld' = [ptHeld EXCEPT ![u].rx = @ - 1]
      /\ ptChan' = IF ~fits THEN ptChan ELSE [ptChan EXCEPT ![c] = IF answers THEN w ELSE PtStopped]
  BY DEF RingNew
<1>2. /\ ptHeld' \in [Usarts -> PtHeldSet]
      /\ ptHeld'[u].whole = 0 /\ ptHeld'[u].tx = ptHeld[u].tx /\ ptHeld'[u].rx = 0
      /\ \A v \in Usarts \ {u} : ptHeld'[v] = ptHeld[v]
      /\ u \in ptClaimed /\ PtHas(ptLayout, u) /\ \A r \in ptRcv : r.usart # u
      /\ ptReg[u] \subseteq {"dent"} /\ ptHeld[u].tx \in 0..1
  BY <1>1, PtRxGiven
<1>3. /\ c \in 1..6 /\ c # TxChan(ptLayout, u) /\ ptChan[c] = PtStopped
      /\ DmaIrqs(ptLayout, u).rx \in 0..47 /\ UsartIrq(ptLayout, u) \in 0..47
  BY <1>2, PtTables, PtRests DEF PtIInv
<1>4. CASE ~(fits /\ answers)
  <2>1. UNCHANGED <<ptRcv, ptReg, ptSlot, ptCtx, ptOn>>
    BY <1>4 DEF RingNew
  <2>2. ptChan' = ptChan
    BY <1>1, <1>3, <1>4, PtStill
  <2> QED BY <1>1, <2>1, <2>2, PtRefused
<1>5. CASE fits /\ answers
  <2>1. /\ ptRcv' = ptRcv \cup {n}
        /\ ptReg' = [ptReg EXCEPT ![u] = @ \cup {"denr", "idleie", "errie"}]
        /\ ptSlot' = [ptSlot EXCEPT ![u] = [installed |-> TRUE, ring |-> PtNone]]
        /\ ptCtx' = [ptCtx EXCEPT ![u].rx = c]
        /\ ptOn' = ptOn \cup {DmaIrqs(ptLayout, u).rx, UsartIrq(ptLayout, u)}
        /\ ptChan' = [ptChan EXCEPT ![c] = w]
    BY <1>1, <1>5 DEF RingNew
  <2>2. n \in PtRcvSet /\ n.usart = u /\ n.kind = "ring" /\ n.ring = PtNone
    BY DEF PtRcvSet
  <2>3. w \in [usart : Usarts \cup {"none"}, way : {"rx", "tx", "none"}] /\ w.usart = u /\ w.way = "rx"
    OBVIOUS
  <2>4. /\ ptSlot' \in [Usarts -> PtSlotSet] /\ ptSlot'[u] = [installed |-> TRUE, ring |-> PtNone]
        /\ \A v \in Usarts \ {u} : ptSlot'[v] = ptSlot[v]
    BY <2>1 DEF PtIInv, PtTypes, PtSlotSet
  <2>5. /\ ptReg' \in [Usarts -> SUBSET PtSources] /\ ptReg'[u] = ptReg[u] \cup {"denr", "idleie", "errie"}
        /\ \A v \in Usarts \ {u} : ptReg'[v] = ptReg[v]
    BY <2>1 DEF PtIInv, PtTypes, PtSources
  <2>6. n = [usart |-> u, kind |-> "ring", ring |-> PtNone] /\ c = RxChan(ptLayout, u)
        /\ w = [usart |-> u, way |-> "rx"]
    OBVIOUS
  <2> HIDE DEF n, w, c
  <2>7. /\ ptCtx' \in [Usarts -> [rx : 0..6, tx : 0..6]] /\ ptCtx'[u].rx = c /\ ptCtx'[u].tx = ptCtx[u].tx
        /\ \A v \in Usarts \ {u} : ptCtx'[v] = ptCtx[v]
    BY <1>3, <2>1 DEF PtIInv, PtTypes
  <2>8. /\ ptChan' \in [1..6 -> [usart : Usarts \cup {"none"}, way : {"rx", "tx", "none"}]] /\ ptChan'[c] = w
        /\ \A d \in 1..6 : d # c => ptChan'[d] = ptChan[d]
    BY <1>3, <2>1, <2>3 DEF PtIInv, PtTypes
  <2>9. PtTypes'
    <3>1. ptRcv' \in SUBSET PtRcvSet /\ ptOn' \in SUBSET (0..47)
      BY <1>3, <2>1, <2>2 DEF PtIInv, PtTypes
    <3> QED BY <1>1, <1>2, <2>4, <2>5, <2>7, <2>8, <3>1 DEF PtIInv, PtTypes
  <2>10. PtHandInv'
    BY <1>1, <1>2, <2>1, <2>2 DEF PtIInv, PtHandInv
  <2>11. PtRcvInv'
    <3>1. \A r \in ptRcv : r \in PtRcvSet /\ r.usart \in Usarts /\ r.usart # u /\ RxChan(ptLayout, r.usart) # c
                           /\ RxChan(ptLayout, r.usart) \in 1..6
      <4>1. \A r \in ptRcv : r \in PtRcvSet /\ r.usart \in Usarts /\ r.usart # u /\ r.usart \in ptClaimed
        BY <1>2, PtLive DEF PtIInv, PtTypes
      <4>2. \A v \in ptClaimed : v # u => RxChan(ptLayout, v) # c
        BY <1>2, <2>6, PtOthers
      <4>3. \A v \in Usarts : PtHas(ptLayout, v) => RxChan(ptLayout, v) \in 1..6
        BY PtTables DEF PtIInv
      <4> QED BY <4>1, <4>2, <4>3, PtLive
    <3>2. \A r, q \in ptRcv' : r.usart = q.usart => r = q
      BY <2>1, <2>2, <3>1 DEF PtIInv, PtRcvInv
    <3>3. \A r \in ptRcv' : ptSlot'[r.usart] = [installed |-> TRUE, ring |-> r.ring]
      BY <2>1, <2>2, <2>4, <3>1 DEF PtIInv, PtRcvInv
    <3>4. \A r \in ptRcv' : ptReg'[r.usart] \subseteq PtMay(r.kind)
      <4>1. ptReg'[u] \subseteq PtMay("ring")
        BY <1>2, <2>5 DEF PtMay
      <4> QED BY <2>1, <2>2, <2>5, <3>1, <4>1 DEF PtIInv, PtRcvInv
    <3>5. \A r \in ptRcv' :
             /\ r.kind = "ring" => /\ r.ring = PtNone
                                   /\ ptChan'[RxChan(ptLayout', r.usart)] = [usart |-> r.usart, way |-> "rx"]
                                   /\ DmaIrqs(ptLayout', r.usart).rx \in ptOn'
             /\ r.kind = "buffered" => r.ring \in ptTaken'
      <4>1. ASSUME NEW r \in ptRcv, r.kind = "ring"
            PROVE  /\ r.ring = PtNone
                   /\ ptChan'[RxChan(ptLayout', r.usart)] = [usart |-> r.usart, way |-> "rx"]
                   /\ DmaIrqs(ptLayout', r.usart).rx \in ptOn'
        <5>1. /\ r.ring = PtNone /\ DmaIrqs(ptLayout, r.usart).rx \in ptOn
              /\ ptChan[RxChan(ptLayout, r.usart)] = [usart |-> r.usart, way |-> "rx"]
          BY <4>1 DEF PtIInv, PtRcvInv
        <5>2. ptChan'[RxChan(ptLayout, r.usart)] = ptChan[RxChan(ptLayout, r.usart)]
          BY <2>8, <3>1
        <5> QED BY <1>1, <2>1, <5>1, <5>2
      <4>2. /\ ptChan'[RxChan(ptLayout', u)] = [usart |-> u, way |-> "rx"]
            /\ DmaIrqs(ptLayout', u).rx \in ptOn'
        BY <1>1, <2>1, <2>6, <2>8
      <4>3. \A r \in ptRcv : r.kind = "buffered" => r.ring \in ptTaken'
        BY <1>1 DEF PtIInv, PtRcvInv
      <4>4. n.ring = PtNone /\ n.usart = u /\ n.kind # "buffered"
        BY <2>2
      <4> QED BY <2>1, <4>1, <4>2, <4>3, <4>4
    <3>6. \A r, q \in ptRcv' : r.kind = "buffered" /\ q.kind = "buffered" /\ r.ring = q.ring => r = q
      BY <2>1, <2>2 DEF PtIInv, PtRcvInv
    <3>7. \A v \in Usarts : ptSlot'[v].installed => \E r \in ptRcv' : r.usart = v
      BY <2>1, <2>2, <2>4 DEF PtIInv, PtRcvInv
    <3>8. \A v \in Usarts : ~ptSlot'[v].installed => ptReg'[v] \subseteq {"dent"}
      BY <2>4, <2>5 DEF PtIInv, PtRcvInv
    <3> QED BY <3>2, <3>3, <3>4, <3>5, <3>6, <3>7, <3>8 DEF PtRcvInv
  <2>12. PtChanInv'
    <3>1. \A v \in ptSnd : "dent" \in ptReg'[v]
      BY <2>5 DEF PtIInv, PtChanInv, PtTypes
    <3>2. \A d \in 1..6 : d # c => ptChan'[d] = PtStopped \/ PtRuns(d)'
      BY <1>1, <2>1, <2>8 DEF PtIInv, PtChanInv, PtRuns
    <3>3. ASSUME NEW d \in 1..6, d = c PROVE PtRuns(d)'
      <4>1. ptChan'[d].usart = u /\ ptChan'[d].way = "rx" /\ d = RxChan(ptLayout', u)
        BY <1>1, <2>3, <2>6, <2>8, <3>3
      <4>2. [usart |-> u, kind |-> "ring", ring |-> PtNone] \in ptRcv'
        BY <2>1, <2>6
      <4> QED BY <4>1, <4>2 DEF PtRuns
    <3>4. \A v \in Usarts :
            /\ ptCtx'[v].rx \in {0, RxChan(ptLayout', v)}
            /\ ptCtx'[v].rx # 0 => v \in ptClaimed'
            /\ ptCtx'[v].tx = ptCtx[v].tx
      BY <1>1, <1>2, <2>6, <2>7 DEF PtIInv, PtChanInv
    <3>5. \A v \in Usarts :
            /\ v \in ptSnd => /\ ptCtx[v].tx = TxChan(ptLayout, v) /\ DmaIrqs(ptLayout, v).tx \in ptOn
            /\ v \notin ptSnd => ptCtx[v].tx = 0
      BY DEF PtIInv, PtChanInv
    <3>6. \A d \in 1..6 : ptChan'[d] = PtStopped \/ PtRuns(d)'
      BY <3>2, <3>3
    <3> QED BY <1>1, <2>1, <3>1, <3>4, <3>5, <3>6 DEF PtChanInv
  <2> QED BY <2>9, <2>10, <2>11, <2>12 DEF PtIInv
<1> QED BY <1>4, <1>5

\* The release of a ring receiver keeps the invariant.
LEMMA PtRingReleaseKeeps ==
  ASSUME PtIInv, NEW r \in ptRcv, RingRelease(r)
  PROVE  PtIInv'
<1> DEFINE u == r.usart  c == RxChan(ptLayout, u)
<1>1. /\ r.kind = "ring"
      /\ ptChan' = [ptChan EXCEPT ![c] = PtStopped]
      /\ ptReg' = [ptReg EXCEPT ![u] = @ \ {"denr", "errie", "idleie"}]
      /\ ptSlot' = [ptSlot EXCEPT ![u].installed = FALSE]
      /\ ptRcv' = ptRcv \ {r}
      /\ ptHeld' = [ptHeld EXCEPT ![u].rx = @ + 1]
      /\ UNCHANGED <<ptLayout, ptClaimed, ptSnd, ptCtx, ptTaken, ptOn>>
  BY DEF RingRelease
<1>2. /\ u \in Usarts /\ u \in ptClaimed /\ PtHas(ptLayout, u)
      /\ ptHeld' \in [Usarts -> PtHeldSet]
      /\ ptHeld'[u].whole = 0 /\ ptHeld'[u].tx = ptHeld[u].tx /\ ptHeld'[u].rx = 1
      /\ ptHeld[u].tx \in 0..1
      /\ \A v \in Usarts \ {u} : ptHeld'[v] = ptHeld[v]
      /\ \A q \in ptRcv \ {r} : q.usart # u /\ q.usart \in Usarts /\ q \in PtRcvSet
  BY <1>1, PtRxBack
<1>3. ptReg[u] \subseteq {"denr", "idleie", "errie", "dent"} /\ ptChan[c] = [usart |-> u, way |-> "rx"]
  BY <1>1 DEF PtIInv, PtRcvInv, PtMay
<1>4. c \in 1..6 /\ c # TxChan(ptLayout, u) /\ c = RxChan(ptLayout, u) /\ r.usart = u
  BY <1>2, PtTables DEF PtIInv
<1> HIDE DEF u, c
<1>5. /\ ptReg' \in [Usarts -> SUBSET PtSources] /\ ptReg'[u] \subseteq {"dent"}
      /\ ("dent" \in ptReg[u] => "dent" \in ptReg'[u])
      /\ \A v \in Usarts \ {u} : ptReg'[v] = ptReg[v]
  BY <1>1, <1>2, <1>3 DEF PtIInv, PtTypes, PtSources
<1>6. /\ ptSlot' \in [Usarts -> PtSlotSet] /\ ~ptSlot'[u].installed
      /\ \A v \in Usarts \ {u} : ptSlot'[v] = ptSlot[v]
  <2>1. ptSlot \in [Usarts -> PtSlotSet] /\ ptSlot[u] \in PtSlotSet
    BY <1>2 DEF PtIInv, PtTypes
  <2>2. /\ [ptSlot[u] EXCEPT !.installed = FALSE] \in PtSlotSet
        /\ [ptSlot[u] EXCEPT !.installed = FALSE].installed = FALSE
    BY <2>1 DEF PtSlotSet
  <2>3. ptSlot' = [ptSlot EXCEPT ![u] = [ptSlot[u] EXCEPT !.installed = FALSE]]
    BY <1>1
  <2> QED BY <1>2, <2>1, <2>2, <2>3
<1>7. /\ ptChan' \in [1..6 -> [usart : Usarts \cup {"none"}, way : {"rx", "tx", "none"}]]
      /\ ptChan'[c] = PtStopped /\ \A d \in 1..6 : d # c => ptChan'[d] = ptChan[d]
  <2>1. PtStopped \in [usart : Usarts \cup {"none"}, way : {"rx", "tx", "none"}]
    BY DEF PtStopped
  <2> QED BY <1>1, <1>4, <2>1 DEF PtIInv, PtTypes
<1>8. PtTypes'
  BY <1>1, <1>2, <1>5, <1>6, <1>7 DEF PtIInv, PtTypes
<1>9. PtHandInv'
  <2>1. \A q \in ptRcv : q = r \/ q.usart # u
    BY <1>2
  <2>2. u \notin ptSnd \/ ptHeld[u].tx = 0
    BY <1>2 DEF PtIInv, PtHandInv
  <2> QED BY <1>1, <1>2, <2>1, <2>2 DEF PtIInv, PtHandInv
<1>10. PtRcvInv'
  <2>1. \A q \in ptRcv' : /\ q \in ptRcv /\ q # r /\ q.usart # u /\ q.usart \in Usarts
                          /\ RxChan(ptLayout, q.usart) # c /\ RxChan(ptLayout, q.usart) \in 1..6
    <3>1. \A q \in ptRcv' : q \in ptRcv /\ q # r /\ q.usart # u /\ q.usart \in Usarts /\ q.usart \in ptClaimed
      BY <1>1, <1>2, PtLive
    <3>2. \A v \in ptClaimed : v # u => RxChan(ptLayout, v) # c
      BY <1>2, <1>4, PtOthers
    <3>3. \A v \in Usarts : PtHas(ptLayout, v) => RxChan(ptLayout, v) \in 1..6
      BY PtTables DEF PtIInv
    <3> QED BY <3>1, <3>2, <3>3, PtLive
  <2>3. \A v \in Usarts : ptSlot'[v].installed => \E q \in ptRcv' : q.usart = v
    <3>1. \A v \in Usarts \ {u} : ptSlot[v].installed => \E q \in ptRcv : q.usart = v
      BY DEF PtIInv, PtRcvInv
    <3> QED BY <1>1, <1>4, <1>6, <3>1
  <2>4. \A v \in Usarts : ~ptSlot'[v].installed => ptReg'[v] \subseteq {"dent"}
    BY <1>5, <1>6 DEF PtIInv, PtRcvInv
  <2>5. \A q \in ptRcv' :
             /\ ptSlot'[q.usart] = [installed |-> TRUE, ring |-> q.ring]
             /\ ptReg'[q.usart] \subseteq PtMay(q.kind)
    BY <1>5, <1>6, <2>1 DEF PtIInv, PtRcvInv
  <2>6. \A q \in ptRcv' :
             /\ q.kind = "ring" => /\ q.ring = PtNone
                                   /\ ptChan'[RxChan(ptLayout', q.usart)] = [usart |-> q.usart, way |-> "rx"]
                                   /\ DmaIrqs(ptLayout', q.usart).rx \in ptOn'
             /\ q.kind = "buffered" => q.ring \in ptTaken'
    BY <1>1, <1>7, <2>1 DEF PtIInv, PtRcvInv
  <2> QED BY <2>1, <2>3, <2>4, <2>5, <2>6 DEF PtIInv, PtRcvInv
<1>11. PtChanInv'
  <2>1. \A v \in ptSnd : "dent" \in ptReg'[v]
    BY <1>5 DEF PtIInv, PtChanInv, PtTypes
  <2>2. ASSUME NEW d \in 1..6, d # c, PtRuns(d) PROVE PtRuns(d)'
    <3> DEFINE v == ptChan[d].usart
               m == [usart |-> v, kind |-> "ring", ring |-> PtNone]
    <3>1. ptChan'[d] = ptChan[d] /\ v \in Usarts
      BY <1>7, <2>2 DEF PtRuns
    <3>2. CASE ptChan[d].way = "rx" /\ d = RxChan(ptLayout, v) /\ m \in ptRcv
      <4>1. m.usart = v /\ v # u
        BY <1>4, <2>2, <3>2
      <4>2. m \in ptRcv'
        BY <1>1, <1>4, <3>2, <4>1
      <4> QED BY <1>1, <3>1, <3>2, <4>2 DEF PtRuns
    <3>3. CASE ptChan[d].way = "tx" /\ d = TxChan(ptLayout, v) /\ v \in ptSnd
      BY <1>1, <3>1, <3>3 DEF PtRuns
    <3> QED BY <2>2, <3>2, <3>3 DEF PtRuns
  <2>3. \A d \in 1..6 : ptChan'[d] = PtStopped \/ PtRuns(d)'
    <3>1. \A d \in 1..6 : ptChan[d] = PtStopped \/ PtRuns(d)
      BY DEF PtIInv, PtChanInv
    <3> QED BY <1>7, <2>2, <3>1
  <2> QED BY <1>1, <2>1, <2>3 DEF PtIInv, PtChanInv
<1> QED BY <1>8, <1>9, <1>10, <1>11 DEF PtIInv

\* A transmit half given up to the constructor.
LEMMA PtTxGiven ==
  ASSUME PtIInv, NEW u \in Usarts, ptHeld[u].tx > 0, ptHeld' = [ptHeld EXCEPT ![u].tx = @ - 1]
  PROVE  /\ ptHeld' \in [Usarts -> PtHeldSet]
         /\ ptHeld'[u].whole = 0 /\ ptHeld'[u].rx = ptHeld[u].rx /\ ptHeld'[u].tx = 0
         /\ \A v \in Usarts \ {u} : ptHeld'[v] = ptHeld[v]
         /\ u \in ptClaimed /\ PtHas(ptLayout, u) /\ u \notin ptSnd
         /\ ptHeld[u].rx \in 0..1 /\ ptHeld[u].whole = 0
<1>1. ptHeld \in [Usarts -> PtHeldSet] /\ ptHeld[u].tx = 1 /\ ptHeld[u].whole = 0
      /\ u \notin ptSnd /\ u \in ptClaimed
  BY DEF PtIInv, PtHandInv, PtTypes, PtHeldSet
<1> QED BY <1>1, PtLive DEF PtHeldSet

\* A channel's way round, when one runs or stops and nobody's driver changes.
LEMMA PtChannelOnly ==
  ASSUME PtIInv, NEW u \in ptSnd, NEW w, ptChan' = [ptChan EXCEPT ![TxChan(ptLayout, u)] = w],
         w = PtStopped \/ w = [usart |-> u, way |-> "tx"],
         UNCHANGED <<ptLayout, ptClaimed, ptHeld, ptRcv, ptSnd, ptReg, ptSlot, ptCtx, ptTaken, ptOn>>
  PROVE  PtIInv'
<1> DEFINE c == TxChan(ptLayout, u)
<1>1. u \in Usarts /\ u \in ptClaimed /\ PtHas(ptLayout, u)
  BY PtLive
<1>2. c \in 1..6 /\ c # RxChan(ptLayout, u)
  BY <1>1, PtTables DEF PtIInv
<1>3. w \in [usart : Usarts \cup {"none"}, way : {"rx", "tx", "none"}]
  BY <1>1 DEF PtStopped
<1>4. \A v \in ptClaimed : RxChan(ptLayout, v) # c
  BY <1>1, <1>2, PtOthers
<1>5. c = TxChan(ptLayout, u)
  OBVIOUS
<1> HIDE DEF c
<1>6. /\ ptChan' \in [1..6 -> [usart : Usarts \cup {"none"}, way : {"rx", "tx", "none"}]]
      /\ ptChan'[c] = w /\ \A d \in 1..6 : d # c => ptChan'[d] = ptChan[d]
  BY <1>2, <1>3, <1>5 DEF PtIInv, PtTypes
<1>7. PtTypes' /\ PtHandInv'
  BY <1>6 DEF PtIInv, PtTypes, PtHandInv
<1>8. PtRcvInv'
  <2>1. \A r \in ptRcv : r.usart \in Usarts /\ RxChan(ptLayout, r.usart) \in 1..6 /\ RxChan(ptLayout, r.usart) # c
    <3>1. \A v \in Usarts : PtHas(ptLayout, v) => RxChan(ptLayout, v) \in 1..6
      BY PtTables DEF PtIInv
    <3> QED BY <1>4, <3>1, PtLive
  <2>2. \A r \in ptRcv : ptChan'[RxChan(ptLayout, r.usart)] = ptChan[RxChan(ptLayout, r.usart)]
    BY <1>6, <2>1
  <2> QED BY <2>2 DEF PtIInv, PtRcvInv
<1>9. PtChanInv'
  <2>1. \A d \in 1..6 : ptChan[d] = PtStopped \/ PtRuns(d)
    BY DEF PtIInv, PtChanInv
  <2>2. ASSUME NEW d \in 1..6, d # c PROVE ptChan'[d] = PtStopped \/ PtRuns(d)'
    <3>1. ptChan'[d] = ptChan[d]
      BY <1>6, <2>2
    <3> QED BY <2>1, <3>1 DEF PtRuns
  <2>3. ASSUME NEW d \in 1..6, d = c, w # PtStopped PROVE PtRuns(d)'
    <3>1. ptChan'[d] = [usart |-> u, way |-> "tx"]
      BY <1>6, <2>3
    <3> QED BY <1>1, <1>5, <2>3, <3>1 DEF PtRuns
  <2>4. \A d \in 1..6 : ptChan'[d] = PtStopped \/ PtRuns(d)'
    BY <1>6, <2>2, <2>3
  <2> QED BY <2>4 DEF PtIInv, PtChanInv
<1> QED BY <1>7, <1>8, <1>9 DEF PtIInv

\* A send and the end of a transfer keep the invariant.
LEMMA PtTransferKeeps ==
  ASSUME PtIInv, NEW u \in Usarts, PtSend(u) \/ PtSent(u)
  PROVE  PtIInv'
<1>1. CASE PtSend(u)
  BY <1>1, PtChannelOnly DEF PtSend
<1>2. CASE PtSent(u)
  <2>1. u \in ptSnd /\ ptCtx[u].tx = TxChan(ptLayout, u)
    BY <1>2 DEF PtSent, PtIInv, PtChanInv
  <2> QED BY <1>2, <2>1, PtChannelOnly DEF PtSent
<1> QED BY <1>1, <1>2

\* A transmitter's construction keeps the invariant.
LEMMA PtDmaTxNewKeeps ==
  ASSUME PtIInv, NEW u \in Usarts, NEW fits \in BOOLEAN, NEW answers \in BOOLEAN, DmaTxNew(u, fits, answers)
  PROVE  PtIInv'
<1> DEFINE c == TxChan(ptLayout, u)
<1>1. /\ UNCHANGED <<ptLayout, ptClaimed, ptRcv, ptSlot, ptTaken>>
      /\ ptHeld[u].tx > 0 /\ ptHeld' = [ptHeld EXCEPT ![u].tx = @ - 1]
      /\ ptChan' = IF fits THEN [ptChan EXCEPT ![c] = PtStopped] ELSE ptChan
  BY DEF DmaTxNew
<1>2. /\ ptHeld' \in [Usarts -> PtHeldSet]
      /\ ptHeld'[u].whole = 0 /\ ptHeld'[u].rx = ptHeld[u].rx /\ ptHeld'[u].tx = 0
      /\ \A v \in Usarts \ {u} : ptHeld'[v] = ptHeld[v]
      /\ u \in ptClaimed /\ PtHas(ptLayout, u) /\ u \notin ptSnd
      /\ ptHeld[u].rx \in 0..1 /\ ptHeld[u].whole = 0
  BY <1>1, PtTxGiven
<1>3. c \in 1..6 /\ ptChan[c] = PtStopped /\ DmaIrqs(ptLayout, u).tx \in 0..47
  BY <1>2, PtTables, PtRests DEF PtIInv
<1>4. ptChan' = ptChan
  BY <1>1, <1>3, PtStill
<1>5. c = TxChan(ptLayout, u)
  OBVIOUS
<1> HIDE DEF c
<1>6. CASE ~(fits /\ answers)
  <2>1. UNCHANGED <<ptSnd, ptReg, ptCtx, ptOn>>
    BY <1>6 DEF DmaTxNew
  <2>2. PtHandInv'
    BY <1>1, <1>2, <2>1 DEF PtIInv, PtHandInv
  <2> QED BY <1>1, <1>2, <1>4, <2>1, <2>2, PtHandsOnly
<1>7. CASE fits /\ answers
  <2>1. /\ ptSnd' = ptSnd \cup {u}
        /\ ptReg' = [ptReg EXCEPT ![u] = @ \cup {"dent"}]
        /\ ptCtx' = [ptCtx EXCEPT ![u].tx = c]
        /\ ptOn' = ptOn \cup {DmaIrqs(ptLayout, u).tx}
    BY <1>5, <1>7 DEF DmaTxNew
  <2>2. /\ ptReg' \in [Usarts -> SUBSET PtSources] /\ ptReg'[u] = ptReg[u] \cup {"dent"}
        /\ \A v \in Usarts \ {u} : ptReg'[v] = ptReg[v]
    BY <2>1 DEF PtIInv, PtTypes, PtSources
  <2>3. /\ ptCtx' \in [Usarts -> [rx : 0..6, tx : 0..6]] /\ ptCtx'[u].tx = c /\ ptCtx'[u].rx = ptCtx[u].rx
        /\ \A v \in Usarts \ {u} : ptCtx'[v] = ptCtx[v]
    BY <1>3, <2>1 DEF PtIInv, PtTypes
  <2>4. PtTypes'
    <3>1. ptSnd' \in SUBSET Usarts /\ ptOn' \in SUBSET (0..47)
      BY <1>3, <2>1 DEF PtIInv, PtTypes
    <3> QED BY <1>1, <1>2, <1>4, <2>2, <2>3, <3>1 DEF PtIInv, PtTypes
  <2>5. PtHandInv'
    BY <1>1, <1>2, <2>1 DEF PtIInv, PtHandInv
  <2>6. PtRcvInv'
    <3>1. \A v \in Usarts : ptReg'[v] \subseteq ptReg[v] \cup {"dent"}
      BY <2>2
    <3>2. \A r \in ptRcv : r.usart \in Usarts
      BY PtLive
    <3>3. \A k : "dent" \in PtMay(k)
      BY DEF PtMay
    <3>4. \A r \in ptRcv : ptReg'[r.usart] \subseteq PtMay(r.kind)
      <4>1. \A r \in ptRcv : ptReg[r.usart] \subseteq PtMay(r.kind)
        BY DEF PtIInv, PtRcvInv
      <4> QED BY <3>1, <3>2, <3>3, <4>1
    <3>5. \A v \in Usarts : ~ptSlot'[v].installed => ptReg'[v] \subseteq {"dent"}
      BY <1>1, <3>1 DEF PtIInv, PtRcvInv
    <3>6. \A r \in ptRcv : r.kind = "ring" => DmaIrqs(ptLayout', r.usart).rx \in ptOn'
      BY <1>1, <2>1 DEF PtIInv, PtRcvInv
    <3> QED BY <1>1, <1>4, <3>4, <3>5, <3>6 DEF PtIInv, PtRcvInv
  <2>7. PtChanInv'
    <3>1. \A d \in 1..6 : ptChan'[d] = PtStopped \/ PtRuns(d)'
      BY <1>1, <1>4, <2>1 DEF PtIInv, PtChanInv, PtRuns
    <3>2. ASSUME NEW v \in Usarts, v # u
          PROVE  /\ ptCtx'[v].rx \in {0, RxChan(ptLayout', v)}
                 /\ ptCtx'[v].rx # 0 => v \in ptClaimed'
                 /\ v \in ptSnd' => /\ ptCtx'[v].tx = TxChan(ptLayout', v) /\ "dent" \in ptReg'[v]
                                    /\ DmaIrqs(ptLayout', v).tx \in ptOn'
                 /\ v \notin ptSnd' => ptCtx'[v].tx = 0
      BY <1>1, <2>1, <2>2, <2>3, <3>2 DEF PtIInv, PtChanInv
    <3>3. /\ ptCtx'[u].rx \in {0, RxChan(ptLayout', u)} /\ u \in ptClaimed' /\ u \in ptSnd'
          /\ ptCtx'[u].tx = TxChan(ptLayout', u) /\ "dent" \in ptReg'[u] /\ DmaIrqs(ptLayout', u).tx \in ptOn'
      BY <1>1, <1>2, <1>5, <2>1, <2>2, <2>3 DEF PtIInv, PtChanInv
    <3> QED BY <3>1, <3>2, <3>3 DEF PtChanInv
  <2> QED BY <2>4, <2>5, <2>6, <2>7 DEF PtIInv
<1> QED BY <1>6, <1>7

\* The release of a transmitter keeps the invariant.
LEMMA PtDmaTxReleaseKeeps ==
  ASSUME PtIInv, NEW u \in Usarts, DmaTxRelease(u)
  PROVE  PtIInv'
<1> DEFINE c == TxChan(ptLayout, u)
<1>1. /\ u \in ptSnd
      /\ ptChan' = [ptChan EXCEPT ![c] = PtStopped]
      /\ ptReg' = [ptReg EXCEPT ![u] = @ \ {"dent"}]
      /\ ptCtx' = [ptCtx EXCEPT ![u].tx = 0]
      /\ ptSnd' = ptSnd \ {u}
      /\ ptHeld' = [ptHeld EXCEPT ![u].tx = @ + 1]
      /\ UNCHANGED <<ptLayout, ptClaimed, ptRcv, ptSlot, ptTaken, ptOn>>
  BY DEF DmaTxRelease
<1>2. /\ u \in ptClaimed /\ PtHas(ptLayout, u) /\ ptHeld \in [Usarts -> PtHeldSet]
      /\ ptHeld[u].whole = 0 /\ ptHeld[u].tx = 0 /\ ptHeld[u].rx \in 0..1
  BY <1>1, PtLive DEF PtIInv, PtHandInv, PtTypes, PtHeldSet
<1>3. /\ ptHeld' \in [Usarts -> PtHeldSet]
      /\ ptHeld'[u].whole = 0 /\ ptHeld'[u].rx = ptHeld[u].rx /\ ptHeld'[u].tx = 1
      /\ \A v \in Usarts \ {u} : ptHeld'[v] = ptHeld[v]
  BY <1>1, <1>2 DEF PtHeldSet
<1>4. c \in 1..6 /\ c = TxChan(ptLayout, u)
  BY <1>2, PtTables DEF PtIInv
<1>5. \A v \in ptClaimed : RxChan(ptLayout, v) # c /\ (v # u => TxChan(ptLayout, v) # c)
  <2>1. RxChan(ptLayout, u) # c
    BY <1>2, PtTables DEF PtIInv
  <2> QED BY <1>2, <2>1, PtOthers
<1> HIDE DEF c
<1>6. /\ ptReg' \in [Usarts -> SUBSET PtSources] /\ ptReg'[u] \subseteq ptReg[u]
      /\ \A v \in Usarts \ {u} : ptReg'[v] = ptReg[v]
  BY <1>1 DEF PtIInv, PtTypes, PtSources
<1>7. /\ ptCtx' \in [Usarts -> [rx : 0..6, tx : 0..6]] /\ ptCtx'[u].tx = 0 /\ ptCtx'[u].rx = ptCtx[u].rx
      /\ \A v \in Usarts \ {u} : ptCtx'[v] = ptCtx[v]
  BY <1>1 DEF PtIInv, PtTypes
<1>8. /\ ptChan' \in [1..6 -> [usart : Usarts \cup {"none"}, way : {"rx", "tx", "none"}]]
      /\ ptChan'[c] = PtStopped /\ \A d \in 1..6 : d # c => ptChan'[d] = ptChan[d]
  <2>1. PtStopped \in [usart : Usarts \cup {"none"}, way : {"rx", "tx", "none"}]
    BY DEF PtStopped
  <2> QED BY <1>1, <1>4, <2>1 DEF PtIInv, PtTypes
<1>9. PtTypes'
  <2>1. ptSnd' \in SUBSET Usarts
    BY <1>1 DEF PtIInv, PtTypes
  <2> QED BY <1>1, <1>3, <1>6, <1>7, <1>8, <2>1 DEF PtIInv, PtTypes
<1>10. PtHandInv'
  BY <1>1, <1>2, <1>3 DEF PtIInv, PtHandInv
<1>11. PtRcvInv'
  <2>1. \A r \in ptRcv : r.usart \in Usarts /\ RxChan(ptLayout, r.usart) \in 1..6 /\ RxChan(ptLayout, r.usart) # c
    <3>1. \A v \in Usarts : PtHas(ptLayout, v) => RxChan(ptLayout, v) \in 1..6
      BY PtTables DEF PtIInv
    <3> QED BY <1>5, <3>1, PtLive
  <2>2. \A r \in ptRcv : ptChan'[RxChan(ptLayout, r.usart)] = ptChan[RxChan(ptLayout, r.usart)]
    BY <1>8, <2>1
  <2>3. \A v \in Usarts : ptReg'[v] \subseteq ptReg[v]
    BY <1>6
  <2>4. \A r \in ptRcv : ptReg'[r.usart] \subseteq PtMay(r.kind)
    BY <2>1, <2>3 DEF PtIInv, PtRcvInv
  <2>5. \A v \in Usarts : ~ptSlot'[v].installed => ptReg'[v] \subseteq {"dent"}
    BY <1>1, <2>3 DEF PtIInv, PtRcvInv
  <2> QED BY <1>1, <2>2, <2>4, <2>5 DEF PtIInv, PtRcvInv
<1>12. PtChanInv'
  <2>1. \A d \in 1..6 : ptChan[d] = PtStopped \/ PtRuns(d)
    BY DEF PtIInv, PtChanInv
  <2>2. ASSUME NEW d \in 1..6, d # c, PtRuns(d) PROVE PtRuns(d)'
    <3>1. ptChan'[d] = ptChan[d] /\ ptChan[d].usart \in Usarts
      BY <1>8, <2>2 DEF PtRuns
    <3>2. CASE ptChan[d].way = "tx" /\ d = TxChan(ptLayout, ptChan[d].usart) /\ ptChan[d].usart \in ptSnd
      <4>1. ptChan[d].usart # u
        BY <1>4, <2>2, <3>2
      <4> QED BY <1>1, <3>1, <3>2, <4>1 DEF PtRuns
    <3>3. CASE ptChan[d].way = "rx"
      BY <1>1, <2>2, <3>1, <3>3 DEF PtRuns
    <3> QED BY <2>2, <3>2, <3>3 DEF PtRuns
  <2>3. \A d \in 1..6 : ptChan'[d] = PtStopped \/ PtRuns(d)'
    BY <1>8, <2>1, <2>2
  <2>4. ASSUME NEW v \in Usarts, v # u
        PROVE  /\ ptCtx'[v].rx \in {0, RxChan(ptLayout', v)}
               /\ ptCtx'[v].rx # 0 => v \in ptClaimed'
               /\ v \in ptSnd' => /\ ptCtx'[v].tx = TxChan(ptLayout', v) /\ "dent" \in ptReg'[v]
                                  /\ DmaIrqs(ptLayout', v).tx \in ptOn'
               /\ v \notin ptSnd' => ptCtx'[v].tx = 0
    BY <1>1, <1>6, <1>7, <2>4 DEF PtIInv, PtChanInv
  <2>5. /\ ptCtx'[u].rx \in {0, RxChan(ptLayout', u)} /\ u \in ptClaimed' /\ u \notin ptSnd' /\ ptCtx'[u].tx = 0
    BY <1>1, <1>2, <1>7 DEF PtIInv, PtChanInv
  <2> QED BY <2>3, <2>4, <2>5 DEF PtChanInv
<1> QED BY <1>9, <1>10, <1>11, <1>12 DEF PtIInv

\* The invariant holds at reset.
LEMMA PtInitIInv == PtInit => PtIInv
<1> SUFFICES ASSUME PtInit PROVE PtIInv
  OBVIOUS
<1>1. ptLayout \in {"F1x0Grouped", "F10xSeparate"}
  BY PtAssumption DEF PtInit
<1>2. PtTypes
  <2>1. PtStopped \in [usart : Usarts \cup {"none"}, way : {"rx", "tx", "none"}]
    BY DEF PtStopped
  <2> QED BY <1>1, <2>1 DEF PtInit, PtTypes, PtHeldSet, PtSlotSet, PtSources
<1>3. PtHandInv /\ PtRcvInv /\ PtChanInv
  BY DEF PtInit, PtHandInv, PtRcvInv, PtChanInv
<1> QED BY <1>2, <1>3 DEF PtIInv

\* Every step keeps the invariant.
LEMMA PtNextIInv == PtIInv /\ [PtNext]_ptVars => PtIInv'
<1> SUFFICES ASSUME PtIInv, [PtNext]_ptVars PROVE PtIInv'
  OBVIOUS
<1>1. ASSUME NEW u \in Usarts, NEW mapped \in Usarts \cup {"none"}, PtUsartNew(u, mapped) PROVE PtIInv'
  BY <1>1, PtNewKeeps
<1>2. ASSUME NEW u \in Usarts, split(u) \/ PtSend(u) \/ PtSent(u) \/ DmaTxRelease(u) PROVE PtIInv'
  BY <1>2, PtSplitKeeps, PtTransferKeeps, PtDmaTxReleaseKeeps
<1>3. ASSUME NEW t \in Usarts, NEW r \in Usarts, rejoin(t, r) PROVE PtIInv'
  BY <1>3, PtRejoinKeeps
<1>4. ASSUME NEW u \in Usarts, NEW ring \in PtRings, BufferedNew(u, ring) PROVE PtIInv'
  BY <1>4, PtBufferedNewKeeps
<1>5. ASSUME NEW r \in ptRcv, BufferedRelease(r) \/ RingRelease(r) PROVE PtIInv'
  BY <1>5, PtBufferedReleaseKeeps, PtRingReleaseKeeps
<1>6. ASSUME NEW u \in Usarts, NEW fits \in BOOLEAN, NEW answers \in BOOLEAN,
             RingNew(u, fits, answers) \/ DmaTxNew(u, fits, answers)
      PROVE PtIInv'
  BY <1>6, PtRingNewKeeps, PtDmaTxNewKeeps
<1>7. CASE UNCHANGED ptVars
  BY <1>7 DEF ptVars, PtIInv, PtTypes, PtHandInv, PtRcvInv, PtChanInv, PtRuns
<1> QED BY <1>1, <1>2, <1>3, <1>4, <1>5, <1>6, <1>7 DEF PtNext

\* Each direction of a port is in one hand.
LEMMA PtIInvSole == PtIInv => SoleHolder
<1> SUFFICES ASSUME PtIInv, NEW u \in Usarts
             PROVE  /\ ptHeld[u].whole + ptHeld[u].rx + Cardinality({r \in ptRcv : r.usart = u}) <= 1
                    /\ ptHeld[u].whole + ptHeld[u].tx + Cardinality(ptSnd \cap {u}) <= 1
  BY DEF SoleHolder
<1> DEFINE R == {r \in ptRcv : r.usart = u}  S == ptSnd \cap {u}
<1>1. ptHeld[u].whole \in 0..1 /\ ptHeld[u].tx \in 0..1 /\ ptHeld[u].rx \in 0..1
  BY DEF PtIInv, PtTypes, PtHeldSet
<1>2. \A x : Cardinality({x}) = 1
  BY FS_Singleton
<1>3. ptHeld[u].whole + ptHeld[u].rx + Cardinality(R) <= 1
  <2>1. CASE R = {}
    <3>1. Cardinality(R) = 0
      BY <2>1, FS_EmptySet
    <3>2. ptHeld[u].whole + ptHeld[u].rx <= 1
      BY DEF PtIInv, PtHandInv
    <3> HIDE DEF R
    <3> QED BY <1>1, <3>1, <3>2
  <2>2. CASE R # {}
    <3>1. PICK r \in ptRcv : r.usart = u
      BY <2>2
    <3>2. R = {r}
      BY <3>1 DEF PtIInv, PtRcvInv
    <3>3. ptHeld[u].whole = 0 /\ ptHeld[u].rx = 0
      BY <3>1 DEF PtIInv, PtHandInv
    <3>4. Cardinality(R) = 1
      BY <1>2, <3>2
    <3> HIDE DEF R
    <3> QED BY <3>3, <3>4
  <2> QED BY <2>1, <2>2
<1>4. ptHeld[u].whole + ptHeld[u].tx + Cardinality(S) <= 1
  <2>1. CASE u \notin ptSnd
    <3>1. S = {}
      BY <2>1
    <3>2. Cardinality(S) = 0
      BY <3>1, FS_EmptySet
    <3>3. ptHeld[u].whole + ptHeld[u].tx <= 1
      BY DEF PtIInv, PtHandInv
    <3> HIDE DEF S
    <3> QED BY <1>1, <3>2, <3>3
  <2>2. CASE u \in ptSnd
    <3>1. S = {u} /\ ptHeld[u].whole = 0 /\ ptHeld[u].tx = 0
      BY <2>2 DEF PtIInv, PtHandInv
    <3>2. Cardinality(S) = 1
      BY <1>2, <3>1
    <3> HIDE DEF S
    <3> QED BY <3>1, <3>2
  <2> QED BY <2>1, <2>2
<1> QED BY <1>3, <1>4

\* The invariant implies PtSafe.
LEMMA PtIInvSafe == PtIInv => PtSafe
<1> SUFFICES ASSUME PtIInv PROVE PtSafe
  OBVIOUS
<1>1. PtTypeOK
  <2>1. \A u \in Usarts : ptHeld[u] \in [whole : Nat, tx : Nat, rx : Nat]
    <3>1. \A h \in PtHeldSet : h \in [whole : Nat, tx : Nat, rx : Nat]
      BY DEF PtHeldSet
    <3>2. ptHeld \in [Usarts -> PtHeldSet]
      BY DEF PtIInv, PtTypes
    <3> QED BY <3>1, <3>2
  <2>2. ptClaimed \subseteq {u \in Usarts : Exists(u)}
    BY DEF PtIInv, PtTypes, PtHas, Exists
  <2>3. ptTaken \subseteq PtRings /\ ptOn \subseteq 0..47
    BY DEF PtIInv, PtTypes
  <2> QED BY <2>1, <2>2, <2>3 DEF PtTypeOK
<1>2. SlotServes
  <2>1. \A r \in ptRcv : r.kind \in {"buffered", "ring"}
    BY DEF PtIInv, PtTypes, PtRcvSet
  <2>2. \A r \in ptRcv : ptSlot[r.usart] = [installed |-> TRUE, ring |-> r.ring]
    BY DEF PtIInv, PtRcvInv
  <2>3. ASSUME NEW r \in ptRcv, NEW s \in ptRcv, r # s, r.ring = s.ring PROVE r.ring = PtNone
    <3>1. CASE r.kind = "ring" \/ s.kind = "ring"
      BY <2>3, <3>1 DEF PtIInv, PtRcvInv
    <3>2. CASE r.kind = "buffered" /\ s.kind = "buffered"
      BY <2>3, <3>2 DEF PtIInv, PtRcvInv
    <3> QED BY <2>1, <3>1, <3>2
  <2> QED BY <2>2, <2>3 DEF SlotServes
<1>3. ChannelsSole
  <2>1. \A c \in 1..6 : ptChan[c] = PtStopped \/ PtRuns(c)
    BY DEF PtIInv, PtChanInv
  <2>2. \A u \in ptSnd : "dent" \in ptReg[u]
    BY DEF PtIInv, PtChanInv, PtTypes
  <2>3. ASSUME NEW c \in 1..6
        PROVE  /\ ptChan[c].way = "rx" => [usart |-> ptChan[c].usart, kind |-> "ring", ring |-> PtNone] \in ptRcv
               /\ ptChan[c].way = "tx" => ptChan[c].usart \in ptSnd /\ "dent" \in ptReg[ptChan[c].usart]
    <3>1. CASE ptChan[c] = PtStopped
      BY <3>1 DEF PtStopped
    <3>2. CASE PtRuns(c)
      BY <2>2, <3>2 DEF PtRuns
    <3> QED BY <2>1, <3>1, <3>2
  <2>4. \A r \in ptRcv : r.kind = "ring" =>
          ptChan[RxChan(ptLayout, r.usart)] = [usart |-> r.usart, way |-> "rx"]
    BY DEF PtIInv, PtRcvInv
  <2> QED BY <2>3, <2>4 DEF ChannelsSole
<1>4. VectorsServe
  <2>1. ASSUME NEW c \in 1..6, ptChan[c] # PtStopped PROVE VectorOf(ptLayout, c) \in ptOn
    <3> DEFINE u == ptChan[c].usart
    <3>1. PtRuns(c) /\ u \in Usarts
      BY <2>1 DEF PtIInv, PtChanInv, PtRuns
    <3>2. CASE ptChan[c].way = "rx"
      <4> DEFINE m == [usart |-> u, kind |-> "ring", ring |-> PtNone]
      <4>1. m \in ptRcv /\ m.usart = u /\ m.kind = "ring" /\ c = RxChan(ptLayout, u)
        BY <3>1, <3>2 DEF PtRuns
      <4>2. PtHas(ptLayout, u) /\ DmaIrqs(ptLayout, u).rx \in ptOn
        BY <4>1, PtLive DEF PtIInv, PtRcvInv
      <4> QED BY <3>1, <4>1, <4>2, PtTables DEF PtIInv
    <3>3. CASE ptChan[c].way = "tx"
      <4>1. u \in ptSnd /\ c = TxChan(ptLayout, u)
        BY <3>1, <3>3 DEF PtRuns
      <4>2. PtHas(ptLayout, u) /\ DmaIrqs(ptLayout, u).tx \in ptOn
        BY <3>1, <4>1, PtLive DEF PtIInv, PtChanInv
      <4> QED BY <3>1, <4>1, <4>2, PtTables DEF PtIInv
    <3> QED BY <3>1, <3>2, <3>3 DEF PtRuns
  <2>2. ASSUME NEW u \in Usarts, NEW v \in Usarts, ptCtx[u].rx # 0
        PROVE  ptCtx[u].rx # ptCtx[v].tx /\ (u # v => ptCtx[u].rx # ptCtx[v].rx)
    <3>1. ptCtx[u].rx = RxChan(ptLayout, u) /\ u \in ptClaimed
      BY <2>2 DEF PtIInv, PtChanInv
    <3>2. ptCtx[v].tx # 0 => ptCtx[v].tx = TxChan(ptLayout, v) /\ v \in ptClaimed
      BY PtLive DEF PtIInv, PtChanInv
    <3>3. ptCtx[v].rx # 0 => ptCtx[v].rx = RxChan(ptLayout, v) /\ v \in ptClaimed
      BY DEF PtIInv, PtChanInv
    <3>4. RxChan(ptLayout, u) # TxChan(ptLayout, u)
      BY <3>1, PtLive, PtTables DEF PtIInv
    <3>5. u # v /\ v \in ptClaimed => /\ RxChan(ptLayout, u) # RxChan(ptLayout, v)
                                     /\ RxChan(ptLayout, u) # TxChan(ptLayout, v)
      BY <3>1, PtOthers
    <3> QED BY <2>2, <3>1, <3>2, <3>3, <3>4, <3>5
  <2>3. ASSUME NEW u \in Usarts, NEW v \in Usarts, ptCtx[u].tx # 0, u # v PROVE ptCtx[u].tx # ptCtx[v].tx
    <3>1. ptCtx[u].tx = TxChan(ptLayout, u) /\ u \in ptClaimed
      BY <2>3, PtLive DEF PtIInv, PtChanInv
    <3>2. ptCtx[v].tx # 0 => ptCtx[v].tx = TxChan(ptLayout, v) /\ v \in ptClaimed
      BY PtLive DEF PtIInv, PtChanInv
    <3> QED BY <2>3, <3>1, <3>2, PtOthers
  <2> QED BY <2>1, <2>2, <2>3 DEF VectorsServe
<1>5. NothingUnserved
  BY DEF PtIInv, PtRcvInv, NothingUnserved
<1> QED BY <1>1, <1>2, <1>3, <1>4, <1>5, PtIInvSole DEF PtSafe

\* For every set of rings, both layouts and any order of construction, split and
\* release: each direction of a port has one holder, each channel one driver, each
\* context its vector, and no source is enabled that no slot serves (usart.rs,
\* usart_rx.rs, usart_tx.rs, dma.rs).
THEOREM PortsSafety == PtSpec => []PtSafe
<1> QED BY PtInitIInv, PtNextIInv, PtIInvSafe, PTL DEF PtSpec

---------------------------------------------------------------------------
(* The single-channel PWM (PwmOut).                                       *)

\* The shapes of the state: what the bus sees, what the counter works with.
PwRegs == [car : 1..PwMaxCar, cmp : 0..PwMaxCar, arse : BOOLEAN, comsen : BOOLEAN, en : BOOLEAN, cen : BOOLEAN]
PwTypes ==
  /\ pwReg \in PwRegs
  /\ pwLive \in [car : 1..PwMaxCar, cmp : 0..PwMaxCar, cnt : 0..PwMaxCar]
  /\ pwSelf \in [freq : Nat, period : 0..PwMaxCar]
  /\ pwPeriod \in [high : Nat, want : Nat]
  /\ pwDone \in [high : Nat, of : Nat, want : Nat]

\* The writes of the configuration from one of them on; those that set a bit.
PwOn(reg) == To(reg, TRUE)
PwLeft(k, p) ==
  IF k = 1 THEN <<To("car", p), PwOn("arse"), PwOn("comsen"), To("cmp", 0), PwOn("en"), PwOn("cen")>>
  ELSE IF k = 2 THEN <<PwOn("arse"), PwOn("comsen"), To("cmp", 0), PwOn("en"), PwOn("cen")>>
  ELSE IF k = 3 THEN <<PwOn("comsen"), To("cmp", 0), PwOn("en"), PwOn("cen")>>
  ELSE IF k = 4 THEN <<To("cmp", 0), PwOn("en"), PwOn("cen")>>
  ELSE IF k = 5 THEN <<PwOn("en"), PwOn("cen")>>
  ELSE <<PwOn("cen")>>

\* What the writes up to one of them have left.
PwWritten(k) ==
  /\ k >= 2 => pwReg.car = pwSelf.period
  /\ k >= 3 => pwReg.arse
  /\ k >= 4 => pwReg.comsen
  /\ k >= 5 => pwReg.cmp = 0
  /\ k >= 6 => pwReg.en
PwUp == /\ pwReg.arse /\ pwReg.comsen /\ pwReg.en /\ pwReg.cen
        /\ pwReg.car = pwSelf.period

\* Where a call is: in the configuration, at the one write of a duty, or at rest.
PwCodeInv ==
  \/ pwSelf.period > 0 /\ \E k \in 1..6 : pwCode = PwLeft(k, pwSelf.period) /\ PwWritten(k)
  \/ /\ pwSelf.period > 0 /\ PwUp
     /\ \E d \in 0..pwSelf.period : pwCode = <<To("cmp", d)>>
  \/ pwCode = << >> /\ pwReg.cmp <= pwReg.car /\ (pwSelf.period > 0 => PwUp)

\* A counter that runs takes everything from its shadows; one that does not
\* has not counted yet and no compare value is set.  The counts driven high are
\* those below the compare value of this period.
PwCountInv ==
  /\ pwReg.cen => pwReg.arse /\ pwReg.comsen /\ pwReg.en
  /\ ~pwReg.cen => pwReg.cmp = 0 /\ pwLive.cmp = 0 /\ pwLive.cnt = 0
  /\ pwPeriod.want = pwLive.cmp
  /\ pwPeriod.high = IF pwLive.cmp > pwLive.cnt THEN pwLive.cnt ELSE pwLive.cmp
  /\ DutyWhole

PwIInv == PwTypes /\ PwCodeInv /\ PwCountInv /\ FrequencyKept
---------------------------------------------------------------------------
\* Euclid's division.
LEMMA PwDivides ==
  ASSUME NEW a \in Nat, NEW b \in Nat, b > 0
  PROVE  a \div b \in Nat /\ (a \div b) * b <= a /\ a < (a \div b) * b + b
OBVIOUS

\* A product grows with its factor.
LEMMA PwTimes ==
  ASSUME NEW a \in Nat, NEW b \in Nat, NEW c \in Nat, a <= b
  PROVE  a * c <= b * c /\ a * c \in Nat /\ (a + 1) * c = a * c + c
OBVIOUS

\* A period that is not refused is in range and is the frequency asked for, to
\* half a count.
LEMMA PwPeriodFor ==
  ASSUME NEW freq \in Nat, NEW period \in period_for(freq)
  PROVE  /\ period \in 1..PwMaxCar
         /\ LET counts == (period + 1) * freq
                off == IF counts > PwClock THEN counts - PwClock ELSE PwClock - counts
            IN 2 * off <= freq \/ (period = PwMaxCar /\ counts < PwClock)
<1>1. PwClock \in Nat /\ PwMaxCar \in Nat /\ PwMaxCar > 0
  BY PwAssumption
<1>2. freq > 0
  BY DEF period_for
<1> DEFINE h == freq \div 2
           ticks == (PwClock + h) \div freq
<1>3. h \in Nat /\ 2 * h <= freq /\ freq <= 2 * h + 1
  OBVIOUS
<1>4. ticks \in Nat /\ ticks * freq <= PwClock + h /\ PwClock + h < ticks * freq + freq
  <2>1. PwClock + h \in Nat
    BY <1>1, <1>3
  <2> HIDE DEF h
  <2>2. \A a, b \in Nat : b > 0 => a \div b \in Nat /\ (a \div b) * b <= a /\ a < (a \div b) * b + b
    BY PwDivides
  <2> QED BY <1>2, <2>1, <2>2, Zenon
<1>0. ticks \in Nat
  BY <1>4
<1>5. ticks >= 2 /\ period = IF ticks - 1 > PwMaxCar THEN PwMaxCar ELSE ticks - 1
  BY <1>0, <1>2 DEF period_for
<1> HIDE DEF ticks, h
<1>6. period \in 1..PwMaxCar
  BY <1>0, <1>1, <1>5
<1> DEFINE counts == (period + 1) * freq
<1>7. CASE ticks - 1 <= PwMaxCar
  <2>1. counts = ticks * freq
    <3>1. period + 1 = ticks
      BY <1>0, <1>1, <1>5, <1>7
    <3> QED BY <3>1
  <2>2. counts \in Nat
    BY <1>6, <2>1, <1>4
  <2> HIDE DEF counts
  <2>3. counts <= PwClock + h /\ PwClock + h < counts + freq
    BY <1>4, <2>1
  <2>4. 2 * (IF counts > PwClock THEN counts - PwClock ELSE PwClock - counts) <= freq
    BY <1>1, <1>3, <2>2, <2>3
  <2> QED BY <1>6, <2>4 DEF counts
<1>8. CASE ticks - 1 > PwMaxCar
  <2>1. period = PwMaxCar /\ period + 1 <= ticks - 1
    BY <1>0, <1>1, <1>5, <1>8
  <2>2. counts \in Nat /\ counts <= (ticks - 1) * freq
    BY <1>0, <1>1, <2>1, PwTimes
  <2>3. (ticks - 1) * freq \in Nat /\ ticks * freq = (ticks - 1) * freq + freq
    <3>1. ticks - 1 \in Nat /\ (ticks - 1) + 1 = ticks
      BY <1>0, <1>5
    <3> QED BY <3>1, PwTimes
  <2> HIDE DEF counts
  <2>4. counts < PwClock
    BY <1>1, <1>2, <1>3, <1>4, <2>2, <2>3
  <2> QED BY <1>6, <2>1, <2>4 DEF counts
<1> QED BY <1>0, <1>1, <1>7, <1>8

\* A refused frequency or the clamp aside, the parts of one write.
LEMMA PwNewKeeps ==
  ASSUME PwIInv, NEW freq \in PwFreqs, NEW general \in BOOLEAN, NEW known \in BOOLEAN,
         PwNew(freq, general, known)
  PROVE  PwIInv'
<1>1. pwCode = << >> /\ UNCHANGED <<pwReg, pwLive, pwPeriod, pwDone>>
  BY DEF PwNew, PwCalled
<1>2. CASE ~general \/ period_for(freq) = {} \/ ~known
  <2>1. UNCHANGED <<pwCode, pwSelf>>
    BY <1>2 DEF PwNew
  <2> QED BY <1>1, <2>1 DEF PwIInv, PwTypes, PwCodeInv, PwLeft, PwWritten, PwUp, PwCountInv, DutyWhole, FrequencyKept
<1>3. CASE ~(~general \/ period_for(freq) = {} \/ ~known)
  <2>1. PICK period \in period_for(freq) : pwCode' = PwConfigure(period) /\ pwSelf' = [freq |-> freq, period |-> period]
    BY <1>3 DEF PwNew
  <2>2. freq \in Nat /\ pwSelf'.period = period /\ pwSelf'.freq = freq
    BY <2>1, PwAssumption
  <2>3. period \in 1..PwMaxCar /\ FrequencyKept'
    BY <2>2, PwPeriodFor DEF FrequencyKept
  <2>4. PwTypes'
    BY <1>1, <2>1, <2>2, <2>3, PwAssumption DEF PwIInv, PwTypes
  <2>5. PwCodeInv'
    <3>1. pwCode' = PwLeft(1, pwSelf'.period)
      <4>1. PwConfigure(period) = <<To("car", period), PwOn("arse"), PwOn("comsen"), To("cmp", 0), PwOn("en"), PwOn("cen")>>
        BY DEF PwConfigure, PwOn
      <4>2. PwLeft(1, period) = PwConfigure(period)
        BY <4>1 DEF PwLeft
      <4> QED BY <2>1, <2>2, <4>2
    <3>3. PwWritten(1)'
      BY DEF PwWritten
    <3>2. pwSelf'.period > 0 /\ 1 \in 1..6
      BY <2>2, <2>3, PwAssumption
    <3> QED BY <3>1, <3>2, <3>3 DEF PwCodeInv
  <2>6. PwCountInv'
    BY <1>1 DEF PwIInv, PwCountInv, DutyWhole
  <2> QED BY <2>3, <2>4, <2>5, <2>6 DEF PwIInv
<1> QED BY <1>2, <1>3

LEMMA PwDutyKeeps ==
  ASSUME PwIInv, NEW duty \in PwDuties, set_duty_cycle(duty)
  PROVE  PwIInv'
<1>1. /\ pwCode = << >> /\ pwSelf.period > 0
      /\ pwCode' = <<To("cmp", IF duty > pwSelf.period THEN pwSelf.period ELSE duty)>>
      /\ UNCHANGED <<pwReg, pwLive, pwSelf, pwPeriod, pwDone>>
  BY DEF set_duty_cycle, PwCalled
<1>2. PwUp
  <2>1. \A k \in 1..6 : PwLeft(k, pwSelf.period) # << >>
    BY DEF PwLeft
  <2>2. \A d : <<To("cmp", d)>> # << >>
    OBVIOUS
  <2> QED BY <1>1, <2>1, <2>2 DEF PwIInv, PwCodeInv
<1>3. (IF duty > pwSelf.period THEN pwSelf.period ELSE duty) \in 0..pwSelf.period
  BY PwAssumption DEF PwIInv, PwTypes
<1>4. PwCodeInv'
  BY <1>1, <1>2, <1>3 DEF PwCodeInv, PwUp
<1>5. PwTypes' /\ PwCountInv' /\ FrequencyKept'
  BY <1>1 DEF PwIInv, PwTypes, PwCountInv, DutyWhole, FrequencyKept
<1> QED BY <1>4, <1>5 DEF PwIInv

\* A count of the timer.
LEMMA PwCountKeeps ==
  ASSUME PwIInv, PwCount
  PROVE  PwIInv'
<1> DEFINE high == pwPeriod.high + (IF PwHigh THEN 1 ELSE 0)
<1>1. pwReg.cen /\ pwReg.en /\ UNCHANGED <<pwCode, pwReg, pwSelf>>
  BY DEF PwCount, PwIInv, PwCountInv
<1>2. PwCodeInv' /\ FrequencyKept'
  BY <1>1 DEF PwIInv, PwCodeInv, PwLeft, PwWritten, PwUp, FrequencyKept
<1>3. /\ pwReg \in PwRegs
      /\ pwLive \in [car : 1..PwMaxCar, cmp : 0..PwMaxCar, cnt : 0..PwMaxCar]
      /\ pwPeriod \in [high : Nat, want : Nat] /\ pwDone \in [high : Nat, of : Nat, want : Nat]
      /\ pwSelf \in [freq : Nat, period : 0..PwMaxCar]
      /\ pwPeriod.want = pwLive.cmp
      /\ pwPeriod.high = IF pwLive.cmp > pwLive.cnt THEN pwLive.cnt ELSE pwLive.cmp
      /\ PwMaxCar \in Nat
  BY PwAssumption DEF PwIInv, PwTypes, PwCountInv
<1>4. high = (IF pwLive.cmp > pwLive.cnt + 1 THEN pwLive.cnt + 1 ELSE pwLive.cmp) /\ high \in Nat
  BY <1>1, <1>3 DEF PwHigh
<1>5. CASE pwLive.cnt < pwLive.car
  <2>1. /\ pwLive' = [pwLive EXCEPT !.cnt = @ + 1] /\ pwPeriod' = [pwPeriod EXCEPT !.high = high]
        /\ pwDone' = pwDone
    BY <1>5 DEF PwCount
  <2> HIDE DEF high
  <2>2. /\ pwLive' \in [car : 1..PwMaxCar, cmp : 0..PwMaxCar, cnt : 0..PwMaxCar]
        /\ pwLive'.cmp = pwLive.cmp /\ pwLive'.cnt = pwLive.cnt + 1
    BY <1>3, <1>5, <2>1
  <2>3. pwPeriod' \in [high : Nat, want : Nat] /\ pwPeriod'.high = high /\ pwPeriod'.want = pwPeriod.want
    BY <1>3, <1>4, <2>1
  <2>4. PwTypes'
    BY <1>1, <1>3, <2>1, <2>2, <2>3 DEF PwTypes
  <2>5. PwCountInv'
    BY <1>1, <1>3, <1>4, <2>1, <2>2, <2>3 DEF PwIInv, PwCountInv, DutyWhole
  <2> QED BY <1>2, <2>4, <2>5 DEF PwIInv
<1>6. CASE ~(pwLive.cnt < pwLive.car)
  <2>1. /\ pwLive' = [car |-> pwReg.car, cmp |-> pwReg.cmp, cnt |-> 0]
        /\ pwDone' = [high |-> high, of |-> pwLive.cnt + 1, want |-> pwPeriod.want]
        /\ pwPeriod' = [high |-> 0, want |-> pwReg.cmp]
    BY <1>6 DEF PwCount
  <2> HIDE DEF high
  <2>2. pwReg.car \in 1..PwMaxCar /\ pwReg.cmp \in 0..PwMaxCar
    BY <1>3 DEF PwRegs
  <2>3. PwTypes'
    BY <1>1, <1>3, <1>4, <2>1, <2>2 DEF PwTypes
  <2>4. DutyWhole'
    BY <1>3, <1>4, <2>1 DEF DutyWhole
  <2>5. PwCountInv'
    BY <1>1, <1>3, <2>1, <2>2, <2>4 DEF PwIInv, PwCountInv
  <2> QED BY <1>2, <2>3, <2>5 DEF PwIInv
<1> QED BY <1>5, <1>6

\* Each write of the configuration and what is left after it.
LEMMA PwSuffix ==
  ASSUME NEW p
  PROVE  /\ \A k \in 1..6 : PwLeft(k, p) # << >>
         /\ PwLeft(1, p)[1] = To("car", p) /\ Tail(PwLeft(1, p)) = PwLeft(2, p)
         /\ PwLeft(2, p)[1] = PwOn("arse") /\ Tail(PwLeft(2, p)) = PwLeft(3, p)
         /\ PwLeft(3, p)[1] = PwOn("comsen") /\ Tail(PwLeft(3, p)) = PwLeft(4, p)
         /\ PwLeft(4, p)[1] = To("cmp", 0) /\ Tail(PwLeft(4, p)) = PwLeft(5, p)
         /\ PwLeft(5, p)[1] = PwOn("en") /\ Tail(PwLeft(5, p)) = PwLeft(6, p)
         /\ PwLeft(6, p)[1] = PwOn("cen") /\ Tail(PwLeft(6, p)) = << >>
<1>1. \A k \in 1..6 : PwLeft(k, p) # << >>
  BY DEF PwLeft
<1>2. PwLeft(1, p)[1] = To("car", p) /\ Tail(PwLeft(1, p)) = PwLeft(2, p)
  BY DEF PwLeft
<1>3. PwLeft(2, p)[1] = PwOn("arse") /\ Tail(PwLeft(2, p)) = PwLeft(3, p)
  BY DEF PwLeft
<1>4. PwLeft(3, p)[1] = PwOn("comsen") /\ Tail(PwLeft(3, p)) = PwLeft(4, p)
  BY DEF PwLeft
<1>5. PwLeft(4, p)[1] = To("cmp", 0) /\ Tail(PwLeft(4, p)) = PwLeft(5, p)
  BY DEF PwLeft
<1>6. PwLeft(5, p)[1] = PwOn("en") /\ Tail(PwLeft(5, p)) = PwLeft(6, p)
  BY DEF PwLeft
<1>7. PwLeft(6, p)[1] = PwOn("cen") /\ Tail(PwLeft(6, p)) = << >>
  BY DEF PwLeft
<1> QED BY <1>1, <1>2, <1>3, <1>4, <1>5, <1>6, <1>7

\* One write of the configuration: its word, and what it leaves behind.
LEMMA PwWriteAt ==
  ASSUME PwIInv, PwWrite, NEW r, NEW v, pwCode[1].reg = r, pwCode[1].value = v,
         r \in {"car", "cmp", "arse", "comsen", "en", "cen"},
         r \in {"car", "cmp"} => v \in 0..PwMaxCar, r = "car" => v > 0,
         r \notin {"car", "cmp"} => v = TRUE
  PROVE  /\ pwCode # << >> /\ pwCode' = Tail(pwCode)
         /\ UNCHANGED <<pwSelf, pwPeriod, pwDone>>
         /\ PwTypes'
         /\ r = "car" => pwReg' = [pwReg EXCEPT !.car = v] /\ pwLive' = IF pwReg.arse THEN pwLive ELSE [pwLive EXCEPT !.car = v]
         /\ r = "cmp" => pwReg' = [pwReg EXCEPT !.cmp = v] /\ pwLive' = IF pwReg.comsen THEN pwLive ELSE [pwLive EXCEPT !.cmp = v]
         /\ r = "arse" => pwReg' = [pwReg EXCEPT !.arse = TRUE] /\ pwLive' = pwLive
         /\ r = "comsen" => pwReg' = [pwReg EXCEPT !.comsen = TRUE] /\ pwLive' = pwLive
         /\ r = "en" => pwReg' = [pwReg EXCEPT !.en = TRUE] /\ pwLive' = pwLive
         /\ r = "cen" => pwReg' = [pwReg EXCEPT !.cen = TRUE] /\ pwLive' = pwLive
<1>1. pwCode # << >> /\ pwCode' = Tail(pwCode) /\ UNCHANGED <<pwSelf, pwPeriod, pwDone>>
  BY DEF PwWrite
<1>2. /\ pwReg' = [pwReg EXCEPT ![r] = v]
      /\ r = "car" => pwLive' = IF pwReg.arse THEN pwLive ELSE [pwLive EXCEPT !.car = v]
      /\ r = "cmp" => pwLive' = IF pwReg.comsen THEN pwLive ELSE [pwLive EXCEPT !.cmp = v]
      /\ r \notin {"car", "cmp"} => pwLive' = pwLive
  BY DEF PwWrite
<1>3. /\ pwReg \in PwRegs /\ pwLive \in [car : 1..PwMaxCar, cmp : 0..PwMaxCar, cnt : 0..PwMaxCar]
      /\ PwMaxCar \in Nat
  BY PwAssumption DEF PwIInv, PwTypes
<1>4. pwLive' \in [car : 1..PwMaxCar, cmp : 0..PwMaxCar, cnt : 0..PwMaxCar]
  BY <1>2, <1>3
<1>5. pwReg' \in PwRegs
  <2>1. CASE r = "car"
    BY <1>2, <1>3, <2>1 DEF PwRegs
  <2>2. CASE r = "cmp"
    BY <1>2, <1>3, <2>2 DEF PwRegs
  <2>3. CASE r = "arse"
    BY <1>2, <1>3, <2>3 DEF PwRegs
  <2>4. CASE r = "comsen"
    BY <1>2, <1>3, <2>4 DEF PwRegs
  <2>5. CASE r = "en"
    BY <1>2, <1>3, <2>5 DEF PwRegs
  <2>6. CASE r = "cen"
    BY <1>2, <1>3, <2>6 DEF PwRegs
  <2> QED BY <2>1, <2>2, <2>3, <2>4, <2>5, <2>6
<1>6. PwTypes'
  BY <1>1, <1>4, <1>5 DEF PwIInv, PwTypes
<1> QED BY <1>1, <1>2, <1>6

\* The word that sets a bit.
LEMMA PwWordsOf ==
  ASSUME NEW reg
  PROVE  PwOn(reg).reg = reg /\ PwOn(reg).value = TRUE
BY DEF PwOn, To

\* What does not change with a write, and the frequency.
LEMMA PwWriteFrame ==
  ASSUME PwIInv, UNCHANGED <<pwSelf, pwPeriod, pwDone>>
  PROVE  FrequencyKept' /\ DutyWhole'
BY DEF PwIInv, FrequencyKept, PwCountInv, DutyWhole

\* The write of car.
LEMMA PwWrite1 ==
  ASSUME PwIInv, PwWrite, pwSelf.period > 0, pwCode = PwLeft(1, pwSelf.period), PwWritten(1)
  PROVE  PwIInv'
<1>1. pwCode[1].reg = "car" /\ pwCode[1].value = pwSelf.period /\ Tail(pwCode) = PwLeft(2, pwSelf.period)
  <2>1. pwCode[1] = To("car", pwSelf.period) /\ Tail(pwCode) = PwLeft(2, pwSelf.period)
    BY PwSuffix
  <2>2. To("car", pwSelf.period).reg = "car" /\ To("car", pwSelf.period).value = pwSelf.period
    BY DEF To
  <2> QED BY <2>1, <2>2
<1>2. pwSelf.period \in 1..PwMaxCar /\ pwReg \in PwRegs
      /\ pwLive \in [car : 1..PwMaxCar, cmp : 0..PwMaxCar, cnt : 0..PwMaxCar]
  BY DEF PwIInv, PwTypes
<1>3. /\ pwCode' = Tail(pwCode) /\ UNCHANGED <<pwSelf, pwPeriod, pwDone>> /\ PwTypes'
      /\ pwReg' = [pwReg EXCEPT !.car = pwSelf.period]
      /\ pwLive' = IF pwReg.arse THEN pwLive ELSE [pwLive EXCEPT !.car = pwSelf.period]
  <2>1. pwSelf.period \in 0..PwMaxCar /\ "car" \in {"car", "cmp", "arse", "comsen", "en", "cen"} /\ "car" \in {"car", "cmp"}
    BY <1>2, PwAssumption
  <2> DEFINE w == pwSelf.period
  <2>2. w \in 0..PwMaxCar /\ pwCode[1].reg = "car" /\ pwCode[1].value = w /\ w > 0
    BY <1>1, <1>2, <2>1
  <2> HIDE DEF w
  <2>3. /\ pwCode' = Tail(pwCode) /\ UNCHANGED <<pwSelf, pwPeriod, pwDone>> /\ PwTypes'
        /\ pwReg' = [pwReg EXCEPT !.car = w]
        /\ pwLive' = IF pwReg.arse THEN pwLive ELSE [pwLive EXCEPT !.car = w]
    BY <2>1, <2>2, PwWriteAt
  <2> QED BY <2>3 DEF w
<1>4. /\ pwReg'.car = pwSelf.period
      /\ pwReg'.cmp = pwReg.cmp
      /\ pwReg'.arse = pwReg.arse
      /\ pwReg'.comsen = pwReg.comsen
      /\ pwReg'.en = pwReg.en
      /\ pwReg'.cen = pwReg.cen
      /\ pwLive'.cmp = pwLive.cmp /\ pwLive'.cnt = pwLive.cnt
  BY <1>2, <1>3 DEF PwRegs, PwWritten
<1>5. pwCode' = PwLeft(2, pwSelf'.period) /\ PwWritten(2)' /\ pwSelf'.period > 0
  BY <1>1, <1>3, <1>4 DEF PwWritten
<1>6. PwCodeInv'
  BY <1>5 DEF PwCodeInv
<1>7. PwCountInv'
  BY <1>3, <1>4, PwWriteFrame DEF PwIInv, PwCountInv, PwWritten
<1> QED BY <1>3, <1>6, <1>7, PwWriteFrame DEF PwIInv

\* The write of arse.
LEMMA PwWrite2 ==
  ASSUME PwIInv, PwWrite, pwSelf.period > 0, pwCode = PwLeft(2, pwSelf.period), PwWritten(2)
  PROVE  PwIInv'
<1>1. pwCode[1].reg = "arse" /\ pwCode[1].value = TRUE /\ Tail(pwCode) = PwLeft(3, pwSelf.period)
  <2>1. pwCode[1] = PwOn("arse") /\ Tail(pwCode) = PwLeft(3, pwSelf.period)
    BY PwSuffix
  <2>2. PwOn("arse").reg = "arse" /\ PwOn("arse").value = TRUE
    BY PwWordsOf
  <2> QED BY <2>1, <2>2
<1>2. pwSelf.period \in 1..PwMaxCar /\ pwReg \in PwRegs
      /\ pwLive \in [car : 1..PwMaxCar, cmp : 0..PwMaxCar, cnt : 0..PwMaxCar]
  BY DEF PwIInv, PwTypes
<1>3. /\ pwCode' = Tail(pwCode) /\ UNCHANGED <<pwSelf, pwPeriod, pwDone>> /\ PwTypes'
      /\ pwReg' = [pwReg EXCEPT !.arse = TRUE] /\ pwLive' = pwLive
  BY <1>1, <1>2, PwWriteAt
<1>4. /\ pwReg'.arse = TRUE
      /\ pwReg'.car = pwReg.car
      /\ pwReg'.cmp = pwReg.cmp
      /\ pwReg'.comsen = pwReg.comsen
      /\ pwReg'.en = pwReg.en
      /\ pwReg'.cen = pwReg.cen
      /\ pwLive'.cmp = pwLive.cmp /\ pwLive'.cnt = pwLive.cnt
  BY <1>2, <1>3 DEF PwRegs, PwWritten
<1>5. pwCode' = PwLeft(3, pwSelf'.period) /\ PwWritten(3)' /\ pwSelf'.period > 0
  BY <1>1, <1>3, <1>4 DEF PwWritten
<1>6. PwCodeInv'
  BY <1>5 DEF PwCodeInv
<1>7. PwCountInv'
  BY <1>3, <1>4, PwWriteFrame DEF PwIInv, PwCountInv, PwWritten
<1> QED BY <1>3, <1>6, <1>7, PwWriteFrame DEF PwIInv

\* The write of comsen.
LEMMA PwWrite3 ==
  ASSUME PwIInv, PwWrite, pwSelf.period > 0, pwCode = PwLeft(3, pwSelf.period), PwWritten(3)
  PROVE  PwIInv'
<1>1. pwCode[1].reg = "comsen" /\ pwCode[1].value = TRUE /\ Tail(pwCode) = PwLeft(4, pwSelf.period)
  <2>1. pwCode[1] = PwOn("comsen") /\ Tail(pwCode) = PwLeft(4, pwSelf.period)
    BY PwSuffix
  <2>2. PwOn("comsen").reg = "comsen" /\ PwOn("comsen").value = TRUE
    BY PwWordsOf
  <2> QED BY <2>1, <2>2
<1>2. pwSelf.period \in 1..PwMaxCar /\ pwReg \in PwRegs
      /\ pwLive \in [car : 1..PwMaxCar, cmp : 0..PwMaxCar, cnt : 0..PwMaxCar]
  BY DEF PwIInv, PwTypes
<1>3. /\ pwCode' = Tail(pwCode) /\ UNCHANGED <<pwSelf, pwPeriod, pwDone>> /\ PwTypes'
      /\ pwReg' = [pwReg EXCEPT !.comsen = TRUE] /\ pwLive' = pwLive
  BY <1>1, <1>2, PwWriteAt
<1>4. /\ pwReg'.comsen = TRUE
      /\ pwReg'.car = pwReg.car
      /\ pwReg'.cmp = pwReg.cmp
      /\ pwReg'.arse = pwReg.arse
      /\ pwReg'.en = pwReg.en
      /\ pwReg'.cen = pwReg.cen
      /\ pwLive'.cmp = pwLive.cmp /\ pwLive'.cnt = pwLive.cnt
  BY <1>2, <1>3 DEF PwRegs, PwWritten
<1>5. pwCode' = PwLeft(4, pwSelf'.period) /\ PwWritten(4)' /\ pwSelf'.period > 0
  BY <1>1, <1>3, <1>4 DEF PwWritten
<1>6. PwCodeInv'
  BY <1>5 DEF PwCodeInv
<1>7. PwCountInv'
  BY <1>3, <1>4, PwWriteFrame DEF PwIInv, PwCountInv, PwWritten
<1> QED BY <1>3, <1>6, <1>7, PwWriteFrame DEF PwIInv

\* The write of cmp.
LEMMA PwWrite4 ==
  ASSUME PwIInv, PwWrite, pwSelf.period > 0, pwCode = PwLeft(4, pwSelf.period), PwWritten(4)
  PROVE  PwIInv'
<1>1. pwCode[1].reg = "cmp" /\ pwCode[1].value = 0 /\ Tail(pwCode) = PwLeft(5, pwSelf.period)
  <2>1. pwCode[1] = To("cmp", 0) /\ Tail(pwCode) = PwLeft(5, pwSelf.period)
    BY PwSuffix
  <2>2. To("cmp", 0).reg = "cmp" /\ To("cmp", 0).value = 0
    BY DEF To
  <2> QED BY <2>1, <2>2
<1>2. pwSelf.period \in 1..PwMaxCar /\ pwReg \in PwRegs
      /\ pwLive \in [car : 1..PwMaxCar, cmp : 0..PwMaxCar, cnt : 0..PwMaxCar]
  BY DEF PwIInv, PwTypes
<1>3. /\ pwCode' = Tail(pwCode) /\ UNCHANGED <<pwSelf, pwPeriod, pwDone>> /\ PwTypes'
      /\ pwReg' = [pwReg EXCEPT !.cmp = 0]
      /\ pwLive' = IF pwReg.comsen THEN pwLive ELSE [pwLive EXCEPT !.cmp = 0]
  <2>1. 0 \in 0..PwMaxCar /\ "cmp" \in {"car", "cmp", "arse", "comsen", "en", "cen"} /\ "cmp" \in {"car", "cmp"}
    BY <1>2, PwAssumption
  <2> DEFINE w == 0
  <2>2. w \in 0..PwMaxCar /\ pwCode[1].reg = "cmp" /\ pwCode[1].value = w
    BY <1>1, <1>2, <2>1
  <2> HIDE DEF w
  <2>3. /\ pwCode' = Tail(pwCode) /\ UNCHANGED <<pwSelf, pwPeriod, pwDone>> /\ PwTypes'
        /\ pwReg' = [pwReg EXCEPT !.cmp = w]
        /\ pwLive' = IF pwReg.comsen THEN pwLive ELSE [pwLive EXCEPT !.cmp = w]
    BY <2>1, <2>2, PwWriteAt
  <2> QED BY <2>3 DEF w
<1>4. /\ pwReg'.cmp = 0
      /\ pwReg'.car = pwReg.car
      /\ pwReg'.arse = pwReg.arse
      /\ pwReg'.comsen = pwReg.comsen
      /\ pwReg'.en = pwReg.en
      /\ pwReg'.cen = pwReg.cen
      /\ pwLive'.cmp = pwLive.cmp /\ pwLive'.cnt = pwLive.cnt
  BY <1>2, <1>3 DEF PwRegs, PwWritten
<1>5. pwCode' = PwLeft(5, pwSelf'.period) /\ PwWritten(5)' /\ pwSelf'.period > 0
  BY <1>1, <1>3, <1>4 DEF PwWritten
<1>6. PwCodeInv'
  BY <1>5 DEF PwCodeInv
<1>7. PwCountInv'
  BY <1>3, <1>4, PwWriteFrame DEF PwIInv, PwCountInv, PwWritten
<1> QED BY <1>3, <1>6, <1>7, PwWriteFrame DEF PwIInv

\* The write of en.
LEMMA PwWrite5 ==
  ASSUME PwIInv, PwWrite, pwSelf.period > 0, pwCode = PwLeft(5, pwSelf.period), PwWritten(5)
  PROVE  PwIInv'
<1>1. pwCode[1].reg = "en" /\ pwCode[1].value = TRUE /\ Tail(pwCode) = PwLeft(6, pwSelf.period)
  <2>1. pwCode[1] = PwOn("en") /\ Tail(pwCode) = PwLeft(6, pwSelf.period)
    BY PwSuffix
  <2>2. PwOn("en").reg = "en" /\ PwOn("en").value = TRUE
    BY PwWordsOf
  <2> QED BY <2>1, <2>2
<1>2. pwSelf.period \in 1..PwMaxCar /\ pwReg \in PwRegs
      /\ pwLive \in [car : 1..PwMaxCar, cmp : 0..PwMaxCar, cnt : 0..PwMaxCar]
  BY DEF PwIInv, PwTypes
<1>3. /\ pwCode' = Tail(pwCode) /\ UNCHANGED <<pwSelf, pwPeriod, pwDone>> /\ PwTypes'
      /\ pwReg' = [pwReg EXCEPT !.en = TRUE] /\ pwLive' = pwLive
  BY <1>1, <1>2, PwWriteAt
<1>4. /\ pwReg'.en = TRUE
      /\ pwReg'.car = pwReg.car
      /\ pwReg'.cmp = pwReg.cmp
      /\ pwReg'.arse = pwReg.arse
      /\ pwReg'.comsen = pwReg.comsen
      /\ pwReg'.cen = pwReg.cen
      /\ pwLive'.cmp = pwLive.cmp /\ pwLive'.cnt = pwLive.cnt
  BY <1>2, <1>3 DEF PwRegs, PwWritten
<1>5. pwCode' = PwLeft(6, pwSelf'.period) /\ PwWritten(6)' /\ pwSelf'.period > 0
  BY <1>1, <1>3, <1>4 DEF PwWritten
<1>6. PwCodeInv'
  BY <1>5 DEF PwCodeInv
<1>7. PwCountInv'
  BY <1>3, <1>4, PwWriteFrame DEF PwIInv, PwCountInv, PwWritten
<1> QED BY <1>3, <1>6, <1>7, PwWriteFrame DEF PwIInv

\* The write of cen.
LEMMA PwWrite6 ==
  ASSUME PwIInv, PwWrite, pwSelf.period > 0, pwCode = PwLeft(6, pwSelf.period), PwWritten(6)
  PROVE  PwIInv'
<1>1. pwCode[1].reg = "cen" /\ pwCode[1].value = TRUE /\ Tail(pwCode) = << >>
  <2>1. pwCode[1] = PwOn("cen") /\ Tail(pwCode) = << >>
    BY PwSuffix
  <2>2. PwOn("cen").reg = "cen" /\ PwOn("cen").value = TRUE
    BY PwWordsOf
  <2> QED BY <2>1, <2>2
<1>2. pwSelf.period \in 1..PwMaxCar /\ pwReg \in PwRegs
      /\ pwLive \in [car : 1..PwMaxCar, cmp : 0..PwMaxCar, cnt : 0..PwMaxCar]
  BY DEF PwIInv, PwTypes
<1>3. /\ pwCode' = Tail(pwCode) /\ UNCHANGED <<pwSelf, pwPeriod, pwDone>> /\ PwTypes'
      /\ pwReg' = [pwReg EXCEPT !.cen = TRUE] /\ pwLive' = pwLive
  BY <1>1, <1>2, PwWriteAt
<1>4. /\ pwReg'.cen = TRUE
      /\ pwReg'.car = pwReg.car
      /\ pwReg'.cmp = pwReg.cmp
      /\ pwReg'.arse = pwReg.arse
      /\ pwReg'.comsen = pwReg.comsen
      /\ pwReg'.en = pwReg.en
      /\ pwLive'.cmp = pwLive.cmp /\ pwLive'.cnt = pwLive.cnt
  BY <1>2, <1>3 DEF PwRegs, PwWritten
<1>5. pwCode' = << >> /\ pwReg'.cmp <= pwReg'.car /\ PwUp'
  BY <1>1, <1>2, <1>3, <1>4 DEF PwWritten, PwUp, PwRegs
<1>6. PwCodeInv'
  BY <1>5 DEF PwCodeInv
<1>7. PwCountInv'
  BY <1>3, <1>4, PwWriteFrame DEF PwIInv, PwCountInv, PwWritten
<1> QED BY <1>3, <1>6, <1>7, PwWriteFrame DEF PwIInv

\* The write of a duty.
LEMMA PwWriteDuty ==
  ASSUME PwIInv, PwWrite, pwSelf.period > 0, PwUp, NEW d \in 0..pwSelf.period, pwCode = <<To("cmp", d)>>
  PROVE  PwIInv'
<1>1. pwCode[1].reg = "cmp" /\ pwCode[1].value = d /\ Tail(pwCode) = << >>
  <2>1. pwCode[1] = To("cmp", d) /\ Tail(pwCode) = << >>
    OBVIOUS
  <2>2. To("cmp", d).reg = "cmp" /\ To("cmp", d).value = d
    BY DEF To
  <2> QED BY <2>1, <2>2
<1>2. pwSelf.period \in 1..PwMaxCar /\ pwReg \in PwRegs /\ d \in 0..PwMaxCar
  BY PwAssumption DEF PwIInv, PwTypes
<1>3. /\ pwCode' = Tail(pwCode) /\ UNCHANGED <<pwSelf, pwPeriod, pwDone>> /\ PwTypes'
      /\ pwReg' = [pwReg EXCEPT !.cmp = d] /\ pwLive' = pwLive
  BY <1>1, <1>2, PwWriteAt DEF PwUp
<1>4. /\ pwReg'.cmp = d /\ pwReg'.car = pwReg.car /\ pwReg'.arse = pwReg.arse
      /\ pwReg'.comsen = pwReg.comsen /\ pwReg'.en = pwReg.en /\ pwReg'.cen = pwReg.cen
  BY <1>2, <1>3 DEF PwRegs
<1>5. pwCode' = << >> /\ pwReg'.cmp <= pwReg'.car /\ PwUp'
  BY <1>1, <1>2, <1>3, <1>4 DEF PwUp
<1>6. PwCodeInv'
  BY <1>5 DEF PwCodeInv
<1>7. PwCountInv'
  BY <1>3, <1>4, PwWriteFrame DEF PwIInv, PwCountInv, PwUp
<1> QED BY <1>3, <1>6, <1>7, PwWriteFrame DEF PwIInv

\* The invariant holds at reset, every step keeps it, and it implies PwSafe.
LEMMA PwInitIInv == PwInit => PwIInv
<1> SUFFICES ASSUME PwInit PROVE PwIInv
  OBVIOUS
<1>1. PwTypes
  BY PwAssumption DEF PwInit, PwTypes, PwRegs
<1>2. PwCodeInv /\ PwCountInv /\ FrequencyKept
  BY PwAssumption DEF PwInit, PwCodeInv, PwCountInv, DutyWhole, FrequencyKept
<1> QED BY <1>1, <1>2 DEF PwIInv

LEMMA PwNextIInv == PwIInv /\ [PwNext]_pwVars => PwIInv'
<1> SUFFICES ASSUME PwIInv, [PwNext]_pwVars PROVE PwIInv'
  OBVIOUS
<1>1. ASSUME NEW freq \in PwFreqs, NEW general \in BOOLEAN, NEW known \in BOOLEAN, PwNew(freq, general, known)
      PROVE  PwIInv'
  BY <1>1, PwNewKeeps
<1>2. ASSUME NEW duty \in PwDuties, set_duty_cycle(duty) PROVE PwIInv'
  BY <1>2, PwDutyKeeps
<1>3. CASE PwWrite
  <2>1. ASSUME pwSelf.period > 0, NEW k \in 1..6, pwCode = PwLeft(k, pwSelf.period), PwWritten(k) PROVE PwIInv'
    <3>1. k = 1 \/ k = 2 \/ k = 3 \/ k = 4 \/ k = 5 \/ k = 6
      OBVIOUS
    <3> QED BY <1>3, <2>1, <3>1, PwWrite1, PwWrite2, PwWrite3, PwWrite4, PwWrite5, PwWrite6
  <2>2. ASSUME pwSelf.period > 0, PwUp, NEW d \in 0..pwSelf.period, pwCode = <<To("cmp", d)>> PROVE PwIInv'
    BY <1>3, <2>2, PwWriteDuty
  <2>3. pwCode # << >>
    BY <1>3 DEF PwWrite
  <2> QED BY <2>1, <2>2, <2>3 DEF PwIInv, PwCodeInv
<1>4. CASE PwCount
  BY <1>4, PwCountKeeps
<1>5. CASE UNCHANGED pwVars
  BY <1>5 DEF pwVars, PwIInv, PwTypes, PwCodeInv, PwWritten, PwUp, PwCountInv, DutyWhole, FrequencyKept
<1> QED BY <1>1, <1>2, <1>3, <1>4, <1>5 DEF PwNext

LEMMA PwIInvSafe == PwIInv => PwSafe
<1> SUFFICES ASSUME PwIInv PROVE PwSafe
  OBVIOUS
<1>1. pwCode = << >> => pwReg.cmp <= pwReg.car
  <2>1. \A k \in 1..6 : PwLeft(k, pwSelf.period) # << >>
    BY PwSuffix
  <2>2. pwSelf.period > 0 /\ PwUp => \A d : <<To("cmp", d)>> # << >>
    OBVIOUS
  <2> QED BY <2>1, <2>2 DEF PwIInv, PwCodeInv
<1>2. PwTypeOK
  BY <1>1 DEF PwIInv, PwTypes, PwRegs, PwTypeOK
<1> QED BY <1>2 DEF PwIInv, PwCountInv, PwSafe

\* For every clock, period register, frequency and duty, whatever is set while the
\* counter runs: a finished period showed the duty that stood as it began, and the
\* period is the frequency asked for (pwm.rs).
THEOREM PwmSafety == PwSpec => []PwSafe
<1> QED BY PwInitIInv, PwNextIInv, PwIInvSafe, PTL DEF PwSpec

---------------------------------------------------------------------------
(* The time base and delays (Ticks).                                      *)

\* The shapes of the state.
TkSystSet == [reload : 0..TkReloadMax, cur : 0..TkReloadMax, on : BOOLEAN, int : BOOLEAN, flag : BOOLEAN]
TkWaitSet == [left : Nat, chunk : 0..TkReloadMax, asked : Nat, ran : Nat]
TkTypes ==
  /\ tkOwner \in {"free", "delay", "timebase", "lost"}
  /\ tkSyst \in TkSystSet
  /\ tkWait \in TkWaitSet
  /\ tkIrq \in [pend : BOOLEAN, late : 0..2]
  /\ tkAsked \in Nat

\* The cycles the running delay has still to spin, but for those of its chunk.
TkNeed == Ceil(tkWait.asked * TkHz, TkUnit)

\* What has been spun: the chunks that are over, and of the present one what
\* the counter has come down.
TkSpun ==
  IF tkWait.chunk = 0 THEN 0
  ELSE IF tkSyst.flag THEN tkWait.chunk
  ELSE IF tkSyst.cur = 0 THEN 0 ELSE tkWait.chunk - tkSyst.cur
TkWaitInv ==
  /\ tkWait.chunk <= tkWait.left /\ tkWait.left <= TkNeed
  /\ tkWait.left > 0 => tkOwner = "delay"
  /\ tkWait.chunk > 0 => tkSyst.reload = tkWait.chunk - 1 /\ tkSyst.cur < tkWait.chunk
  /\ tkWait.ran <= TkNeed
  /\ tkWait.ran + tkWait.left >= TkNeed + TkSpun

\* A tick that comes after the stop was pending before it.
TkTickInv ==
  /\ tkSyst.int => tkOwner = "timebase"
  /\ tkSyst.int => tkIrq.late = 0
  /\ tkIrq.late = 0 \/ (tkIrq.late = 1 /\ ~tkIrq.pend)

TkIInv == TkTypes /\ TkWaitInv /\ TkTickInv /\ TickRateKept
---------------------------------------------------------------------------
\* The cycles of a duration are enough for it.
LEMMA TkCeil ==
  ASSUME NEW a \in Nat, NEW b \in Nat, b > 0
  PROVE  Ceil(a, b) \in Nat /\ a <= Ceil(a, b) * b
<1>1. a + b - 1 \in Nat
  OBVIOUS
<1> DEFINE c == a + b - 1  q == c \div b
<1>2. q \in Nat /\ q * b <= c /\ c < q * b + b
  <2>1. c \in Nat
    BY <1>1
  <2> HIDE DEF c
  <2>2. \A x, y \in Nat : y > 0 => x \div y \in Nat /\ (x \div y) * y <= x /\ x < (x \div y) * y + y
    BY PwDivides
  <2> QED BY <2>1, <2>2, Zenon
<1>3. Ceil(a, b) = q
  BY DEF Ceil
<1> HIDE DEF q
<1>4. q * b \in Nat
  BY <1>2
<1> DEFINE m == q * b
<1> HIDE DEF m
<1>5. a <= m
  BY <1>2, <1>4 DEF m
<1> QED BY <1>2, <1>3, <1>5 DEF m

\* The cycles of the running delay.
LEMMA TkNeedNat ==
  ASSUME TkTypes
  PROVE  TkNeed \in Nat /\ tkWait.asked * TkHz <= TkNeed * TkUnit
<1>1. tkWait.asked \in Nat /\ TkHz \in Nat /\ TkUnit \in Nat /\ TkUnit > 0
  BY TkAssumption DEF TkTypes, TkSystSet, TkWaitSet
<1> DEFINE a == tkWait.asked * TkHz
<1>2. a \in Nat
  BY <1>1
<1> HIDE DEF a
<1>3. Ceil(a, TkUnit) \in Nat /\ a <= Ceil(a, TkUnit) * TkUnit
  BY <1>1, <1>2, TkCeil
<1> QED BY <1>3 DEF TkNeed, a

\* The reload of a rate that is not refused keeps it.
LEMMA TkReloadFor ==
  ASSUME NEW rate \in Nat, NEW r \in reload_for(rate)
  PROVE  /\ r \in 0..TkReloadMax /\ (r + 1) * rate <= TkHz /\ TkHz < (r + 2) * rate
         /\ r = 0 => 2 * rate > TkHz
<1>1. TkHz \in Nat /\ TkReloadMax \in Nat /\ rate > 0 /\ rate <= TkHz
  BY TkAssumption DEF reload_for
<1> DEFINE q == TkHz \div rate
<1>2. q \in Nat /\ q * rate <= TkHz /\ TkHz < q * rate + rate
  <2>1. \A x, y \in Nat : y > 0 => x \div y \in Nat /\ (x \div y) * y <= x /\ x < (x \div y) * y + y
    BY PwDivides
  <2> QED BY <1>1, <2>1, Zenon
<1>3. r = q - 1 /\ r <= TkReloadMax
  BY <1>1 DEF reload_for
<1>0. q \in Nat
  BY <1>2
<1> HIDE DEF q
<1>4. q # 0
  BY <1>1, <1>2
<1>5. r \in Nat /\ r + 1 = q /\ r + 2 = q + 1
  BY <1>0, <1>3, <1>4
<1>6. (q + 1) * rate = q * rate + rate
  BY <1>0, PwTimes
<1>7. (r + 1) * rate <= TkHz /\ TkHz < (r + 2) * rate
  BY <1>2, <1>5, <1>6
<1>8. r = 0 => 2 * rate > TkHz
  BY <1>7
<1>9. r \in 0..TkReloadMax
  BY <1>1, <1>3, <1>5
<1> QED BY <1>7, <1>8, <1>9

\* Calls that leave the running delay and the counter's width alone.
LEMMA TkWaitSame ==
  ASSUME TkIInv, tkWait' = tkWait, tkWait.left = 0, TkTypes'
  PROVE  TkWaitInv'
<1>1. tkWait.chunk = 0 /\ tkWait'.chunk = 0 /\ tkWait'.left = 0
  BY DEF TkIInv, TkWaitInv, TkTypes, TkSystSet, TkWaitSet
<1>2. TkNeed' = TkNeed
  BY DEF TkNeed
<1> QED BY <1>1, <1>2 DEF TkIInv, TkWaitInv, TkSpun

LEMMA TkNewKeeps ==
  ASSUME TkIInv, NEW rate \in TkRates, TimebaseNew(rate)
  PROVE  TkIInv'
<1>1. tkOwner = "free" /\ tkWait' = tkWait /\ tkWait.left = 0
  BY DEF TimebaseNew, TkCalled
<1>2. CASE reload_for(rate) = {}
  <2>1. tkOwner' = "lost" /\ UNCHANGED <<tkSyst, tkAsked, tkIrq>>
    BY <1>2 DEF TimebaseNew
  <2>2. TkTypes'
    BY <1>1, <2>1 DEF TkIInv, TkTypes, TkSystSet, TkWaitSet
  <2>3. TkTickInv' /\ TickRateKept'
    BY <1>1, <2>1 DEF TkIInv, TkTickInv, TickRateKept
  <2> QED BY <1>1, <2>2, <2>3, TkWaitSame DEF TkIInv
<1>3. CASE reload_for(rate) # {}
  <2>1. PICK r \in reload_for(rate) : tkSyst' = Started([tkSyst EXCEPT !.reload = r])
    BY <1>3 DEF TimebaseNew
  <2>2. tkOwner' = "timebase" /\ tkAsked' = rate /\ tkIrq' = [tkIrq EXCEPT !.late = 0] /\ rate \in Nat
    BY <1>3, TkAssumption DEF TimebaseNew
  <2>3. r \in 0..TkReloadMax /\ (r + 1) * rate <= TkHz /\ TkHz < (r + 2) * rate /\ (r = 0 => 2 * rate > TkHz)
    BY <2>2, TkReloadFor
  <2>4. /\ tkSyst' \in TkSystSet
        /\ tkSyst'.reload = r /\ tkSyst'.int
    <3>1. tkSyst \in TkSystSet /\ 0 \in 0..TkReloadMax
      BY TkAssumption DEF TkIInv, TkTypes
    <3> DEFINE t == [tkSyst EXCEPT !.reload = r]
    <3>2. t \in TkSystSet /\ t.reload = r
      BY <2>3, <3>1 DEF TkSystSet
    <3>3. tkSyst' = [t EXCEPT !.cur = 0, !.flag = FALSE, !.int = TRUE, !.on = TRUE]
      BY <2>1 DEF Started
    <3> HIDE DEF t
    <3> QED BY <3>1, <3>2, <3>3 DEF TkSystSet
  <2>5. tkIrq' \in [pend : BOOLEAN, late : 0..2] /\ tkIrq'.late = 0
    BY <2>2 DEF TkIInv, TkTypes, TkSystSet, TkWaitSet
  <2>6. TkTypes'
    BY <1>1, <2>2, <2>4, <2>5 DEF TkIInv, TkTypes, TkSystSet, TkWaitSet
  <2>7. TkTickInv' /\ TickRateKept'
    BY <2>2, <2>3, <2>4, <2>5 DEF TkTickInv, TickRateKept
  <2> QED BY <1>1, <2>6, <2>7, TkWaitSame DEF TkIInv
<1> QED BY <1>2, <1>3

LEMMA TkStartKeeps ==
  ASSUME TkIInv, TimebaseStart
  PROVE  TkIInv'
<1>1. /\ tkOwner = "timebase" /\ tkWait' = tkWait /\ tkWait.left = 0 /\ tkOwner' = tkOwner /\ tkAsked' = tkAsked
      /\ tkSyst' = Started(tkSyst) /\ tkIrq' = [tkIrq EXCEPT !.late = 0]
  BY DEF TimebaseStart, TkCalled
<1>2. /\ tkSyst' \in TkSystSet
      /\ tkSyst'.reload = tkSyst.reload
  <2>1. tkSyst \in TkSystSet /\ 0 \in 0..TkReloadMax
    BY TkAssumption DEF TkIInv, TkTypes
  <2>2. tkSyst' = [tkSyst EXCEPT !.cur = 0, !.flag = FALSE, !.int = TRUE, !.on = TRUE]
    BY <1>1 DEF Started
  <2> QED BY <2>1, <2>2 DEF TkSystSet
<1>3. tkIrq' \in [pend : BOOLEAN, late : 0..2] /\ tkIrq'.late = 0
  BY <1>1 DEF TkIInv, TkTypes, TkSystSet, TkWaitSet
<1>4. TkTypes'
  BY <1>1, <1>2, <1>3 DEF TkIInv, TkTypes, TkSystSet, TkWaitSet
<1>5. TkTickInv' /\ TickRateKept'
  BY <1>1, <1>2, <1>3 DEF TkIInv, TkTickInv, TickRateKept
<1> QED BY <1>1, <1>4, <1>5, TkWaitSame DEF TkIInv

LEMMA TkStopKeeps ==
  ASSUME TkIInv, NEW free \in BOOLEAN, TimebaseStop(free)
  PROVE  TkIInv'
<1>1. /\ tkWait' = tkWait /\ tkWait.left = 0 /\ tkAsked' = tkAsked /\ tkIrq' = tkIrq
      /\ tkSyst' = Stopped(tkSyst) /\ tkOwner' \in {"free", "timebase"} /\ tkOwner = "timebase"
  BY DEF TimebaseStop, TkCalled
<1>2. /\ tkSyst' \in TkSystSet
      /\ tkSyst'.reload = tkSyst.reload /\ ~tkSyst'.int
  BY <1>1 DEF Stopped, TkIInv, TkTypes, TkSystSet, TkWaitSet
<1>4. TkTypes'
  BY <1>1, <1>2 DEF TkIInv, TkTypes, TkSystSet, TkWaitSet
<1>5. TkTickInv' /\ TickRateKept'
  BY <1>1, <1>2 DEF TkIInv, TkTickInv, TickRateKept
<1> QED BY <1>1, <1>4, <1>5, TkWaitSame DEF TkIInv

LEMMA TkSystickKeeps ==
  ASSUME TkIInv, on_systick
  PROVE  TkIInv'
<1>1. /\ tkIrq.pend /\ UNCHANGED <<tkOwner, tkSyst, tkWait, tkAsked>>
      /\ tkIrq' = [pend |-> FALSE, late |-> IF tkSyst.int /\ tkOwner = "timebase" THEN 0 ELSE IF tkIrq.late = 0 THEN 1 ELSE 2]
  BY DEF on_systick
<1>2. TkTypes'
  BY <1>1 DEF TkIInv, TkTypes, TkSystSet, TkWaitSet
<1>3. TkWaitInv' /\ TickRateKept'
  BY <1>1 DEF TkIInv, TkWaitInv, TkSpun, TkNeed, TickRateKept
<1>4. TkTickInv'
  BY <1>1 DEF TkIInv, TkTickInv
<1> QED BY <1>2, <1>3, <1>4 DEF TkIInv

LEMMA TkDelayKeeps ==
  ASSUME TkIInv, DelayNew \/ DelayFree
  PROVE  TkIInv'
<1>1. /\ UNCHANGED <<tkSyst, tkWait, tkIrq, tkAsked>> /\ tkWait.left = 0
      /\ tkOwner \in {"free", "delay"} /\ tkOwner' \in {"free", "delay"}
  BY DEF DelayNew, DelayFree, TkCalled
<1>2. TkTypes'
  BY <1>1 DEF TkIInv, TkTypes, TkSystSet, TkWaitSet
<1>3. TkTickInv' /\ TickRateKept'
  BY <1>1 DEF TkIInv, TkTickInv, TickRateKept
<1> QED BY <1>1, <1>2, <1>3, TkWaitSame DEF TkIInv

LEMMA TkCallKeeps ==
  ASSUME TkIInv, NEW duration \in TkDurations, DelayCall(duration)
  PROVE  TkIInv'
<1>1. /\ tkOwner = "delay" /\ UNCHANGED <<tkOwner, tkSyst, tkIrq, tkAsked>>
      /\ tkWait' = [left |-> cycles_for_ns(duration), chunk |-> 0, asked |-> duration, ran |-> 0]
  BY DEF DelayCall, NoWait
<1>2. duration \in Nat /\ cycles_for_ns(duration) \in Nat
  <2>1. duration \in Nat /\ TkHz \in Nat /\ TkUnit \in Nat /\ TkUnit > 0
    BY TkAssumption
  <2>2. duration * TkHz \in Nat
    BY <2>1
  <2> QED BY <2>1, <2>2, TkCeil DEF cycles_for_ns
<1>3. TkTypes'
  BY <1>1, <1>2, TkAssumption DEF TkIInv, TkTypes, TkSystSet, TkWaitSet
<1>4. TkNeed' = tkWait'.left /\ tkWait'.chunk = 0 /\ tkWait'.ran = 0
  BY <1>1 DEF TkNeed, cycles_for_ns
<1>5. TkWaitInv'
  <2>1. tkWait'.left \in Nat
    BY <1>1, <1>2
  <2> QED BY <1>1, <1>4, <2>1 DEF TkWaitInv, TkSpun
<1>6. TkTickInv' /\ TickRateKept'
  BY <1>1 DEF TkIInv, TkTickInv, TickRateKept
<1> QED BY <1>3, <1>5, <1>6 DEF TkIInv

LEMMA TkChunkKeeps ==
  ASSUME TkIInv, ChunkBegin
  PROVE  TkIInv'
<1> DEFINE c == ChunkOf(tkWait.left)
<1>1. /\ tkWait.left > 0 /\ tkWait.chunk = 0 /\ UNCHANGED <<tkOwner, tkIrq, tkAsked>>
      /\ tkWait' = [tkWait EXCEPT !.chunk = c]
      /\ tkSyst' = [tkSyst EXCEPT !.reload = c - 1, !.cur = 0, !.flag = FALSE, !.on = TRUE]
  BY DEF ChunkBegin, ChunkReload
<1>2. tkWait.left \in Nat /\ TkReloadMax \in Nat /\ TkReloadMax > 0
  BY TkAssumption DEF TkIInv, TkTypes, TkSystSet, TkWaitSet
<1>3. c \in 1..TkReloadMax /\ c <= tkWait.left
  BY <1>1, <1>2 DEF ChunkOf
<1> HIDE DEF c
<1>4. /\ tkWait' \in TkWaitSet
      /\ tkWait'.left = tkWait.left /\ tkWait'.chunk = c /\ tkWait'.asked = tkWait.asked /\ tkWait'.ran = tkWait.ran
  BY <1>1, <1>3 DEF TkIInv, TkTypes, TkSystSet, TkWaitSet
<1>5. /\ tkSyst' \in TkSystSet
      /\ tkSyst'.reload = c - 1 /\ tkSyst'.cur = 0 /\ ~tkSyst'.flag /\ tkSyst'.int = tkSyst.int
  <2>1. tkSyst \in TkSystSet /\ c - 1 \in 0..TkReloadMax /\ 0 \in 0..TkReloadMax
    BY <1>2, <1>3 DEF TkIInv, TkTypes
  <2> QED BY <1>1, <2>1 DEF TkSystSet
<1>6. TkTypes'
  BY <1>1, <1>4, <1>5 DEF TkIInv, TkTypes, TkSystSet, TkWaitSet
<1>7. TkNeed' = TkNeed
  BY <1>4 DEF TkNeed
<1>8. TkSpun = 0 /\ TkSpun' = 0
  BY <1>1, <1>3, <1>4, <1>5 DEF TkSpun
<1>9. TkWaitInv'
  BY <1>1, <1>3, <1>4, <1>5, <1>7, <1>8 DEF TkIInv, TkWaitInv
<1>10. tkOwner = "delay"
  BY <1>1 DEF TkIInv, TkWaitInv
<1>11. TkTickInv' /\ TickRateKept'
  BY <1>1, <1>5, <1>10 DEF TkIInv, TkTickInv, TickRateKept
<1> QED BY <1>6, <1>9, <1>11 DEF TkIInv

LEMMA TkEndKeeps ==
  ASSUME TkIInv, ChunkEnd
  PROVE  TkIInv'
<1>1. /\ tkWait.chunk > 0 /\ tkSyst.flag /\ UNCHANGED <<tkOwner, tkIrq, tkAsked>>
      /\ tkSyst' = [tkSyst EXCEPT !.flag = FALSE, !.on = FALSE]
      /\ tkWait' = [tkWait EXCEPT !.left = @ - tkWait.chunk, !.chunk = 0]
  BY DEF ChunkEnd
<1>2. /\ tkWait.left \in Nat /\ tkWait.chunk \in Nat /\ tkWait.chunk <= tkWait.left /\ tkWait.ran \in Nat /\ TkNeed \in Nat
      /\ TkReloadMax \in Nat /\ tkOwner = "delay"
  BY <1>1, TkNeedNat, TkAssumption DEF TkIInv, TkWaitInv, TkTypes, TkSystSet, TkWaitSet
<1>3. /\ tkWait' \in TkWaitSet
      /\ tkWait'.left = tkWait.left - tkWait.chunk /\ tkWait'.chunk = 0
      /\ tkWait'.asked = tkWait.asked /\ tkWait'.ran = tkWait.ran
  <2>1. tkWait \in TkWaitSet /\ tkWait.left - tkWait.chunk \in Nat /\ 0 \in 0..TkReloadMax
    BY <1>2 DEF TkIInv, TkTypes
  <2> DEFINE n == tkWait.left - tkWait.chunk
  <2>2. tkWait' = [tkWait EXCEPT !.left = n, !.chunk = 0]
    BY <1>1
  <2>3. n \in Nat
    BY <2>1
  <2> HIDE DEF n
  <2>4. tkWait' \in TkWaitSet /\ tkWait'.left = n /\ tkWait'.chunk = 0
        /\ tkWait'.asked = tkWait.asked /\ tkWait'.ran = tkWait.ran
    BY <2>1, <2>2, <2>3 DEF TkWaitSet
  <2> QED BY <2>4 DEF n
<1>4. /\ tkSyst' \in TkSystSet
      /\ tkSyst'.reload = tkSyst.reload /\ tkSyst'.int = tkSyst.int
  BY <1>1 DEF TkIInv, TkTypes, TkSystSet, TkWaitSet
<1>5. TkTypes'
  BY <1>1, <1>3, <1>4 DEF TkIInv, TkTypes, TkSystSet, TkWaitSet
<1>6. TkNeed' = TkNeed /\ TkSpun = tkWait.chunk /\ TkSpun' = 0
  BY <1>1, <1>3 DEF TkNeed, TkSpun
<1>7. TkWaitInv'
  BY <1>1, <1>2, <1>3, <1>4, <1>6 DEF TkIInv, TkWaitInv
<1>8. TkTickInv' /\ TickRateKept'
  BY <1>1, <1>2, <1>4 DEF TkIInv, TkTickInv, TickRateKept
<1> QED BY <1>5, <1>7, <1>8 DEF TkIInv

LEMMA TkCountKeeps ==
  ASSUME TkIInv, Count
  PROVE  TkIInv'
<1>1. /\ UNCHANGED <<tkOwner, tkAsked>>
      /\ tkSyst' = [tkSyst EXCEPT !.cur = IF @ = 0 THEN tkSyst.reload ELSE @ - 1, !.flag = @ \/ tkSyst.cur = 1]
      /\ tkIrq' = [tkIrq EXCEPT !.pend = @ \/ (tkSyst.cur = 1 /\ tkSyst.int)]
      /\ tkWait' = [tkWait EXCEPT !.ran = IF tkWait.chunk > 0 /\ @ < TkNeed THEN @ + 1 ELSE @]
  BY DEF Count, TkNeed
<1>2. TkNeed \in Nat /\ TkReloadMax \in Nat /\ tkWait.ran \in Nat /\ tkWait.left \in Nat /\ tkWait.chunk \in Nat
  BY TkNeedNat, TkAssumption DEF TkIInv, TkTypes, TkSystSet, TkWaitSet
<1>3. /\ tkSyst' \in TkSystSet
      /\ tkSyst'.reload = tkSyst.reload /\ tkSyst'.int = tkSyst.int
      /\ tkSyst'.cur = IF tkSyst.cur = 0 THEN tkSyst.reload ELSE tkSyst.cur - 1
      /\ tkSyst'.flag <=> tkSyst.flag \/ tkSyst.cur = 1
  <2> DEFINE d == IF tkSyst.cur = 0 THEN tkSyst.reload ELSE tkSyst.cur - 1
             f == tkSyst.flag \/ tkSyst.cur = 1
  <2>1. tkSyst \in TkSystSet
    BY DEF TkIInv, TkTypes
  <2>2. tkSyst' = [tkSyst EXCEPT !.cur = d, !.flag = f]
    BY <1>1
  <2>3. d \in 0..TkReloadMax
    BY <1>2, <2>1 DEF TkSystSet
  <2>4. f \in BOOLEAN
    OBVIOUS
  <2> HIDE DEF d, f
  <2>5. tkSyst' \in TkSystSet /\ tkSyst'.reload = tkSyst.reload /\ tkSyst'.int = tkSyst.int /\ tkSyst'.cur = d
    BY <2>1, <2>2, <2>3, <2>4 DEF TkSystSet
  <2>6. tkSyst'.flag = f
    BY <2>1, <2>2 DEF TkSystSet
  <2> QED BY <2>5, <2>6 DEF d, f
<1>4. /\ tkIrq' \in [pend : BOOLEAN, late : 0..2] /\ tkIrq'.late = tkIrq.late
      /\ ~tkSyst.int => tkIrq'.pend = tkIrq.pend
  BY <1>1 DEF TkIInv, TkTypes, TkSystSet, TkWaitSet
<1>5. /\ tkWait' \in TkWaitSet
      /\ tkWait'.left = tkWait.left /\ tkWait'.chunk = tkWait.chunk /\ tkWait'.asked = tkWait.asked
      /\ tkWait'.ran = IF tkWait.chunk > 0 /\ tkWait.ran < TkNeed THEN tkWait.ran + 1 ELSE tkWait.ran
  BY <1>1, <1>2 DEF TkIInv, TkTypes, TkSystSet, TkWaitSet
<1>6. TkTypes'
  BY <1>1, <1>3, <1>4, <1>5 DEF TkIInv, TkTypes, TkSystSet, TkWaitSet
<1>7. TkNeed' = TkNeed
  BY <1>5 DEF TkNeed
<1>8. tkSyst.cur \in Nat /\ tkSyst.reload \in Nat
  BY <1>2 DEF TkIInv, TkTypes, TkSystSet, TkWaitSet
<1>9. TkWaitInv'
  <2>1. CASE tkWait.chunk = 0
    <3>1. TkSpun = 0 /\ TkSpun' = 0
      BY <1>5, <2>1 DEF TkSpun
    <3> QED BY <1>1, <1>2, <1>5, <1>7, <2>1, <3>1 DEF TkIInv, TkWaitInv
  <2>2. CASE tkWait.chunk > 0
    <3>1. tkSyst.reload = tkWait.chunk - 1 /\ tkSyst.cur < tkWait.chunk
      BY <2>2 DEF TkIInv, TkWaitInv
    <3>2. tkSyst'.cur \in Nat /\ tkSyst'.cur < tkWait.chunk
      BY <1>3, <1>8, <1>2, <2>2, <3>1
    <3>3. TkSpun \in Nat /\ TkSpun' \in Nat /\ TkSpun' <= TkSpun + 1 /\ TkSpun' <= tkWait.chunk
      BY <1>2, <1>3, <1>5, <1>8, <2>2, <3>1, <3>2 DEF TkSpun
    <3>4. tkWait.ran <= TkNeed /\ tkWait.ran + tkWait.left >= TkNeed + TkSpun /\ tkWait.chunk <= tkWait.left
      BY DEF TkIInv, TkWaitInv
    <3>5. tkWait'.ran <= TkNeed /\ tkWait'.ran + tkWait.left >= TkNeed + TkSpun'
      BY <1>2, <1>5, <2>2, <3>3, <3>4
    <3> QED BY <1>1, <1>3, <1>5, <1>7, <3>1, <3>2, <3>5 DEF TkIInv, TkWaitInv
  <2> QED BY <1>2, <2>1, <2>2
<1>10. TkTickInv' /\ TickRateKept'
  BY <1>1, <1>3, <1>4 DEF TkIInv, TkTickInv, TickRateKept
<1> QED BY <1>6, <1>9, <1>10 DEF TkIInv

\* The invariant holds at reset, every step keeps it, and it implies TkSafe.
LEMMA TkInitIInv == TkInit => TkIInv
<1> SUFFICES ASSUME TkInit PROVE TkIInv
  OBVIOUS
<1>1. TkTypes
  BY TkAssumption DEF TkInit, TkTypes, TkSystSet, TkWaitSet, NoWait
<1>2. TkNeed = 0
  <2>1. Ceil(0, TkUnit) = 0
    <3>1. TkUnit \in Nat /\ TkUnit > 0
      BY TkAssumption
    <3>2. 0 + TkUnit - 1 = TkUnit - 1 /\ (TkUnit - 1) \div TkUnit = 0
      BY <3>1
    <3> QED BY <3>2 DEF Ceil
  <2>2. tkWait.asked * TkHz = 0
    BY TkAssumption DEF TkInit, NoWait
  <2> QED BY <2>1, <2>2 DEF TkNeed
<1>3. TkWaitInv /\ TkTickInv /\ TickRateKept
  BY <1>2 DEF TkInit, TkWaitInv, TkSpun, NoWait, TkTickInv, TickRateKept
<1> QED BY <1>1, <1>3 DEF TkIInv

LEMMA TkNextIInv == TkIInv /\ [TkNext]_tkVars => TkIInv'
<1> SUFFICES ASSUME TkIInv, [TkNext]_tkVars PROVE TkIInv'
  OBVIOUS
<1>1. CASE UNCHANGED tkVars
  BY <1>1 DEF tkVars, TkIInv, TkTypes, TkWaitInv, TkSpun, TkNeed, TkTickInv, TickRateKept
<1> QED BY <1>1, TkNewKeeps, TkStartKeeps, TkStopKeeps, TkSystickKeeps, TkDelayKeeps, TkCallKeeps, TkChunkKeeps,
           TkEndKeeps, TkCountKeeps DEF TkNext

LEMMA TkIInvSafe == TkIInv => TkSafe
<1> SUFFICES ASSUME TkIInv PROVE TkSafe
  OBVIOUS
<1>1. TkTypeOK
  BY DEF TkIInv, TkTypes, TkSystSet, TkWaitSet, TkTypeOK
<1>2. DelayNotShort
  <2>1. SUFFICES ASSUME tkWait.left = 0 PROVE tkWait.ran * TkUnit >= tkWait.asked * TkHz
    BY DEF DelayNotShort
  <2>2. TkNeed \in Nat /\ tkWait.asked * TkHz <= TkNeed * TkUnit /\ tkWait.ran \in Nat
    BY TkNeedNat DEF TkIInv, TkTypes, TkSystSet, TkWaitSet
  <2>3. TkSpun = 0
    <3>1. tkWait.chunk = 0
      BY <2>1 DEF TkIInv, TkWaitInv, TkTypes, TkSystSet, TkWaitSet
    <3> QED BY <3>1 DEF TkSpun
  <2>4. tkWait.ran = TkNeed
    BY <2>1, <2>2, <2>3 DEF TkIInv, TkWaitInv
  <2>5. tkWait.asked * TkHz \in Nat /\ TkNeed * TkUnit \in Nat
    BY <2>2, TkAssumption DEF TkIInv, TkTypes, TkSystSet, TkWaitSet
  <2> QED BY <2>2, <2>4, <2>5
<1>3. OnlyOneCycleHangs
  BY DEF TkIInv, TkWaitInv, TkTypes, TkSystSet, TkWaitSet, OnlyOneCycleHangs
<1>4. StopsTicking /\ TickRateKept
  BY DEF TkIInv, TkTickInv, StopsTicking
<1> QED BY <1>1, <1>2, <1>3, <1>4 DEF TkSafe

\* For every clock, reload width, duration and rate: a delay is never short, hangs
\* only on a last chunk of one cycle, a timebase ticks at its rate, and one that was
\* stopped ticks at most once more (delay.rs, timebase.rs).
THEOREM TicksSafety == TkSpec => []TkSafe
<1> QED BY TkInitIInv, TkNextIInv, TkIInvSafe, PTL DEF TkSpec

---------------------------------------------------------------------------
(* The SPI master (Spi).                                                  *)

\* The shapes of the state.
SpHwSet == [tx : Nat, shift : Nat, rx : Nat, overrun : BOOLEAN, fault : BOOLEAN, seen : BOOLEAN]
SpRegSet == [whole : BOOLEAN, i2s : BOOLEAN, spien : BOOLEAN, nss : {"Software", "Hardware"}, psc : 0..7]
SpKinds == {"read", "write", "transfer", "transfer_in_place"}
SpCallSet == [kind : SpKinds \cup {"none"}, left : Nat, got : Seq(Nat), sent : Seq(Nat), polls : 0..SpPolls,
              result : {"none", "Ok", "running", "ModeFault", "Overrun", "Other"}, faulted : BOOLEAN]
SpHistSet == [sent : Nat, bringUps : Nat, failed : BOOLEAN, overruns : Nat]
SpTypes ==
  /\ spCall \in SpCallSet /\ spReg \in SpRegSet /\ spHw \in SpHwSet /\ spHist \in SpHistSet
  /\ spHist.bringUps > 0 => spAsk \in [bus : SpBuses, target : SpTargets, nss : {"Software", "Hardware"}]

\* Where a call is: at a write of the bring-up, at a step of a word, or over.
SpAt(k) ==
  IF k = "ctl0" THEN <<"ctl0", "i2ssel", "enable">>
  ELSE IF k = "i2ssel" THEN <<"i2ssel", "enable">>
  ELSE IF k = "enable" THEN <<"enable">>
  ELSE IF k = "TBE" THEN <<"TBE", "transmit", "RBNE", "receive">>
  ELSE IF k = "transmit" THEN <<"transmit", "RBNE", "receive">>
  ELSE IF k = "RBNE" THEN <<"RBNE", "receive">>
  ELSE IF k = "receive" THEN <<"receive">>
  ELSE << >>
SpBringing == {"ctl0", "i2ssel", "enable"}
SpWord == {"TBE", "transmit", "RBNE", "receive"}
SpPlaces == SpBringing \cup SpWord \cup {"idle"}

\* What the bring-up has written by then.
SpDone(k) ==
  /\ k \in SpBringing \cup SpWord => spHist.bringUps > 0
  /\ k \in {"i2ssel", "enable"} => spReg.whole
  /\ k = "enable" => ~spReg.i2s
  /\ k # "ctl0" /\ spHist.bringUps > 0 =>
       spReg.psc = prescaler_for(spi_input_clock(spAsk.bus), spAsk.target)
\* The words a call is still due, its budget, and room for its word.
SpDue(k) ==
  /\ k \in SpWord <=> spCall.result = "running"
  /\ k \in SpWord => spCall.left > 0 /\ spCall.polls > 0
  /\ k \in {"TBE", "transmit"} => spHist.sent + spCall.left <= SpWords
  /\ k \in {"RBNE", "receive"} => spHist.sent + spCall.left <= SpWords + 1 /\ spHist.sent > 0
  /\ spHist.sent <= SpWords
\* While no call has failed: where the one word under way is, and that a call
\* begun under a fault gets no answer.
SpStep(k) ==
  ~spHist.failed =>
    /\ k \notin {"RBNE", "receive"} => /\ spHw.tx = 0 /\ spHw.shift = 0 /\ spHw.rx = 0
                                       /\ Len(spCall.sent) = Len(spCall.got)
    /\ k \in {"RBNE", "receive"} =>
         /\ Len(spCall.sent) = Len(spCall.got) + 1 /\ spCall.sent[Len(spCall.sent)] = spHist.sent
         /\ spHw.shift \in {0, spHist.sent} /\ spHw.tx \in {0, spHist.sent} /\ spHw.rx \in {0, spHist.sent}
         /\ spHw.tx # 0 => spHw.shift = 0
         /\ spHw.rx # 0 => spHw.tx = 0 /\ spHw.shift = 0
    /\ k = "receive" => spHw.rx = spHist.sent
    /\ spCall.faulted /\ k \in SpWord => spCall.got = << >> /\ spHw.shift = 0 /\ spHw.rx = 0
SpCodeInv == \E k \in SpPlaces : spCode = SpAt(k) /\ SpDone(k) /\ SpDue(k) /\ SpStep(k)

\* The block: no word but those sent, enabled only whole and without a fault; an
\* overrun is the sequel of a failure.
SpBlockInv ==
  /\ spHw.tx <= spHist.sent /\ spHw.shift <= spHist.sent /\ spHw.rx <= spHist.sent
  /\ spReg.spien => spReg.whole /\ ~spReg.i2s /\ ~spHw.fault /\ spHist.bringUps > 0
  /\ spHist.overruns > 0 => spHist.failed
  /\ spCall.faulted /\ spCall.result = "running" => spHw.fault

SpIInv == SpTypes /\ SpCodeInv /\ SpBlockInv /\ SpInStep /\ SpFaultSurfaces
---------------------------------------------------------------------------
\* The places and what follows each.
LEMMA SpSuffix ==
  /\ \A k \in SpPlaces : SpAt(k) = << >> <=> k = "idle"
  /\ \A k \in SpPlaces \ {"idle"} : SpAt(k)[1] = k
  /\ Tail(SpAt("ctl0")) = SpAt("i2ssel") /\ Tail(SpAt("i2ssel")) = SpAt("enable")
  /\ Tail(SpAt("enable")) = SpAt("idle") /\ SpAt("idle") = << >>
  /\ Tail(SpAt("TBE")) = SpAt("transmit") /\ Tail(SpAt("transmit")) = SpAt("RBNE")
  /\ Tail(SpAt("RBNE")) = SpAt("receive")
  /\ configure = SpAt("ctl0") /\ transfer_byte = SpAt("TBE")
<1>1. \A k \in SpPlaces : SpAt(k) = << >> <=> k = "idle"
  BY DEF SpPlaces, SpBringing, SpWord, SpAt
<1>2. \A k \in SpPlaces \ {"idle"} : SpAt(k)[1] = k
  BY DEF SpPlaces, SpBringing, SpWord, SpAt
<1>3. /\ Tail(SpAt("ctl0")) = SpAt("i2ssel") /\ Tail(SpAt("i2ssel")) = SpAt("enable")
      /\ Tail(SpAt("enable")) = SpAt("idle") /\ SpAt("idle") = << >>
  BY DEF SpAt
<1>4. /\ Tail(SpAt("TBE")) = SpAt("transmit") /\ Tail(SpAt("transmit")) = SpAt("RBNE")
      /\ Tail(SpAt("RBNE")) = SpAt("receive")
  BY DEF SpAt
<1>5. configure = SpAt("ctl0") /\ transfer_byte = SpAt("TBE")
  BY DEF SpAt, configure, transfer_byte
<1> QED BY <1>1, <1>2, <1>3, <1>4, <1>5

\* The place of the next operation, and of none.
LEMMA SpHere ==
  ASSUME SpIInv
  PROVE  /\ \A k \in SpPlaces \ {"idle"} : spCode # << >> /\ spCode[1] = k =>
              spCode = SpAt(k) /\ SpDone(k) /\ SpDue(k) /\ SpStep(k)
         /\ spCode = << >> => SpDone("idle") /\ SpDue("idle") /\ SpStep("idle")
<1>1. PICK k \in SpPlaces : spCode = SpAt(k) /\ SpDone(k) /\ SpDue(k) /\ SpStep(k)
  BY DEF SpIInv, SpCodeInv
<1>2. spCode = << >> => k = "idle"
  BY <1>1, SpSuffix
<1>3. spCode # << >> => k # "idle" /\ spCode[1] = k
  BY <1>1, SpSuffix
<1> QED BY <1>1, <1>2, <1>3

\* The divisors.
LEMMA SpDivisor ==
  ASSUME NEW c \in 0..7
  PROVE  2^(c + 1) \in Nat /\ 2^(c + 1) > 0
<1>1. CASE c = 0
  BY <1>1
<1>2. CASE c = 1
  BY <1>2
<1>3. CASE c = 2
  BY <1>3
<1>4. CASE c = 3
  BY <1>4
<1>5. CASE c = 4
  BY <1>5
<1>6. CASE c = 5
  BY <1>6
<1>7. CASE c = 6
  BY <1>7
<1>8. CASE c = 7
  BY <1>8
<1> QED BY <1>1, <1>2, <1>3, <1>4, <1>5, <1>6, <1>7, <1>8

\* The prescaler keeps the rate or is the largest, and none smaller would.
LEMMA SpPrescaler ==
  ASSUME NEW bus \in Nat, NEW target \in Nat
  PROVE  /\ prescaler_for(bus, target) \in 0..7
         /\ bus \div 2^(prescaler_for(bus, target) + 1) <= target \/ prescaler_for(bus, target) = 7
         /\ prescaler_for(bus, target) > 0 => bus \div 2^(prescaler_for(bus, target) - 1 + 1) > target
<1> DEFINE rate(c) == bus \div 2^(c + 1)
           fits == {c \in 0..6 : rate(c) <= target}
           p == prescaler_for(bus, target)
<1>1. \A c \in 0..7 : rate(c) \in Nat
  <2>1. ASSUME NEW c \in 0..7 PROVE rate(c) \in Nat
    <3>1. 2^(c + 1) \in Nat /\ 2^(c + 1) > 0
      BY SpDivisor
    <3> DEFINE d == 2^(c + 1)
    <3>2. d \in Nat /\ d > 0
      BY <3>1
    <3> HIDE DEF d
    <3>3. bus \div d \in Nat
      BY <3>2
    <3> QED BY <3>3 DEF d
  <2> QED BY <2>1
<1>2. p = IF fits = {} THEN 7 ELSE CHOOSE c \in fits : \A d \in fits : c <= d
  BY DEF prescaler_for
<1> HIDE DEF rate, p
<1>3. CASE fits = {}
  <2>1. p = 7
    BY <1>2, <1>3
  <2>2. ~(rate(6) <= target) /\ rate(6) \in Nat
    BY <1>1, <1>3
  <2>3. rate(6) > target
    BY <2>2
  <2> QED BY <2>1, <2>3 DEF rate, p
<1>4. CASE fits # {}
  <2>1. \A c \in 0..6 : c = 0 \/ c = 1 \/ c = 2 \/ c = 3 \/ c = 4 \/ c = 5 \/ c = 6
    OBVIOUS
  <2>2. \E c \in fits : \A d \in fits : c <= d
    BY <1>1, <1>4, <2>1
  <2>3. p \in fits /\ \A d \in fits : p <= d
    BY <1>2, <1>4, <2>2
  <2>4. p \in 0..6 /\ rate(p) <= target
    BY <2>3
  <2>5. p > 0 => rate(p - 1) > target
    <3>1. SUFFICES ASSUME p > 0 PROVE rate(p - 1) > target
      OBVIOUS
    <3>2. p - 1 \in 0..6 /\ ~(p <= p - 1)
      BY <2>4, <3>1
    <3>3. p - 1 \notin fits
      BY <2>3, <3>2
    <3>4. rate(p - 1) \in Nat /\ ~(rate(p - 1) <= target)
      BY <1>1, <3>2, <3>3
    <3> QED BY <3>4
  <2> QED BY <2>4, <2>5 DEF rate, p
<1> QED BY <1>3, <1>4

\* The clock of a tree bring_up is given.
LEMMA SpClock ==
  ASSUME NEW bus \in SpBuses
  PROVE  spi_input_clock(bus) \in Nat
<1>1. bus.sysclk \in Nat /\ bus.ahb \in Nat /\ bus.ahb > 0 /\ bus.apb2 \in Nat /\ bus.apb2 > 0
  BY SpAssumption
<1>2. bus.sysclk \div bus.ahb \in Nat
  BY <1>1
<1> DEFINE h == bus.sysclk \div bus.ahb
<1> HIDE DEF h
<1>3. h \div bus.apb2 \in Nat
  BY <1>1, <1>2 DEF h
<1> QED BY <1>3 DEF spi_input_clock, h

---------------------------------------------------------------------------
\* bring_up is called.
LEMMA SpBringUpKeeps ==
  ASSUME SpIInv, NEW bus \in SpBuses, NEW target \in SpTargets, NEW nss \in {"Software", "Hardware"},
         SpBringUp(bus, target, nss)
  PROVE  SpIInv'
<1>1. /\ spCode = << >> /\ spCode' = configure /\ spCall' = SpIdle
      /\ spAsk' = [bus |-> bus, target |-> target, nss |-> nss]
      /\ spHist' = [spHist EXCEPT !.bringUps = @ + 1] /\ spReg' = spReg /\ spHw' = spHw
  BY DEF SpBringUp
<1>2. SpDone("idle") /\ SpDue("idle") /\ SpStep("idle")
  BY <1>1, SpHere
<1>3. /\ spHist' \in SpHistSet /\ spHist'.sent = spHist.sent /\ spHist'.bringUps > 0
      /\ spHist'.failed = spHist.failed /\ spHist'.overruns = spHist.overruns
  BY <1>1 DEF SpIInv, SpTypes, SpHistSet
<1>4. spCall' \in SpCallSet
  BY <1>1, SpAssumption DEF SpIdle, SpCallSet, SpKinds
<1>5. SpTypes'
  BY <1>1, <1>3, <1>4 DEF SpIInv, SpTypes
<1>6. spCode' = SpAt("ctl0") /\ "ctl0" \in SpPlaces /\ "ctl0" \notin SpWord
  BY <1>1, SpSuffix DEF SpPlaces, SpBringing, SpWord
<1>7. SpDone("ctl0")' /\ SpDue("ctl0")'
  BY <1>1, <1>2, <1>3, <1>6 DEF SpDone, SpDue, SpIdle, SpWord
<1>8. SpStep("ctl0")'
  BY <1>1, <1>2, <1>3, <1>6 DEF SpStep, SpIdle
<1>9. SpCodeInv'
  BY <1>6, <1>7, <1>8 DEF SpCodeInv
<1>10. SpBlockInv'
  BY <1>1, <1>3 DEF SpIInv, SpBlockInv, SpIdle
<1>11. SpInStep' /\ SpFaultSurfaces'
  BY <1>1 DEF SpInStep, SpFaultSurfaces, SpIdle
<1> QED BY <1>5, <1>9, <1>10, <1>11 DEF SpIInv

\* A register write of the bring-up.
LEMMA SpWriteKeeps ==
  ASSUME SpIInv, WriteConfig
  PROVE  SpIInv'
<1>1. /\ spCode # << >> /\ spCode' = Tail(spCode) /\ spCall' = spCall /\ spAsk' = spAsk /\ spHist' = spHist
      /\ spHw' = IF spCode[1] = "ctl0" /\ spHw.seen THEN [spHw EXCEPT !.fault = FALSE, !.seen = FALSE] ELSE spHw
  BY DEF WriteConfig
<1>2. /\ spHw' \in SpHwSet /\ spHw'.tx = spHw.tx /\ spHw'.shift = spHw.shift /\ spHw'.rx = spHw.rx
      /\ (spHw'.fault => spHw.fault)
  BY <1>1 DEF SpIInv, SpTypes, SpHwSet
<1>3. spHist \in SpHistSet /\ spReg \in SpRegSet
  BY DEF SpIInv, SpTypes
<1> DEFINE psc == prescaler_for(spi_input_clock(spAsk.bus), spAsk.target)
           Next1(m) ==
             /\ m \in SpPlaces /\ spCode' = SpAt(m) /\ spReg' \in SpRegSet /\ SpDone(m)' /\ SpDue(m)' /\ SpStep(m)'
             /\ spReg'.spien => spReg'.whole /\ ~spReg'.i2s /\ ~spHw'.fault /\ spHist.bringUps > 0
             /\ spCall.result # "running"
<1>4. ASSUME spCode[1] = "ctl0" PROVE Next1("i2ssel")
  <2>1. /\ spReg' = [spReg EXCEPT !.whole = TRUE, !.nss = spAsk.nss, !.psc = psc]
        /\ spCode = SpAt("ctl0") /\ SpDone("ctl0") /\ SpDue("ctl0") /\ SpStep("ctl0")
    BY <1>1, <1>4, SpHere DEF WriteConfig, SpPlaces, SpBringing, SpWord
  <2>2. spAsk \in [bus : SpBuses, target : SpTargets, nss : {"Software", "Hardware"}] /\ spHist.bringUps > 0
    BY <2>1 DEF SpIInv, SpTypes, SpDone, SpBringing, SpWord
  <2>3. psc \in 0..7
    BY <2>2, SpClock, SpPrescaler, SpAssumption
  <2>4. psc' = psc
    BY <1>1
  <2> HIDE DEF psc
  <2>5. /\ spReg' \in SpRegSet /\ spReg'.whole = TRUE /\ spReg'.psc = psc /\ spReg'.spien = spReg.spien
        /\ spReg'.i2s = spReg.i2s
    BY <1>3, <2>1, <2>2, <2>3 DEF SpRegSet
  <2>6. spCode' = SpAt("i2ssel") /\ "i2ssel" \in SpPlaces
    BY <1>1, <2>1, SpSuffix DEF SpPlaces, SpBringing
  <2>7. SpDone("i2ssel")'
    BY <1>1, <2>2, <2>4, <2>5 DEF SpDone, psc
  <2>8. SpDue("i2ssel")' /\ spCall.result # "running"
    BY <1>1, <2>1 DEF SpDue, SpWord
  <2>9. SpStep("i2ssel")'
    BY <1>1, <1>2, <2>1 DEF SpStep, SpWord
  <2> QED BY <1>2, <2>2, <2>5, <2>6, <2>7, <2>8, <2>9 DEF SpIInv, SpBlockInv
<1>5. ASSUME spCode[1] = "i2ssel" PROVE Next1("enable")
  <2>1. /\ spReg' = [spReg EXCEPT !.i2s = FALSE]
        /\ spCode = SpAt("i2ssel") /\ SpDone("i2ssel") /\ SpDue("i2ssel") /\ SpStep("i2ssel")
    BY <1>1, <1>5, SpHere DEF WriteConfig, SpPlaces, SpBringing, SpWord
  <2>2. /\ spReg' \in SpRegSet /\ spReg'.whole = spReg.whole /\ spReg'.psc = spReg.psc
        /\ spReg'.spien = spReg.spien /\ spReg'.i2s = FALSE
    BY <1>3, <2>1 DEF SpRegSet
  <2>3. spCode' = SpAt("enable") /\ "enable" \in SpPlaces
    BY <1>1, <2>1, SpSuffix DEF SpPlaces, SpBringing
  <2>4. SpDone("enable")'
    BY <1>1, <2>1, <2>2 DEF SpDone, SpBringing
  <2>5. SpDue("enable")' /\ spCall.result # "running"
    BY <1>1, <2>1 DEF SpDue, SpWord
  <2>6. SpStep("enable")'
    BY <1>1, <1>2, <2>1 DEF SpStep, SpWord
  <2> QED BY <1>2, <2>2, <2>3, <2>4, <2>5, <2>6 DEF SpIInv, SpBlockInv
<1>6. ASSUME spCode[1] = "enable" PROVE Next1("idle")
  <2>1. /\ spReg' = [spReg EXCEPT !.spien = ~spHw.fault] /\ spHw' = spHw
        /\ spCode = SpAt("enable") /\ SpDone("enable") /\ SpDue("enable") /\ SpStep("enable")
    BY <1>1, <1>6, SpHere DEF WriteConfig, SpPlaces, SpBringing, SpWord
  <2>2. /\ spReg' \in SpRegSet /\ spReg'.whole = spReg.whole /\ spReg'.psc = spReg.psc
        /\ (spReg'.spien => ~spHw.fault) /\ spReg'.i2s = spReg.i2s
    BY <1>3, <2>1 DEF SpRegSet
  <2>3. spCode' = SpAt("idle") /\ "idle" \in SpPlaces
    BY <1>1, <2>1, SpSuffix DEF SpPlaces, SpBringing
  <2>4. SpDone("idle")'
    BY <1>1, <2>1, <2>2 DEF SpDone, SpBringing, SpWord
  <2>5. SpDue("idle")' /\ spCall.result # "running"
    BY <1>1, <2>1 DEF SpDue, SpWord
  <2>6. SpStep("idle")'
    BY <1>1, <1>2, <2>1 DEF SpStep, SpWord
  <2>7. spReg.whole /\ ~spReg.i2s /\ spHist.bringUps > 0
    BY <2>1 DEF SpDone, SpBringing
  <2> QED BY <2>1, <2>2, <2>3, <2>4, <2>5, <2>6, <2>7
<1>7. \E m \in SpPlaces : Next1(m)
  BY <1>4, <1>5, <1>6 DEF WriteConfig
<1>8. PICK m \in SpPlaces : Next1(m)
  BY <1>7
<1>9. SpTypes'
  BY <1>1, <1>2, <1>8 DEF SpIInv, SpTypes
<1>10. SpCodeInv'
  BY <1>8 DEF SpCodeInv
<1>11. SpBlockInv'
  BY <1>1, <1>2, <1>8 DEF SpIInv, SpBlockInv
<1>12. SpInStep' /\ SpFaultSurfaces'
  BY <1>1 DEF SpIInv, SpInStep, SpFaultSurfaces
<1> QED BY <1>9, <1>10, <1>11, <1>12 DEF SpIInv

\* A call of the bus: of no word, and of one or more.
LEMMA SpCallKeeps ==
  ASSUME SpIInv, NEW kind \in SpKinds, NEW read \in SpLengths, NEW write \in SpLengths, SpCall(kind, read, write)
  PROVE  SpIInv'
<1> DEFINE n == WordsOf(kind, read, write)
           r == IF n = 0 THEN "Ok" ELSE "running"
           f == spHw.fault
<1>1. /\ spCode = << >> /\ spHist.bringUps > 0 /\ spHist.sent + n <= SpWords
      /\ spCall' = [SpIdle EXCEPT !.kind = kind, !.left = n, !.polls = SpPolls, !.faulted = f, !.result = r]
      /\ spCode' = (IF n = 0 THEN << >> ELSE transfer_byte)
      /\ spReg' = spReg /\ spHw' = spHw /\ spAsk' = spAsk /\ spHist' = spHist
  BY DEF SpCall
<1>2. SpDone("idle") /\ SpDue("idle") /\ SpStep("idle")
  BY <1>1, SpHere
<1>3. n \in Nat
  BY SpAssumption DEF WordsOf
<1>4. r \in {"Ok", "running"} /\ (r = "running" <=> n > 0) /\ f \in BOOLEAN
  BY <1>3 DEF SpIInv, SpTypes, SpHwSet
<1> HIDE DEF n, r, f
<1>5. /\ spCall' \in SpCallSet /\ spCall'.left = n /\ spCall'.got = << >> /\ spCall'.sent = << >>
      /\ spCall'.polls = SpPolls /\ spCall'.result = r /\ spCall'.faulted = f
  <2>1. SpPolls \in 0..SpPolls
    BY SpAssumption
  <2>2. SpIdle \in SpCallSet /\ SpIdle.got = << >> /\ SpIdle.sent = << >>
    BY SpAssumption DEF SpIdle, SpCallSet
  <2>3. spCall' \in SpCallSet
    BY <1>1, <1>3, <1>4, <2>1, <2>2 DEF SpCallSet
  <2>4. /\ spCall'.left = n /\ spCall'.got = << >> /\ spCall'.sent = << >>
        /\ spCall'.polls = SpPolls /\ spCall'.result = r /\ spCall'.faulted = f
    BY <1>1, <2>2 DEF SpCallSet
  <2> QED BY <2>3, <2>4
<1>6. SpTypes'
  BY <1>1, <1>5 DEF SpIInv, SpTypes
<1>7. SpCodeInv'
  <2>1. CASE n = 0
    <3>1. spCode' = SpAt("idle") /\ "idle" \in SpPlaces /\ "idle" \notin SpWord /\ r # "running"
      BY <1>1, <1>4, <2>1, SpSuffix DEF SpPlaces, SpWord
    <3>2. SpDone("idle")' /\ SpDue("idle")' /\ SpStep("idle")'
      BY <1>1, <1>2, <1>5, <3>1 DEF SpDone, SpDue, SpStep, SpWord
    <3> QED BY <3>1, <3>2 DEF SpCodeInv
  <2>2. CASE n > 0
    <3>1. spCode' = SpAt("TBE") /\ "TBE" \in SpPlaces /\ "TBE" \in SpWord /\ r = "running"
      BY <1>1, <1>4, <2>2, SpSuffix DEF SpPlaces, SpWord
    <3>2. SpDone("TBE")' /\ SpDue("TBE")'
      BY <1>1, <1>2, <1>5, <2>2, <3>1, SpAssumption DEF SpDone, SpDue
    <3>3. SpStep("TBE")'
      BY <1>1, <1>2, <1>5, <3>1 DEF SpStep, SpWord
    <3> QED BY <3>1, <3>2, <3>3 DEF SpCodeInv
  <2> QED BY <1>3, <2>1, <2>2
<1>8. SpBlockInv'
  BY <1>1, <1>5 DEF SpIInv, SpBlockInv, f
<1>9. SpInStep' /\ SpFaultSurfaces'
  BY <1>1, <1>4, <1>5 DEF SpInStep, SpFaultSurfaces
<1> QED BY <1>6, <1>7, <1>8, <1>9 DEF SpIInv

\* What a status read finds wrong.
LEMMA SpError ==
  ASSUME NEW hw \in SpHwSet
  PROVE  /\ ErrorOf(hw) \in {"none", "ModeFault", "Overrun"}
         /\ hw.fault => ErrorOf(hw) = "ModeFault"
  BY DEF SpHwSet, ErrorOf

\* A poll of wait_flag: the flag is up, an error ends the call, or it polls on.
LEMMA SpWaitKeeps ==
  ASSUME SpIInv, NEW flag \in {"TBE", "RBNE"}, wait_flag(flag)
  PROVE  SpIInv'
<1> DEFINE found == ErrorOf(spHw)
           error == IF found # "none" THEN found ELSE IF spCall.polls = 1 THEN "Other" ELSE "none"
           left == IF found = "none" THEN spCall.polls - 1 ELSE spCall.polls
           ended == IF error = "none" THEN spCall.result ELSE error
           failed == spHist.failed \/ error # "none"
           next == IF flag = "TBE" THEN "transmit" ELSE "receive"
<1>1. /\ spCode # << >> /\ spCode[1] = flag /\ spHw' = StatusRead(spHw) /\ spReg' = spReg /\ spAsk' = spAsk
      /\ \/ Raised(flag) /\ spCode' = Tail(spCode) /\ spCall' = [spCall EXCEPT !.polls = SpPolls] /\ spHist' = spHist
         \/ /\ ~Raised(flag) /\ spCode' = IF error = "none" THEN spCode ELSE << >>
            /\ spCall' = [spCall EXCEPT !.polls = left, !.result = ended]
            /\ spHist' = [spHist EXCEPT !.failed = failed]
  BY DEF wait_flag, Waiting
<1>2. /\ spHw' \in SpHwSet /\ spHw'.tx = spHw.tx /\ spHw'.shift = spHw.shift /\ spHw'.rx = spHw.rx
      /\ spHw'.fault = spHw.fault /\ spHw.fault \in BOOLEAN
  BY <1>1 DEF SpIInv, SpTypes, SpHwSet, StatusRead
<1>3. spCode = SpAt(flag) /\ SpDone(flag) /\ SpDue(flag) /\ SpStep(flag) /\ flag \in SpPlaces /\ flag \in SpWord
  BY <1>1, SpHere DEF SpPlaces, SpWord
<1>4. spCall \in SpCallSet /\ spHist \in SpHistSet /\ spHw \in SpHwSet
  BY DEF SpIInv, SpTypes
<1>5. /\ found \in {"none", "ModeFault", "Overrun"} /\ (spHw.fault => found = "ModeFault")
  BY <1>4, SpError
<1>6. spCall.polls \in 0..SpPolls /\ spCall.polls > 0 /\ spCall.result = "running" /\ SpPolls \in Nat /\ SpPolls > 0
  BY <1>3, <1>4, SpAssumption DEF SpDue, SpCallSet
<1>7. CASE Raised(flag)
  <2>1. spCode' = Tail(spCode) /\ spCall' = [spCall EXCEPT !.polls = SpPolls] /\ spHist' = spHist
    BY <1>1, <1>7
  <2>2. /\ spCall' \in SpCallSet /\ spCall'.polls = SpPolls /\ spCall'.left = spCall.left
        /\ spCall'.got = spCall.got /\ spCall'.sent = spCall.sent /\ spCall'.result = spCall.result
        /\ spCall'.faulted = spCall.faulted
    <3>1. SpPolls \in 0..SpPolls
      BY <1>6
    <3>2. spCall' \in SpCallSet
      BY <1>4, <2>1, <3>1 DEF SpCallSet
    <3> QED BY <1>4, <2>1, <3>2 DEF SpCallSet
  <2>3. SpTypes'
    BY <1>1, <1>2, <2>1, <2>2 DEF SpIInv, SpTypes
  <2>4. spCode' = SpAt(next) /\ next \in SpPlaces /\ next \in SpWord
    BY <1>3, <2>1, SpSuffix DEF SpPlaces, SpWord
  <2>5. SpDone(next)' /\ SpDue(next)'
    BY <1>1, <1>2, <1>3, <1>6, <2>1, <2>2, <2>4 DEF SpDone, SpDue
  <2>6. SpStep(next)'
    <3>1. CASE flag = "TBE"
      BY <1>2, <1>3, <2>1, <2>2, <3>1 DEF SpStep, SpWord
    <3>2. CASE flag = "RBNE"
      <4>1. spHw.rx # 0
        BY <1>7, <3>2 DEF Raised
      <4> QED BY <1>2, <1>3, <2>1, <2>2, <3>2, <4>1 DEF SpStep, SpWord
    <3> QED BY <3>1, <3>2
  <2>7. SpCodeInv'
    BY <2>4, <2>5, <2>6 DEF SpCodeInv
  <2>8. SpBlockInv' /\ SpInStep' /\ SpFaultSurfaces'
    BY <1>1, <1>2, <2>1, <2>2 DEF SpIInv, SpBlockInv, SpInStep, SpFaultSurfaces
  <2> QED BY <2>3, <2>7, <2>8 DEF SpIInv
<1>8. CASE ~Raised(flag)
  <2>1. /\ spCode' = IF error = "none" THEN spCode ELSE << >>
        /\ spCall' = [spCall EXCEPT !.polls = left, !.result = ended]
        /\ spHist' = [spHist EXCEPT !.failed = failed]
    BY <1>1, <1>8
  <2>2. /\ error \in {"none", "ModeFault", "Overrun", "Other"} /\ (error = "none" => spCall.polls # 1 /\ found = "none")
        /\ (error = "Other" => found = "none") /\ ended \in {"running", "ModeFault", "Overrun", "Other"}
        /\ (ended = "running" <=> error = "none") /\ (ended = "Other" => error = "Other")
    BY <1>5, <1>6
  <2>3. left \in 0..SpPolls /\ (error = "none" => left > 0)
    BY <1>6, <2>2
  <2>4. failed \in BOOLEAN /\ (failed <=> spHist.failed \/ error # "none")
    OBVIOUS
  <2> HIDE DEF error, left, ended, failed, next
  <2>5. /\ spCall' \in SpCallSet /\ spCall'.polls = left /\ spCall'.left = spCall.left
        /\ spCall'.got = spCall.got /\ spCall'.sent = spCall.sent /\ spCall'.result = ended
        /\ spCall'.faulted = spCall.faulted
    BY <1>4, <2>1, <2>2, <2>3 DEF SpCallSet
  <2>6. /\ spHist' \in SpHistSet /\ spHist'.sent = spHist.sent /\ spHist'.bringUps = spHist.bringUps
        /\ spHist'.failed = failed /\ spHist'.overruns = spHist.overruns
    BY <1>4, <2>1, <2>4 DEF SpHistSet
  <2>7. SpTypes'
    BY <1>1, <1>2, <2>5, <2>6 DEF SpIInv, SpTypes
  <2>8. SpCodeInv'
    <3>1. CASE error = "none"
      <4>1. spCode' = SpAt(flag) /\ SpDone(flag)'
        BY <1>1, <1>3, <2>1, <2>6, <3>1 DEF SpDone
      <4>2. SpDue(flag)'
        BY <1>3, <2>2, <2>3, <2>5, <2>6, <3>1 DEF SpDue
      <4>3. SpStep(flag)'
        BY <1>2, <1>3, <2>4, <2>5, <2>6, <3>1 DEF SpStep
      <4> QED BY <1>3, <4>1, <4>2, <4>3 DEF SpCodeInv
    <3>2. CASE error # "none"
      <4>1. spCode' = SpAt("idle") /\ "idle" \in SpPlaces /\ "idle" \notin SpWord
        BY <2>1, <3>2, SpSuffix DEF SpPlaces, SpWord
      <4>2. SpDone("idle")'
        BY <1>1, <1>3, <2>6 DEF SpDone, SpWord, SpBringing
      <4>3. SpDue("idle")' /\ SpStep("idle")'
        BY <1>3, <2>2, <2>4, <2>5, <2>6, <3>2, <4>1 DEF SpDue, SpStep
      <4> QED BY <4>1, <4>2, <4>3 DEF SpCodeInv
    <3> QED BY <3>1, <3>2
  <2>9. SpBlockInv'
    BY <1>1, <1>2, <1>6, <2>2, <2>4, <2>5, <2>6 DEF SpIInv, SpBlockInv
  <2>10. SpInStep'
    BY <2>4, <2>5, <2>6 DEF SpIInv, SpInStep
  <2>11. SpFaultSurfaces'
    <3>1. spCall.faulted => found # "none"
      BY <1>5, <1>6 DEF SpIInv, SpBlockInv
    <3> QED BY <2>2, <2>5, <3>1 DEF SpFaultSurfaces
  <2> QED BY <2>7, <2>8, <2>9, <2>10, <2>11 DEF SpIInv
<1> QED BY <1>7, <1>8

\* The next word is put into the transmit buffer.
LEMMA SpTransmitKeeps ==
  ASSUME SpIInv, Transmit
  PROVE  SpIInv'
<1> DEFINE w == spHist.sent + 1
<1>1. /\ spCode # << >> /\ spCode[1] = "transmit" /\ spCode' = Tail(spCode) /\ spHw' = [spHw EXCEPT !.tx = w]
      /\ spHist' = [spHist EXCEPT !.sent = w] /\ spCall' = [spCall EXCEPT !.sent = Append(spCall.sent, w)]
      /\ spReg' = spReg /\ spAsk' = spAsk
  BY DEF Transmit, Waiting, SpIInv, SpTypes, SpHistSet
<1>2. /\ spCode = SpAt("transmit") /\ SpDone("transmit") /\ SpDue("transmit") /\ SpStep("transmit")
      /\ "transmit" \in SpWord
  BY <1>1, SpHere DEF SpPlaces, SpWord
<1>3. spCall \in SpCallSet /\ spHist \in SpHistSet /\ spHw \in SpHwSet
  BY DEF SpIInv, SpTypes
<1>4. w \in Nat /\ w = spHist.sent + 1 /\ spHist.sent \in Nat /\ w > 0
  BY <1>3 DEF SpHistSet
<1> HIDE DEF w
<1>5. /\ spHw' \in SpHwSet /\ spHw'.tx = w /\ spHw'.shift = spHw.shift /\ spHw'.rx = spHw.rx
      /\ spHw'.fault = spHw.fault
  BY <1>1, <1>3, <1>4 DEF SpHwSet
<1>6. /\ spHist' \in SpHistSet /\ spHist'.sent = w /\ spHist'.bringUps = spHist.bringUps
      /\ spHist'.failed = spHist.failed /\ spHist'.overruns = spHist.overruns
  BY <1>1, <1>3, <1>4 DEF SpHistSet
<1>7. /\ spCall.sent \in Seq(Nat) /\ spCall.got \in Seq(Nat) /\ spCall.left \in Nat
      /\ Append(spCall.sent, w) \in Seq(Nat) /\ Len(Append(spCall.sent, w)) = Len(spCall.sent) + 1
      /\ Append(spCall.sent, w)[Len(spCall.sent) + 1] = w
      /\ \A i \in 1..Len(spCall.sent) : Append(spCall.sent, w)[i] = spCall.sent[i]
  BY <1>3, <1>4 DEF SpCallSet
<1> DEFINE more == Append(spCall.sent, w)
<1>8. more = Append(spCall.sent, w) /\ more \in Seq(Nat)
  BY <1>7
<1> HIDE DEF more
<1>9. /\ spCall' \in SpCallSet /\ spCall'.left = spCall.left /\ spCall'.got = spCall.got
      /\ spCall'.sent = more /\ spCall'.polls = spCall.polls /\ spCall'.result = spCall.result
      /\ spCall'.faulted = spCall.faulted
  BY <1>1, <1>3, <1>8 DEF SpCallSet
<1>10. SpTypes'
  BY <1>1, <1>5, <1>6, <1>9 DEF SpIInv, SpTypes
<1>11. spCode' = SpAt("RBNE") /\ "RBNE" \in SpPlaces /\ "RBNE" \in SpWord
  BY <1>1, <1>2, SpSuffix DEF SpPlaces, SpWord
<1>12. SpDone("RBNE")' /\ SpDue("RBNE")'
  <2>1. SpDone("RBNE")'
    BY <1>1, <1>2, <1>6, <1>11 DEF SpDone
  <2>2. /\ spCall'.left = spCall.left /\ spCall.left \in Nat /\ SpWords \in Nat /\ spCall.left > 0 /\ spCall.polls > 0
        /\ spCall.result = "running" /\ spHist.sent + spCall.left <= SpWords
    BY <1>2, <1>7, <1>9, SpAssumption DEF SpDue
  <2> QED BY <1>4, <1>6, <1>9, <1>11, <2>1, <2>2 DEF SpDue
<1>13. SpStep("RBNE")'
  BY <1>2, <1>4, <1>5, <1>6, <1>7, <1>8, <1>9, <1>11 DEF SpStep
<1>14. SpCodeInv'
  BY <1>11, <1>12, <1>13 DEF SpCodeInv
<1>15. SpBlockInv'
  BY <1>1, <1>3, <1>4, <1>5, <1>6, <1>9 DEF SpIInv, SpBlockInv, SpHwSet
<1>16. SpInStep'
  <2>1. SUFFICES ASSUME ~spHist.failed, NEW i \in DOMAIN spCall.got PROVE spCall.got[i] = more[i]
    BY <1>6, <1>9 DEF SpInStep
  <2>2. spCall.got[i] = spCall.sent[i]
    BY <2>1 DEF SpIInv, SpInStep
  <2>3. i \in 1..Len(spCall.sent)
    BY <1>2, <1>7, <2>1 DEF SpStep
  <2> QED BY <1>7, <1>8, <2>2, <2>3
<1>17. SpFaultSurfaces'
  BY <1>6, <1>9 DEF SpIInv, SpFaultSurfaces
<1> QED BY <1>10, <1>14, <1>15, <1>16, <1>17 DEF SpIInv

\* The answer to the word is read.
LEMMA SpReceiveKeeps ==
  ASSUME SpIInv, Receive
  PROVE  SpIInv'
<1> DEFINE left == spCall.left - 1
           more == Append(spCall.got, spHw.rx)
           r == IF left = 0 THEN "Ok" ELSE spCall.result
<1>1. /\ spCode # << >> /\ spCode[1] = "receive" /\ spHw' = [spHw EXCEPT !.rx = 0]
      /\ spCall' = [spCall EXCEPT !.got = more, !.left = left, !.result = r]
      /\ spCode' = (IF left = 0 THEN << >> ELSE transfer_byte)
      /\ spReg' = spReg /\ spAsk' = spAsk /\ spHist' = spHist
  BY DEF Receive, Waiting
<1>2. SpDone("receive") /\ SpDue("receive") /\ SpStep("receive") /\ "receive" \in SpWord
  BY <1>1, SpHere DEF SpPlaces, SpWord
<1>3. spCall \in SpCallSet /\ spHist \in SpHistSet /\ spHw \in SpHwSet
  BY DEF SpIInv, SpTypes
<1>4. /\ spHw' \in SpHwSet /\ spHw'.tx = spHw.tx /\ spHw'.shift = spHw.shift /\ spHw'.rx = 0
      /\ spHw'.fault = spHw.fault /\ spHw.rx \in Nat
  BY <1>1, <1>3 DEF SpHwSet
<1>5. left \in Nat /\ left = spCall.left - 1 /\ spCall.left \in Nat /\ spCall.result = "running"
  BY <1>2, <1>3 DEF SpDue, SpCallSet
<1>6. r \in {"Ok", "running"} /\ (r = "running" <=> left # 0)
  BY <1>1, <1>5
<1>7. /\ more \in Seq(Nat) /\ Len(more) = Len(spCall.got) + 1 /\ spCall.got \in Seq(Nat)
      /\ more[Len(spCall.got) + 1] = spHw.rx
      /\ \A i \in 1..Len(spCall.got) : more[i] = spCall.got[i]
  BY <1>3, <1>4 DEF SpCallSet
<1> HIDE DEF left, more, r
<1> PICK next \in {"idle", "TBE"} : next = IF left = 0 THEN "idle" ELSE "TBE"
  OBVIOUS
<1>6a. next \in SpPlaces /\ (next = "idle" <=> left = 0) /\ spCode' = SpAt(next)
  BY <1>1, SpSuffix DEF SpPlaces, SpWord
<1>8. /\ spCall' \in SpCallSet /\ spCall'.left = left /\ spCall'.got = more
      /\ spCall'.sent = spCall.sent /\ spCall'.polls = spCall.polls /\ spCall'.result = r
      /\ spCall'.faulted = spCall.faulted
  BY <1>1, <1>3, <1>5, <1>6, <1>7 DEF SpCallSet
<1>9. SpTypes'
  BY <1>1, <1>4, <1>8 DEF SpIInv, SpTypes
<1>10. ~spHist.failed => ~spCall.faulted /\ spHw.rx = spHist.sent /\ spHw.tx = 0 /\ spHw.shift = 0
  BY <1>2, <1>3 DEF SpStep, SpDue, SpHistSet
<1>11. SpDone(next)'
  BY <1>1, <1>2, <1>6a, <1>6 DEF SpDone, SpWord, SpBringing
<1>12. SpDue(next)'
  BY <1>1, <1>2, <1>3, <1>5, <1>6a, <1>6, <1>8, SpAssumption DEF SpDue, SpWord, SpHistSet
<1>13. SpStep(next)'
  BY <1>1, <1>2, <1>4, <1>6a, <1>6, <1>7, <1>8, <1>10 DEF SpStep
<1>14. SpCodeInv'
  BY <1>6a, <1>6, <1>11, <1>12, <1>13 DEF SpCodeInv
<1>15. SpBlockInv'
  BY <1>1, <1>3, <1>4, <1>5, <1>8 DEF SpIInv, SpBlockInv, SpHistSet
<1>16. SpInStep'
  <2>1. SUFFICES ASSUME ~spHist.failed, NEW i \in DOMAIN more PROVE more[i] = spCall.sent[i]
    BY <1>1, <1>8 DEF SpInStep
  <2>2. i \in 1..(Len(spCall.got) + 1)
    BY <1>7, <2>1
  <2>3. CASE i \in 1..Len(spCall.got)
    <3>1. i \in DOMAIN spCall.got
      BY <1>7, <2>3
    <3>2. spCall.got[i] = spCall.sent[i]
      BY <2>1, <3>1 DEF SpIInv, SpInStep
    <3> QED BY <1>7, <2>3, <3>2
  <2>4. CASE i = Len(spCall.got) + 1
    BY <1>2, <1>7, <1>10, <2>1, <2>4 DEF SpStep
  <2> QED BY <1>7, <2>2, <2>3, <2>4
<1>17. SpFaultSurfaces'
  BY <1>1, <1>6, <1>8, <1>10 DEF SpFaultSurfaces
<1> QED BY <1>9, <1>14, <1>15, <1>16, <1>17 DEF SpIInv

\* The shifter takes the word of the transmit buffer.
LEMMA SpLoadKeeps ==
  ASSUME SpIInv, Load
  PROVE  SpIInv'
<1>1. /\ spReg.spien /\ spHw.tx # 0 /\ spHw.shift = 0 /\ spHw' = [spHw EXCEPT !.shift = spHw.tx, !.tx = 0]
      /\ spCode' = spCode /\ spCall' = spCall /\ spReg' = spReg /\ spAsk' = spAsk /\ spHist' = spHist
  BY DEF Load
<1>2. /\ spHw' \in SpHwSet /\ spHw'.tx = 0 /\ spHw'.shift = spHw.tx /\ spHw'.rx = spHw.rx
      /\ spHw'.fault = spHw.fault /\ spHw.tx \in Nat
  BY <1>1 DEF SpIInv, SpTypes, SpHwSet
<1>3. SpTypes'
  BY <1>1, <1>2 DEF SpIInv, SpTypes
<1>4. PICK k \in SpPlaces : spCode = SpAt(k) /\ SpDone(k) /\ SpDue(k) /\ SpStep(k)
  BY DEF SpIInv, SpCodeInv
<1>5. SpDone(k)' /\ SpDue(k)'
  BY <1>1, <1>4 DEF SpDone, SpDue
<1>6. ~spHw.fault /\ (spCall.faulted => k \notin SpWord)
  BY <1>1, <1>4 DEF SpIInv, SpBlockInv, SpDue
<1>7. SpStep(k)'
  BY <1>1, <1>2, <1>4, <1>6 DEF SpStep
<1>8. SpCodeInv'
  BY <1>1, <1>4, <1>5, <1>7 DEF SpCodeInv
<1>9. SpBlockInv'
  BY <1>1, <1>2 DEF SpIInv, SpBlockInv, SpTypes, SpHistSet
<1>10. SpInStep' /\ SpFaultSurfaces'
  BY <1>1 DEF SpIInv, SpInStep, SpFaultSurfaces
<1> QED BY <1>3, <1>8, <1>9, <1>10 DEF SpIInv

\* A word has been shifted: into the receive buffer, or lost.
LEMMA SpShiftedKeeps ==
  ASSUME SpIInv, Shifted
  PROVE  SpIInv'
<1>1. /\ spHw.shift # 0
      /\ \/ spHw.rx = 0 /\ spHw' = [spHw EXCEPT !.shift = 0, !.rx = spHw.shift] /\ spHist' = spHist
         \/ /\ spHw.rx # 0 /\ spHw' = [spHw EXCEPT !.shift = 0, !.overrun = TRUE]
            /\ spHist' = [spHist EXCEPT !.overruns = @ + 1]
      /\ spCode' = spCode /\ spCall' = spCall /\ spReg' = spReg /\ spAsk' = spAsk
  BY DEF Shifted
<1>2. spHist \in SpHistSet /\ spHw \in SpHwSet
  BY DEF SpIInv, SpTypes
<1>3. PICK k \in SpPlaces : spCode = SpAt(k) /\ SpDone(k) /\ SpDue(k) /\ SpStep(k)
  BY DEF SpIInv, SpCodeInv
<1>4. /\ spHw' \in SpHwSet /\ spHw'.tx = spHw.tx /\ spHw'.shift = 0 /\ spHw'.fault = spHw.fault
      /\ spHw'.rx = (IF spHw.rx = 0 THEN spHw.shift ELSE spHw.rx) /\ spHw.shift \in Nat
  <2>1. CASE spHw.rx = 0
    <3>1. spHw' = [spHw EXCEPT !.shift = 0, !.rx = spHw.shift]
      BY <1>1, <2>1
    <3> QED BY <1>2, <2>1, <3>1 DEF SpHwSet
  <2>2. CASE spHw.rx # 0
    <3>1. spHw' = [spHw EXCEPT !.shift = 0, !.overrun = TRUE]
      BY <1>1, <2>2
    <3> QED BY <1>2, <2>2, <3>1 DEF SpHwSet
  <2> QED BY <2>1, <2>2
<1>5. /\ spHist' \in SpHistSet /\ spHist'.sent = spHist.sent /\ spHist'.bringUps = spHist.bringUps
      /\ spHist'.failed = spHist.failed /\ (spHist'.overruns > 0 => spHw.rx # 0 \/ spHist.overruns > 0)
  BY <1>1, <1>2 DEF SpHistSet
<1>6. ~spHist.failed => spHw.rx = 0 /\ spHw.shift = spHist.sent /\ spHw.tx = 0 /\ k = "RBNE" /\ ~spCall.faulted
  BY <1>1, <1>2, <1>3 DEF SpStep, SpWord, SpDue, SpHistSet
<1>7. SpTypes'
  BY <1>1, <1>4, <1>5 DEF SpIInv, SpTypes
<1>8. SpDone(k)' /\ SpDue(k)'
  BY <1>1, <1>3, <1>5 DEF SpDone, SpDue
<1>9. SpStep(k)'
  BY <1>1, <1>3, <1>4, <1>5, <1>6 DEF SpStep
<1>10. SpCodeInv'
  BY <1>1, <1>3, <1>8, <1>9 DEF SpCodeInv
<1>11. SpBlockInv'
  BY <1>1, <1>2, <1>4, <1>5, <1>6 DEF SpIInv, SpBlockInv, SpHistSet
<1>12. SpInStep' /\ SpFaultSurfaces'
  BY <1>1, <1>5 DEF SpIInv, SpInStep, SpFaultSurfaces
<1> QED BY <1>7, <1>10, <1>11, <1>12 DEF SpIInv

\* NSS is pulled low: the block stops and the mode fault stands.
LEMMA SpPulledKeeps ==
  ASSUME SpIInv, NssPulled
  PROVE  SpIInv'
<1>1. /\ ~spHw.fault /\ spHw' = [spHw EXCEPT !.fault = TRUE, !.shift = 0] /\ spReg' = [spReg EXCEPT !.spien = FALSE]
      /\ spReg.spien /\ spCode' = spCode /\ spCall' = spCall /\ spAsk' = spAsk /\ spHist' = spHist
  BY DEF NssPulled
<1>2. /\ spHw' \in SpHwSet /\ spHw'.tx = spHw.tx /\ spHw'.shift = 0 /\ spHw'.rx = spHw.rx
      /\ spHw'.fault = TRUE
  BY <1>1 DEF SpIInv, SpTypes, SpHwSet
<1>3. /\ spReg' \in SpRegSet /\ spReg'.spien = FALSE /\ spReg'.whole = spReg.whole /\ spReg'.i2s = spReg.i2s
      /\ spReg'.psc = spReg.psc
  BY <1>1 DEF SpIInv, SpTypes, SpRegSet
<1>4. SpTypes'
  BY <1>1, <1>2, <1>3 DEF SpIInv, SpTypes
<1>5. PICK k \in SpPlaces : spCode = SpAt(k) /\ SpDone(k) /\ SpDue(k) /\ SpStep(k)
  BY DEF SpIInv, SpCodeInv
<1>6. SpDone(k)' /\ SpDue(k)'
  BY <1>1, <1>3, <1>5 DEF SpDone, SpDue
<1>7. SpStep(k)'
  BY <1>1, <1>2, <1>5 DEF SpStep
<1>8. SpCodeInv'
  BY <1>1, <1>5, <1>6, <1>7 DEF SpCodeInv
<1>9. SpBlockInv'
  BY <1>1, <1>2, <1>3 DEF SpIInv, SpBlockInv, SpTypes, SpHistSet
<1>10. SpInStep' /\ SpFaultSurfaces'
  BY <1>1 DEF SpIInv, SpInStep, SpFaultSurfaces
<1> QED BY <1>4, <1>8, <1>9, <1>10 DEF SpIInv

---------------------------------------------------------------------------
\* The invariant holds at reset, every step keeps it, and it implies SpSafe.
LEMMA SpInitIInv == SpInit => SpIInv
<1> SUFFICES ASSUME SpInit PROVE SpIInv
  OBVIOUS
<1>1. SpTypes
  BY SpAssumption DEF SpInit, SpTypes, SpIdle, SpCallSet, SpRegSet, SpHwSet, SpHistSet
<1>2. spCode = SpAt("idle") /\ "idle" \in SpPlaces
  BY DEF SpInit, SpAt, SpPlaces
<1>3. SpDone("idle") /\ SpDue("idle") /\ SpStep("idle")
  BY SpAssumption DEF SpInit, SpDone, SpDue, SpStep, SpBringing, SpWord, SpIdle
<1>4. SpCodeInv
  BY <1>2, <1>3 DEF SpCodeInv
<1>5. SpBlockInv /\ SpInStep /\ SpFaultSurfaces
  BY DEF SpInit, SpBlockInv, SpInStep, SpFaultSurfaces, SpIdle
<1> QED BY <1>1, <1>4, <1>5 DEF SpIInv

LEMMA SpNextIInv == SpIInv /\ [SpNext]_spVars => SpIInv'
<1> SUFFICES ASSUME SpIInv, [SpNext]_spVars PROVE SpIInv'
  OBVIOUS
<1>1. CASE UNCHANGED spVars
  BY <1>1 DEF spVars, SpIInv, SpTypes, SpCodeInv, SpDone, SpDue, SpStep, SpBlockInv, SpInStep, SpFaultSurfaces
<1> QED BY <1>1, SpBringUpKeeps, SpWriteKeeps, SpCallKeeps, SpWaitKeeps, SpTransmitKeeps, SpReceiveKeeps, SpLoadKeeps,
           SpShiftedKeeps, SpPulledKeeps DEF SpNext, SpKinds

LEMMA SpIInvSafe == SpIInv => SpSafe
<1> SUFFICES ASSUME SpIInv PROVE SpSafe
  OBVIOUS
<1>1. PICK k \in SpPlaces : spCode = SpAt(k) /\ SpDone(k) /\ SpDue(k) /\ SpStep(k)
  BY DEF SpIInv, SpCodeInv
<1>2. SpTypeOK
  <2>1. spCall.polls \in 0..SpPolls /\ (spCall.result = "running" => spCall.polls > 0) /\ spReg.psc \in 0..7
    BY <1>1 DEF SpIInv, SpTypes, SpDue, SpCallSet, SpRegSet
  <2>2. spHw.tx \in 0..SpWords /\ spHw.shift \in 0..SpWords /\ spHw.rx \in 0..SpWords
    BY <1>1, SpAssumption DEF SpIInv, SpTypes, SpBlockInv, SpDue, SpHwSet, SpHistSet
  <2> QED BY <2>1, <2>2 DEF SpTypeOK
<1>3. SpNoOverrun /\ SpEnabledWhole
  BY DEF SpIInv, SpBlockInv, SpNoOverrun, SpEnabledWhole
<1>4. SpRateKept
  <2>1. SUFFICES ASSUME spReg.spien, spCode = << >> PROVE SpRateKept
    BY DEF SpRateKept
  <2>2. spHist.bringUps > 0 /\ spReg.psc = prescaler_for(spi_input_clock(spAsk.bus), spAsk.target)
    BY <2>1, SpHere DEF SpIInv, SpBlockInv, SpDone
  <2>3. spAsk.bus \in SpBuses /\ spAsk.target \in Nat
    BY <2>2, SpAssumption DEF SpIInv, SpTypes
  <2>4. spi_input_clock(spAsk.bus) \in Nat
    BY <2>3, SpClock
  <2> QED BY <2>2, <2>3, <2>4, SpPrescaler DEF SpRateKept
<1> QED BY <1>2, <1>3, <1>4 DEF SpIInv, SpSafe

\* For every clock tree, rate, poll budget and length of the transfers: the SPI
\* master answers each word with its own echo until a call fails, never overruns
\* its block before that, enables it whole, keeps the rate and reports a standing
\* mode fault (spi.rs).
THEOREM SpiSafety == SpSpec => []SpSafe
<1> QED BY SpInitIInv, SpNextIInv, SpIInvSafe, PTL DEF SpSpec
=============================================================================
