--------------------------------- MODULE Spi ---------------------------------
(***************************************************************************)
(* The SPI master (spi.rs) at its register accesses, against a shifter     *)
(* that takes its time, a transmit and a receive buffer of one word each,  *)
(* and an NSS line that may be pulled.  The device answers every word with *)
(* its echo, so the answer to a word is known by its number.  Calls go on  *)
(* after errors, as the embedded-hal trait lets a driver do.               *)
(***************************************************************************)
EXTENDS Integers, Sequences

CONSTANTS
  SpWords,    \* words sent in all (bound)
  SpLengths,  \* lengths of the buffers the application passes
  SpPolls,    \* status reads before wait_flag gives up
  SpBringUps, \* calls of bring_up (bound)
  SpBuses,    \* clock trees: [sysclk, ahb, apb2] of bring_up
  SpTargets   \* bus rates asked for

ASSUME SpAssumption ==
  /\ SpWords \in Nat /\ SpLengths \subseteq Nat /\ SpPolls \in Nat \ {0} /\ SpBringUps \in Nat
  /\ SpBuses \subseteq [sysclk : Nat, ahb : Nat \ {0}, apb2 : Nat \ {0}] /\ SpTargets \subseteq Nat

VARIABLES
  spCode,  \* the operations the running call has left
  spCall,  \* [kind, left, got, sent, polls, result, faulted]: words left, answers,
           \* words of its own, polls left; a fault stood when it began
  spReg,   \* [whole, i2s, spien, nss, psc]: CTL0, whole once configured; I2SSEL
  spHw,    \* [tx, shift, rx, overrun, fault, seen]: buffers, the two error flags,
           \* and whether the status has been read with the fault up
  spAsk,   \* [bus, target, nss]: the latest bring_up's
  spHist   \* [sent, bringUps, failed, overruns]; history

spVars == <<spCode, spCall, spReg, spHw, spAsk, spHist>>

---------------------------------------------------------------------------
(* The prescaler.                                                          *)

spi_input_clock(clock) == (clock.sysclk \div clock.ahb) \div clock.apb2
\* The smallest of /2 to /256 that keeps the rate, else the largest.
prescaler_for(bus, target) ==
  LET fits == {code \in 0..6 : bus \div 2^(code + 1) <= target} IN
  IF fits = {} THEN 7 ELSE CHOOSE c \in fits : \A d \in fits : c <= d

---------------------------------------------------------------------------
SpIdle == [kind |-> "none", left |-> 0, got |-> << >>, sent |-> << >>, polls |-> 0,
         result |-> "none", faulted |-> FALSE]
SpInit ==
  /\ spCode = << >> /\ spCall = SpIdle
  /\ spReg = [whole |-> FALSE, i2s |-> TRUE, spien |-> FALSE, nss |-> "Hardware", psc |-> 0]
  /\ spHw = [tx |-> 0, shift |-> 0, rx |-> 0, overrun |-> FALSE, fault |-> FALSE, seen |-> FALSE]
  /\ spAsk = [bus |-> CHOOSE b \in SpBuses : TRUE, target |-> 0, nss |-> "Hardware"]
  /\ spHist = [sent |-> 0, bringUps |-> 0, failed |-> FALSE, overruns |-> 0]

configure == <<"ctl0", "i2ssel", "enable">>
SpBringUp(bus, target, nss) ==
  /\ spCode = << >> /\ spHist.bringUps < SpBringUps
  /\ spCode' = configure
  /\ spAsk' = [bus |-> bus, target |-> target, nss |-> nss]
  /\ spHist' = [spHist EXCEPT !.bringUps = @ + 1]
  /\ spCall' = SpIdle
  /\ UNCHANGED <<spReg, spHw>>

WriteConfig ==
  /\ spCode # << >> /\ spCode' = Tail(spCode)
  /\ spHw' = IF spCode[1] = "ctl0" /\ spHw.seen THEN [spHw EXCEPT !.fault = FALSE, !.seen = FALSE] ELSE spHw
  /\ \/ /\ spCode[1] = "ctl0"  \* MSTMOD, SWNSS, mode, size, order, prescaler; SPIEN kept
        /\ spReg' = [spReg EXCEPT !.whole = TRUE, !.nss = spAsk.nss,
                       !.psc = prescaler_for(spi_input_clock(spAsk.bus), spAsk.target)]
     \/ spCode[1] = "i2ssel" /\ spReg' = [spReg EXCEPT !.i2s = FALSE]
     \/ spCode[1] = "enable" /\ spReg' = [spReg EXCEPT !.spien = ~spHw.fault]
  /\ UNCHANGED <<spCall, spAsk, spHist>>

\* Mutant: a word is not waited for.
TransferByteHasty == <<"TBE", "transmit", "receive">>

transfer_byte == <<"TBE", "transmit", "RBNE", "receive">>
\* read, write, transfer_in_place: one word per slot; transfer: the longer buffer.
WordsOf(kind, read, write) == CASE kind = "transfer" -> IF read > write THEN read ELSE write
                              [] kind = "read" -> read [] OTHER -> write
SpCall(kind, read, write) ==
  /\ spCode = << >> /\ spHist.bringUps > 0
  /\ spHist.sent + WordsOf(kind, read, write) <= SpWords
  /\ kind # "transfer" => read = write
  /\ LET n == WordsOf(kind, read, write) IN
     /\ spCall' = [SpIdle EXCEPT !.kind = kind, !.left = n, !.polls = SpPolls, !.faulted = spHw.fault,
                     !.result = IF n = 0 THEN "Ok" ELSE "running"]
     /\ spCode' = IF n = 0 THEN << >> ELSE transfer_byte
  /\ UNCHANGED <<spReg, spHw, spAsk, spHist>>

---------------------------------------------------------------------------
(* transfer_byte.                                                          *)

Waiting(flag) == spCode # << >> /\ spCode[1] = flag
Raised(flag) == IF flag = "TBE" THEN spHw.tx = 0 ELSE spHw.rx # 0
\* A status read after a data read ends the overrun; one before the next CTL0
\* write ends the fault (external).
StatusRead(hw) == [hw EXCEPT !.overrun = IF hw.rx = 0 THEN FALSE ELSE @, !.seen = hw.fault]
ErrorOf(hw) == CASE hw.fault -> "ModeFault" [] hw.overrun /\ ~hw.fault -> "Overrun" [] OTHER -> "none"
\* wait_flag: the flag first, then the errors, then the budget.
wait_flag(flag) ==
  /\ Waiting(flag)
  /\ spHw' = StatusRead(spHw)
  /\ LET error == IF ErrorOf(spHw) # "none" THEN ErrorOf(spHw) ELSE IF spCall.polls = 1 THEN "Other" ELSE "none"
     IN IF Raised(flag)
        THEN spCode' = Tail(spCode) /\ spCall' = [spCall EXCEPT !.polls = SpPolls] /\ UNCHANGED spHist
        ELSE /\ spCode' = IF error = "none" THEN spCode ELSE << >>
             /\ spCall' = [spCall EXCEPT !.polls = IF ErrorOf(spHw) = "none" THEN @ - 1 ELSE @,
                             !.result = IF error = "none" THEN @ ELSE error]
             /\ spHist' = [spHist EXCEPT !.failed = @ \/ error # "none"]
  /\ UNCHANGED <<spReg, spAsk>>

Transmit ==
  /\ Waiting("transmit") /\ spCode' = Tail(spCode)
  /\ spHw' = [spHw EXCEPT !.tx = spHist.sent + 1]
  /\ spHist' = [spHist EXCEPT !.sent = @ + 1]
  /\ spCall' = [spCall EXCEPT !.sent = Append(@, spHist.sent + 1)]
  /\ UNCHANGED <<spReg, spAsk>>
Receive ==
  /\ Waiting("receive")
  /\ spHw' = [spHw EXCEPT !.rx = 0]
  /\ LET left == spCall.left - 1 IN
     /\ spCall' = [spCall EXCEPT !.got = Append(@, spHw.rx), !.left = left,
                     !.result = IF left = 0 THEN "Ok" ELSE @]
     /\ spCode' = IF left = 0 THEN << >> ELSE transfer_byte
  /\ UNCHANGED <<spReg, spAsk, spHist>>

---------------------------------------------------------------------------
(* The block and the line (external).                                      *)

Load ==
  /\ spReg.spien /\ ~spReg.i2s /\ spHw.tx # 0 /\ spHw.shift = 0
  /\ spHw' = [spHw EXCEPT !.shift = spHw.tx, !.tx = 0]
  /\ UNCHANGED <<spCode, spCall, spReg, spAsk, spHist>>
Shifted ==
  /\ spHw.shift # 0
  /\ IF spHw.rx = 0 THEN spHw' = [spHw EXCEPT !.shift = 0, !.rx = spHw.shift] /\ UNCHANGED spHist
     ELSE /\ spHw' = [spHw EXCEPT !.shift = 0, !.overrun = TRUE]
          /\ spHist' = [spHist EXCEPT !.overruns = @ + 1]
  /\ UNCHANGED <<spCode, spCall, spReg, spAsk>>
\* NSS pulled low in hardware mode: the block drops out of master mode.
NssPulled ==
  /\ spReg.nss = "Hardware" /\ spReg.spien /\ ~spHw.fault
  /\ spHw' = [spHw EXCEPT !.fault = TRUE, !.shift = 0]
  /\ spReg' = [spReg EXCEPT !.spien = FALSE]
  /\ UNCHANGED <<spCode, spCall, spAsk, spHist>>

SpNext ==
  \/ \E bus \in SpBuses, target \in SpTargets, nss \in {"Software", "Hardware"} : SpBringUp(bus, target, nss)
  \/ WriteConfig
  \/ \E kind \in {"read", "write", "transfer", "transfer_in_place"}, read, write \in SpLengths :
       SpCall(kind, read, write)
  \/ \E flag \in {"TBE", "RBNE"} : wait_flag(flag)
  \/ Transmit \/ Receive \/ Load \/ Shifted \/ NssPulled
SpSpec == SpInit /\ [][SpNext]_spVars

---------------------------------------------------------------------------
(* Properties.                                                             *)

\* Types: a wait never polls on an exhausted budget.
SpTypeOK ==
  /\ spCall.polls \in 0..SpPolls /\ (spCall.result = "running" => spCall.polls > 0)
  /\ spHw.tx \in 0..SpWords /\ spHw.shift \in 0..SpWords /\ spHw.rx \in 0..SpWords
  /\ spReg.psc \in 0..7

\* Until a call has failed, every word is answered by its own echo: the
\* answers of a call are those of its own words, in order, none skipped.
SpInStep == ~spHist.failed =>
              \A i \in DOMAIN spCall.got : spCall.got[i] = spCall.sent[i]

\* A driver that never gave up never overruns the block, however late it
\* looks: what can overrun is a word left over from a call that failed.
SpNoOverrun == spHist.overruns > 0 => spHist.failed

\* The block is first enabled with its configuration written and the I2S
\* mode off.
SpEnabledWhole == spReg.spien => spReg.whole /\ ~spReg.i2s

\* The bus never runs faster than asked, unless /256 is still too fast, and
\* no slower divisor than necessary is taken.
SpRateKept ==
  spReg.spien /\ spCode = << >> =>
    LET bus == spi_input_clock(spAsk.bus)
        rate(code) == bus \div 2^(code + 1)
    IN /\ rate(spReg.psc) <= spAsk.target \/ spReg.psc = 7
       /\ spReg.psc > 0 => rate(spReg.psc - 1) > spAsk.target

\* A standing mode fault is reported as one: a call begun under it never
\* ends as a timeout, nor, before the first failure, as a success.
SpFaultSurfaces ==
  spCall.faulted => /\ spCall.result # "Other"
                    /\ spCall.result = "Ok" /\ ~spHist.failed => spCall.got = << >>

\* What the SPI master promises: each answer belongs to its word while no call
\* has failed, no word overruns the receiver, a configuration is written with
\* the block off, a rate is not exceeded and a fault ends the call that met it.
SpSafe ==
  /\ SpTypeOK
  /\ SpInStep
  /\ SpNoOverrun
  /\ SpEnabledWhole
  /\ SpRateKept
  /\ SpFaultSurfaces
=============================================================================
