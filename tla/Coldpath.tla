------------------------------ MODULE Coldpath ------------------------------
(***************************************************************************)
(* bench-fw/coldpath: one pass over the clock tree, the I2C, the ADC and   *)
(* the SPI, whose answers a debugger reads from a result block in RAM.     *)
(* The RAM outlives a reset, which may come at any time. An answer is its  *)
(* source and the run it was given in.                                     *)
(***************************************************************************)
EXTENDS Integers, Sequences

CONSTANT CpRuns     \* runs of the image: resets, plus one

ASSUME CpRuns \in Nat \ {0}

VARIABLES
  cpPc,       \* the step of main
  cpRun,      \* the run
  cpErr,      \* the local err of run_i2c and of run_adc, a set of bits
  cpAdc,      \* the converter: its conversion, its data, EOC
  cpBlock,    \* M2Anchors
  cpMissed    \* history: the steps that failed in the run the block is of

cpVars == <<cpPc, cpRun, cpErr, cpAdc, cpBlock, cpMissed>>

None == <<"none", 0>>
INIT_ANCHORS ==
  [magic |-> FALSE, clock_ok |-> FALSE, who |-> None, reg06 |-> None, reg07 |-> None,
   i2c_err |-> {}, vrefint |-> None, temp |-> None, adc_err |-> {},
   readback |-> None, matched |-> FALSE, spi_err |-> {}]
AdcReset == [conv |-> <<>>, data |-> None, eoc |-> FALSE]

CpInit ==
  /\ cpPc = "boot" /\ cpRun = 1 /\ cpErr = {} /\ cpAdc = AdcReset
  /\ cpBlock = INIT_ANCHORS /\ cpMissed = {}

Leave(s, t) == cpPc = s /\ cpPc' = t
Put(field, v) == cpBlock' = [cpBlock EXCEPT ![field] = v]
OwnAnswer(source) == <<source, cpRun>>
Missed(s) == cpMissed' = cpMissed \cup {s}

(***************************************************************************)
(* The board                                                               *)
(***************************************************************************)
CpReset ==
  /\ cpRun < CpRuns /\ cpRun' = cpRun + 1 /\ cpPc' = "boot"
  /\ cpErr' = {} /\ cpAdc' = AdcReset /\ UNCHANGED <<cpBlock, cpMissed>>

ConversionDone ==
  /\ cpAdc.conv # <<>>
  /\ cpAdc' = [conv |-> <<>>, data |-> cpAdc.conv[1], eoc |-> TRUE]
  /\ UNCHANGED <<cpPc, cpRun, cpErr, cpBlock, cpMissed>>

(***************************************************************************)
(* main and run_anchors                                                    *)
(***************************************************************************)
\* Mutant: the block is not cleared at boot.
BootUncleared ==
  /\ Leave("boot", "detect") /\ cpMissed' = {}
  /\ UNCHANGED <<cpRun, cpErr, cpAdc, cpBlock>>

CpBoot ==
  /\ Leave("boot", "detect") /\ cpBlock' = INIT_ANCHORS /\ cpMissed' = {}
  /\ UNCHANGED <<cpRun, cpErr, cpAdc>>

\* detect_chip and rcu_base: a failure halts.
DetectChip ==
  /\ cpPc = "detect" /\ cpPc' \in {"clock", "halt"}
  /\ UNCHANGED <<cpRun, cpErr, cpAdc, cpBlock, cpMissed>>

ClockUp ==
  /\ \/ Leave("clock", "gpiob") /\ Put("clock_ok", TRUE)
     \/ Leave("clock", "magic") /\ UNCHANGED cpBlock
  /\ UNCHANGED <<cpRun, cpErr, cpAdc, cpMissed>>

CpMagic ==
  /\ Leave("magic", "idle") /\ Put("magic", TRUE)
  /\ UNCHANGED <<cpRun, cpErr, cpAdc, cpMissed>>

(***************************************************************************)
(* The steps that give a peripheral up: the code they leave, and where the *)
(* next peripheral begins.                                                 *)
(***************************************************************************)
Setup == [gpiob |-> [next |-> "i2c_new", field |-> "i2c_err", code |-> 4, out |-> "adc_enable"],
          i2c_new |-> [next |-> "who", field |-> "i2c_err", code |-> 2, out |-> "adc_enable"],
          adc_enable |-> [next |-> "adc", field |-> "adc_err", code |-> 3, out |-> "spi_enable"],
          adc |-> [next |-> "bring_up", field |-> "adc_err", code |-> 2, out |-> "spi_enable"],
          bring_up |-> [next |-> "trigger17", field |-> "adc_err", code |-> 5, out |-> "spi_enable"],
          spi_enable |-> [next |-> "pins", field |-> "spi_err", code |-> 3, out |-> "magic"],
          pins |-> [next |-> "spi", field |-> "spi_err", code |-> 4, out |-> "magic"],
          spi |-> [next |-> "transfer", field |-> "spi_err", code |-> 2, out |-> "magic"]]

SetUp(s) ==
  /\ \/ Leave(s, Setup[s].next) /\ UNCHANGED <<cpBlock, cpMissed>>
     \/ Leave(s, Setup[s].out) /\ Put(Setup[s].field, {Setup[s].code}) /\ Missed(s)
  /\ UNCHANGED <<cpRun, cpErr, cpAdc>>

(***************************************************************************)
(* run_i2c: every register is tried, whatever became of the one before.    *)
(***************************************************************************)
Registers == [who |-> [next |-> "reg06", bit |-> 16], reg06 |-> [next |-> "reg07", bit |-> 32],
              reg07 |-> [next |-> "i2c_end", bit |-> 64]]

ImuRegister(r) ==
  /\ \/ Put(r, OwnAnswer(r)) /\ UNCHANGED <<cpErr, cpMissed>>
     \/ cpErr' = cpErr \cup {Registers[r].bit} /\ Missed(r) /\ UNCHANGED cpBlock
  /\ Leave(r, Registers[r].next) /\ UNCHANGED <<cpRun, cpAdc>>

I2cEnd ==
  /\ Leave("i2c_end", "adc_enable") /\ Put("i2c_err", cpErr) /\ cpErr' = {}
  /\ UNCHANGED <<cpRun, cpAdc, cpMissed>>

(***************************************************************************)
(* run_adc: the internal channels 17 and 16, one conversion each.          *)
(***************************************************************************)
AdcReads == [trigger17 |-> [wait |-> "wait17", field |-> "vrefint", next |-> "trigger16"],
             trigger16 |-> [wait |-> "wait16", field |-> "temp", next |-> "adc_end"]]

TriggerChannel(s) ==
  /\ Leave(s, AdcReads[s].wait)
  /\ cpAdc' = IF cpAdc.conv # <<>> THEN cpAdc
              ELSE [cpAdc EXCEPT !.conv = <<OwnAnswer(AdcReads[s].field)>>]
  /\ UNCHANGED <<cpRun, cpErr, cpBlock, cpMissed>>

ChannelRead(s) ==
  /\ Leave(AdcReads[s].wait, AdcReads[s].next)
  /\ IF cpAdc.eoc
     THEN /\ Put(AdcReads[s].field, cpAdc.data) /\ cpAdc' = [cpAdc EXCEPT !.eoc = FALSE]
          /\ UNCHANGED <<cpErr, cpMissed>>
     ELSE cpErr' = cpErr \cup {16} /\ Missed(s) /\ UNCHANGED <<cpAdc, cpBlock>>
  /\ UNCHANGED cpRun

AdcEnd ==
  /\ Leave("adc_end", "spi_enable") /\ Put("adc_err", cpErr) /\ cpErr' = {}
  /\ UNCHANGED <<cpRun, cpAdc, cpMissed>>

SpiTransfer ==
  /\ \/ /\ \E got \in {"pattern", "other"} :
            cpBlock' = [cpBlock EXCEPT !.readback = OwnAnswer(got), !.matched = (got = "pattern")]
        /\ UNCHANGED cpMissed
     \/ Put("spi_err", {16}) /\ Missed("transfer")
  /\ Leave("transfer", "magic") /\ UNCHANGED <<cpRun, cpErr, cpAdc>>

CpNext ==
  \/ CpReset \/ ConversionDone \/ CpBoot \/ DetectChip \/ ClockUp \/ CpMagic
  \/ \E s \in DOMAIN Setup : SetUp(s)
  \/ \E r \in DOMAIN Registers : ImuRegister(r)
  \/ \E s \in DOMAIN AdcReads : TriggerChannel(s) \/ ChannelRead(s)
  \/ I2cEnd \/ AdcEnd \/ SpiTransfer

CpSpec == CpInit /\ [][CpNext]_cpVars

(***************************************************************************)
(* Properties                                                              *)
(***************************************************************************)
CpPcs == {"boot", "detect", "clock", "i2c_end", "wait17", "wait16", "adc_end", "transfer", "magic",
          "idle", "halt"} \cup DOMAIN Setup \cup DOMAIN Registers \cup DOMAIN AdcReads
CpValues(sources) == {None} \cup (sources \X (1 .. cpRun))

\* Types; an err lives in its own function only, and no answer is of a run to come.
CpTypeOK ==
  /\ cpPc \in CpPcs /\ cpRun \in 1 .. CpRuns
  /\ cpErr \subseteq (IF cpPc \in {"reg06", "reg07", "i2c_end"} THEN {16, 32, 64}
                      ELSE IF cpPc \in {"trigger16", "wait16", "adc_end"} THEN {16} ELSE {})
  /\ cpAdc.data \in CpValues({"vrefint", "temp"}) /\ (cpAdc.eoc => cpAdc.data[2] = cpRun)
  /\ \A f \in DOMAIN Registers : cpBlock[f] \in CpValues({f})
  /\ {cpBlock.vrefint, cpBlock.temp} \subseteq CpValues({"vrefint", "temp"})
  /\ cpBlock.readback \in CpValues({"pattern", "other"})
  /\ cpBlock.i2c_err \subseteq {2, 4, 16, 32, 64} /\ cpBlock.adc_err \subseteq {2, 3, 5, 16}
  /\ cpBlock.spi_err \subseteq {2, 3, 4, 16}

\* A peripheral that reports no error has answered every question put to it,
\* and in the run the debugger looks at: no value is an earlier run's, another
\* channel's late conversion, or the zero the block began with.
AnswersOwn ==
  cpBlock.magic /\ cpBlock.clock_ok =>
    \E r \in 1 .. cpRun :
      /\ cpBlock.i2c_err = {} => \A f \in DOMAIN Registers : cpBlock[f] = <<f, r>>
      /\ cpBlock.adc_err = {} => cpBlock.vrefint = <<"vrefint", r>> /\ cpBlock.temp = <<"temp", r>>
      /\ cpBlock.spi_err = {} =>
           cpBlock.readback \in {<<"pattern", r>>, <<"other", r>>}
      /\ cpBlock.matched => cpBlock.readback = <<"pattern", r>>

\* Every step that failed is told by the error of its own peripheral, and by no
\* other's; a run whose clock failed tells it by clock_ok alone.
FailureTold ==
  cpBlock.magic =>
    /\ cpBlock.i2c_err # {} <=> cpMissed \cap {"gpiob", "i2c_new", "who", "reg06", "reg07"} # {}
    /\ cpBlock.adc_err # {} <=>
         cpMissed \cap {"adc_enable", "adc", "bring_up", "trigger17", "trigger16"} # {}
    /\ cpBlock.spi_err # {} <=> cpMissed \cap {"spi_enable", "pins", "spi", "transfer"} # {}
    /\ ~cpBlock.clock_ok => cpMissed = {}

\* What the cold-path image promises whoever reads its result block: answers of
\* this run under a valid magic, and a failure that can be told.
CpSafe ==
  /\ CpTypeOK
  /\ AnswersOwn
  /\ FailureTold
==============================================================================
