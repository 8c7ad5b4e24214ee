-------------------------------- MODULE Adc --------------------------------
(***************************************************************************)
(* One converter of adc.rs: the regular group, converted on request by the *)
(* main loop (read_channel, read_simultaneous), and the injected group,    *)
(* triggered by a timer and served by the period interrupt, which share    *)
(* the registers STAT, CTL0 and CTL1.                                      *)
(*                                                                         *)
(* A value is the channel it was sampled from and whether its conversion   *)
(* was started by the call in progress (fresh).                            *)
(***************************************************************************)
EXTENDS Integers, Sequences, FiniteSets

CONSTANTS
    Channels,       \* the regular channels read
    Ranks,          \* ranks of the injected group, 0 among them
    AdcPolls,       \* ADC_TIMEOUT, in polls
    LateBringUp     \* whether a regular bring-up may follow the injected one

ASSUME AdcAssumption ==
    /\ Channels # {} /\ 0 \in Ranks /\ IsFiniteSet(Ranks) /\ AdcPolls \in Nat \ {0} /\ LateBringUp \in BOOLEAN

VARIABLES
    adcStat,    \* STAT: EOC and EOIC
    rank0,      \* the channel in regular rank 0, in RSQ2
    scan,       \* CTL0.SM
    eteic,      \* CTL1.ETEIC: the timer's trigger reaches the injected group
    calib,      \* which of CTL1.RSTCLB and CLB is still set
    conv,       \* the regular conversion in progress
    rdata,      \* RDATA
    idata,      \* IDATA: fresh in a rank the last sequence converted, till read
    acall,      \* the main loop's call
    aisr,       \* the period handler
    clean       \* history: nothing but this call has set EOC or a conversion off

AdcVars == <<adcStat, rank0, scan, eteic, calib, conv, rdata, idata, acall, aisr, clean>>

Value  == [ch : Channels, fresh : BOOLEAN]
AdcNoCall == [pc |-> "idle", kind |-> "none", ch |-> CHOOSE c \in Channels : TRUE,
           left |-> 0, seen |-> {}, res |-> "none", val |-> <<>>]
NoIsr  == [pc |-> "idle", seen |-> {}, got |-> {}]

\* Whether a read of RDATA clears EOC: read_channel's comment has it stay set,
\* clear_eoic's has it cleared.
RdataClears == BOOLEAN

AdcInit ==
    /\ adcStat = {} /\ rank0 \in Channels /\ scan = FALSE /\ eteic = FALSE /\ calib = {}
    /\ conv = <<>> /\ rdata = [ch |-> rank0, fresh |-> FALSE]
    /\ idata = [r \in Ranks |-> FALSE]
    /\ acall = AdcNoCall /\ aisr = NoIsr /\ clean = TRUE

Stale(v) == [v EXCEPT !.fresh = FALSE]

(***************************************************************************)
(* The converter                                                           *)
(***************************************************************************)
\* A start request: SWRCST, or a 1 written to ADCON with no other bit changed.
StartRegular(fresh) ==
    conv' = IF conv = <<>> THEN <<[ch |-> rank0, fresh |-> fresh]>> ELSE conv

ConvEnd ==
    /\ conv # <<>>
    /\ conv' = <<>> /\ rdata' = conv[1] /\ adcStat' = adcStat \cup {"EOC"}
    /\ UNCHANGED <<rank0, scan, eteic, calib, idata, acall, aisr, clean>>

\* The timer's trigger and the sequence it starts. The handler of the last
\* period is done by then, and ranks past 0 are converted in scan mode only.
\* The core latches the interrupt: a flag cleared before entry does not undo it.
InjectedEnd ==
    /\ eteic /\ aisr.pc = "idle"
    /\ idata' = [r \in Ranks |-> r = 0 \/ scan \/ idata[r]]
    /\ adcStat' = adcStat \cup {"EOIC"} /\ aisr' = [NoIsr EXCEPT !.pc = "pending"]
    /\ UNCHANGED <<rank0, scan, eteic, calib, conv, rdata, acall, clean>>

CalibEnd ==
    /\ calib # {} /\ calib' = {}
    /\ UNCHANGED <<adcStat, rank0, scan, eteic, conv, rdata, idata, acall, aisr, clean>>

(***************************************************************************)
(* The main loop. The handler preempts it and runs to its end.             *)
(***************************************************************************)
AdcMainAt(s) == acall.pc = s /\ aisr.pc \in {"idle", "pending"}

Step(s) == acall' = [acall EXCEPT !.pc = s]
Poll(s) == acall' = [acall EXCEPT !.pc = s, !.left = AdcPolls]
Finish(r) == acall' = [AdcNoCall EXCEPT !.kind = acall.kind, !.ch = acall.ch, !.res = r,
                                     !.val = acall.val]

\* read_channel up to its trigger: rank 0, then SWRCST.
ReadChannel(c) ==
    /\ AdcMainAt("idle")
    /\ acall' = [AdcNoCall EXCEPT !.pc = "trigger", !.kind = "channel", !.ch = c]
    /\ rank0' = c
    /\ rdata' = Stale(rdata) /\ conv' = [i \in DOMAIN conv |-> Stale(conv[i])]
    /\ clean' = (conv = <<>> /\ "EOC" \notin adcStat)
    /\ UNCHANGED <<adcStat, scan, eteic, calib, idata, aisr>>

\* read_simultaneous: the pair is converted and read as one value.
ReadSimultaneous ==
    /\ AdcMainAt("idle")
    /\ acall' = [AdcNoCall EXCEPT !.pc = "trigger", !.kind = "pair", !.ch = rank0]
    /\ rdata' = Stale(rdata) /\ conv' = [i \in DOMAIN conv |-> Stale(conv[i])]
    /\ clean' = (conv = <<>> /\ "EOC" \notin adcStat)
    /\ UNCHANGED <<adcStat, rank0, scan, eteic, calib, idata, aisr>>

SoftwareTrigger ==
    /\ AdcMainAt("trigger") /\ Poll("eoc") /\ StartRegular(TRUE)
    /\ UNCHANGED <<adcStat, rank0, scan, eteic, calib, rdata, idata, aisr, clean>>

WaitEoc ==
    /\ AdcMainAt("eoc")
    /\ CASE "EOC" \in adcStat -> Step("read")
         [] "EOC" \notin adcStat /\ acall.left > 1 -> acall' = [acall EXCEPT !.left = @ - 1]
         [] OTHER -> Finish("Timeout")
    /\ UNCHANGED <<adcStat, rank0, scan, eteic, calib, conv, rdata, idata, aisr, clean>>

ReadData ==
    /\ AdcMainAt("read")
    /\ \E clears \in RdataClears :
        adcStat' = IF clears THEN adcStat \ {"EOC"} ELSE adcStat
    /\ acall' = IF acall.kind = "pair"
                THEN [AdcNoCall EXCEPT !.kind = "pair", !.ch = acall.ch, !.res = "Ok", !.val = <<rdata>>]
                ELSE [acall EXCEPT !.pc = "clear", !.val = <<rdata>>]
    /\ UNCHANGED <<rank0, scan, eteic, calib, conv, rdata, idata, aisr, clean>>

\* clear_eoc, a read of STAT and a write of it: a flag that is 0 in what is
\* written is cleared.
ClearEocRead ==
    /\ AdcMainAt("clear")
    /\ acall' = [acall EXCEPT !.pc = "cleared", !.seen = adcStat \ {"EOC"}]
    /\ UNCHANGED <<adcStat, rank0, scan, eteic, calib, conv, rdata, idata, aisr, clean>>

\* Mutant: the flag is written back as it was read.
ClearEocWriteKept ==
    /\ AdcMainAt("cleared") /\ Finish("Ok")
    /\ UNCHANGED <<adcStat, rank0, scan, eteic, calib, conv, rdata, idata, aisr, clean>>

ClearEocWrite ==
    /\ AdcMainAt("cleared")
    /\ adcStat' = adcStat \cap acall.seen /\ Finish("Ok")
    /\ UNCHANGED <<rank0, scan, eteic, calib, conv, rdata, idata, aisr, clean>>

\* configure, of the regular group: SM off, software trigger, ADCON.
AdcBringUp(c) ==
    /\ AdcMainAt("idle") /\ (LateBringUp \/ ~eteic)
    /\ scan' = FALSE /\ rank0' = c
    /\ acall' = [AdcNoCall EXCEPT !.pc = "rstclb", !.kind = "bring_up", !.ch = c]
    /\ UNCHANGED <<adcStat, eteic, calib, conv, rdata, idata, aisr, clean>>

\* configure_injected: SM by the number of ranks, ETEIC, EOICIE, ADCON.
BringUpInjected ==
    /\ AdcMainAt("idle") /\ ~eteic
    /\ scan' = (Cardinality(Ranks) > 1) /\ eteic' = TRUE
    /\ acall' = [AdcNoCall EXCEPT !.pc = "rstclb", !.kind = "injected"]
    /\ UNCHANGED <<adcStat, rank0, calib, conv, rdata, idata, aisr, clean>>

\* calibrate sets RSTCLB, then CLB, and polls each.
Calibrate ==
    /\ \/ AdcMainAt("rstclb") /\ calib' = {"RSTCLB"} /\ Poll("rstclb?")
       \/ AdcMainAt("clb")    /\ calib' = {"CLB"}    /\ Poll("clb?")
    /\ UNCHANGED <<adcStat, rank0, scan, eteic, conv, rdata, idata, aisr, clean>>

WaitClear ==
    /\ AdcMainAt("rstclb?") \/ AdcMainAt("clb?")
    /\ LET next == IF acall.pc = "rstclb?" THEN "clb"
                   ELSE IF acall.kind = "injected" THEN "adcon" ELSE "idle" IN
       CASE calib = {} /\ next # "idle" -> Step(next)
         [] calib = {} /\ next = "idle" -> Finish("Ok")
         [] calib # {} /\ acall.left > 1 -> acall' = [acall EXCEPT !.left = @ - 1]
         [] OTHER -> Finish("Timeout")
    /\ UNCHANGED <<adcStat, rank0, scan, eteic, calib, conv, rdata, idata, aisr, clean>>

\* bring_up_injected writes ADCON once more, which starts a conversion.
Readcon ==
    /\ AdcMainAt("adcon") /\ Finish("Ok") /\ StartRegular(FALSE)
    /\ UNCHANGED <<adcStat, rank0, scan, eteic, calib, rdata, idata, aisr, clean>>

(***************************************************************************)
(* The period handler: read_injected, clear_eoic, reassert_trigger_enable  *)
(***************************************************************************)
AdcIsrEnter ==
    /\ aisr.pc = "pending" /\ aisr' = [aisr EXCEPT !.pc = "idata"]
    /\ UNCHANGED <<adcStat, rank0, scan, eteic, calib, conv, rdata, idata, acall, clean>>

ReadInjected ==
    /\ aisr.pc = "idata"
    /\ aisr' = [aisr EXCEPT !.pc = "clear", !.got = {r \in Ranks : idata[r]}]
    /\ idata' = [r \in Ranks |-> FALSE]
    /\ UNCHANGED <<adcStat, rank0, scan, eteic, calib, conv, rdata, acall, clean>>

ClearEoicRead ==
    /\ aisr.pc = "clear"
    /\ aisr' = [aisr EXCEPT !.pc = "cleared", !.seen = adcStat \ {"EOIC"}]
    /\ UNCHANGED <<adcStat, rank0, scan, eteic, calib, conv, rdata, idata, acall, clean>>

ClearEoicWrite ==
    /\ aisr.pc = "cleared"
    /\ adcStat' = adcStat \cap aisr.seen
    /\ aisr' = [aisr EXCEPT !.pc = "trigger"]
    /\ UNCHANGED <<rank0, scan, eteic, calib, conv, rdata, idata, acall, clean>>

\* ETEIC is set already: the write leaves CTL1 as it is but for ADCON.
ReassertTriggerEnable ==
    /\ aisr.pc = "trigger"
    /\ StartRegular(FALSE) /\ clean' = FALSE
    /\ aisr' = [NoIsr EXCEPT !.pc = IF "EOIC" \in adcStat THEN "pending" ELSE "idle"]
    /\ UNCHANGED <<adcStat, rank0, scan, eteic, calib, rdata, idata, acall>>

AdcNext ==
    \/ ConvEnd \/ InjectedEnd \/ CalibEnd
    \/ \E c \in Channels : ReadChannel(c) \/ AdcBringUp(c)
    \/ ReadSimultaneous \/ SoftwareTrigger \/ WaitEoc \/ ReadData
    \/ ClearEocRead \/ ClearEocWrite
    \/ BringUpInjected \/ Calibrate \/ WaitClear \/ Readcon
    \/ AdcIsrEnter \/ ReadInjected \/ ClearEoicRead \/ ClearEoicWrite \/ ReassertTriggerEnable

AdcSpec == AdcInit /\ [][AdcNext]_AdcVars

(***************************************************************************)
(* Properties                                                              *)
(***************************************************************************)
\* Every variable keeps its type.
AdcTypeOK ==
    /\ adcStat \subseteq {"EOC", "EOIC"} /\ rank0 \in Channels
    /\ scan \in BOOLEAN /\ eteic \in BOOLEAN /\ clean \in BOOLEAN
    /\ calib \in {{}, {"RSTCLB"}, {"CLB"}}
    /\ (conv = <<>> \/ conv[1] \in Value) /\ rdata \in Value
    /\ idata \in [Ranks -> BOOLEAN]
    /\ acall.pc \in {"idle", "trigger", "eoc", "read", "clear", "cleared",
                    "rstclb", "rstclb?", "clb", "clb?", "adcon"}
    /\ acall.left \in 0 .. AdcPolls /\ acall.seen \subseteq {"EOIC"}
    /\ acall.ch \in Channels /\ (acall.val = <<>> \/ acall.val[1] \in Value)
    /\ aisr.pc \in {"idle", "pending", "idata", "clear", "cleared", "trigger"}
    /\ aisr.seen \subseteq {"EOC"} /\ aisr.got \subseteq Ranks

\* A read that began with no conversion under way and no flag up, and during
\* which no ADCON was rewritten, returns what its own trigger converted, of the
\* channel it asked for.
FreshWhenClean ==
    (acall.pc = "idle" /\ acall.val # <<>> /\ clean) =>
        acall.val[1].fresh /\ acall.val[1].ch = acall.ch

\* Such a read of a channel leaves the next one the same start: no stale flag.
QuietAfterRead ==
    (acall.pc = "idle" /\ acall.kind = "channel" /\ acall.res = "Ok" /\ clean) =>
        conv = <<>> /\ "EOC" \notin adcStat

\* Each entry of the period handler finds every rank newly converted: no rank is
\* left out of the sequence, no period is served twice.
InjectedComplete == aisr.pc = "clear" => aisr.got = Ranks

\* Clearing EOIC leaves the regular group's flag alone
\* (clear_eoic_clears_only_the_injected_eoc_flag, adc/tests.rs).
ClearsOnlyEoic ==
    [][(aisr.pc = "cleared" /\ "EOC" \in adcStat) => "EOC" \in adcStat']_AdcVars

\* What the converter's driver promises: a value is of the channel asked for
\* unless an earlier read timed out, a read leaves no conversion behind, and an
\* injected sequence is complete when it is read.
AdcSafe ==
  /\ AdcTypeOK
  /\ FreshWhenClean
  /\ QuietAfterRead
  /\ InjectedComplete
=============================================================================
