------------------------------ MODULE PeriodLoop ------------------------------
(***************************************************************************)
(* The current-sense loop's trigger chain: the advanced timer's compare    *)
(* channel 3 or its TRGO (timer.rs) and the injected group one of them     *)
(* starts (adc.rs).  Set up and re-armed one register field at a time      *)
(* beside a counter that runs up and down, takes the compare over from its *)
(* shadow at either end, and whose every trigger converts the group before *)
(* the next count.                                                         *)
(***************************************************************************)
EXTENDS Integers, Sequences, FiniteSets
LOCAL INSTANCE SequencesExt
LOCAL INSTANCE TLC

CONSTANTS
  PlPeriod,    \* the auto-reload value, CAR
  PlCompares,  \* trigger compares asked for
  PlGroups,    \* injected sequences asked for, of <<channel, sample time>>
  PlCalls      \* calls (bound)

ASSUME PlAssumption ==
  /\ PlPeriod \in Nat \ {0} /\ PlCompares \subseteq Nat /\ PlCalls \in Nat
  /\ \A g \in PlGroups : g \in Seq((0 .. 17) \X (0 .. 7))

VARIABLES
  plReg,    \* the register fields, by name and index
  plCode,   \* the writes the running call has left
  plLive,   \* the counter: value, direction, the compare it works with
  plIdata,  \* IDATA0..3: the channel and sample time behind each, once converted
  plTrig,   \* the trigger the latest configure_trigger left, and whether in reach
  plGroup,  \* the group the latest configure delivered, its link, converted since
  plPass,   \* [n, want]: this period's conversions, and how many a chain set up since
            \* its start owes, or nothing known; history
  plDone,   \* plPass of the latest finished period; history
  plCount   \* calls made

plVars == <<plReg, plCode, plLive, plIdata, plTrig, plGroup, plPass, plDone, plCount>>

MaxInjected == 4   \* MAX_INJECTED_CHANNELS
Links == {"Ch3", "Trgo"}
Field(reg, i, value) == [reg |-> <<reg, i>>, value |-> value]
NoGroup == [seq |-> << >>, link |-> "Ch3", converted |-> FALSE]
Unknown == -1
NoTrig == [src |-> "Reset", reach |-> FALSE]

PlInit ==
  /\ plReg = [k \in {<<f, 0>> : f \in {"cv", "il", "etsic"}} \cup ({"field"} \X (0 .. 3))
                      \cup ({"sampt0", "sampt1"} \X (0 .. 10)) |-> 0]
             @@ [k \in {<<f, 0>> : f \in {"preload", "sm", "tsvren", "eteic"}} |-> FALSE]
             @@ (<<"trgo", 0>> :> "Reset")
  /\ plCode = << >> /\ plLive = [cnt |-> 0, up |-> TRUE, cv |-> 0]
  /\ plIdata = << >> /\ plTrig = NoTrig /\ plGroup = NoGroup
  /\ plPass = [n |-> 0, want |-> Unknown] /\ plDone = plPass /\ plCount = 0

PlCalled == plCode = << >> /\ plCount < PlCalls /\ plCount' = plCount + 1

---------------------------------------------------------------------------
(* The timer's side.                                                       *)

\* Mutant: the compare shadow is left off.
TriggerUnshadowed(compare, src) == <<Field("cv", 0, compare), Field("trgo", 0, src)>>

TriggerWrites(compare, src) ==
  <<Field("preload", 0, TRUE), Field("cv", 0, compare), Field("trgo", 0, src)>>
\* PwmTimer::configure_trigger holds the compare to nothing.
configure_trigger(compare, src) ==
  /\ PlCalled
  /\ plCode' = TriggerWrites(compare, src)
  /\ plTrig' = [src |-> src, reach |-> compare <= PlPeriod]
  /\ plPass' = [plPass EXCEPT !.want = Unknown]
  /\ UNCHANGED <<plReg, plLive, plIdata, plGroup, plDone>>

\* PwmHandle::rearm_trigger, from the handler of the period; a compare out of
\* the counter's reach is refused.
rearm_trigger(compare) ==
  /\ PlCalled /\ plTrig # NoTrig
  /\ plCode' = IF compare > PlPeriod THEN << >> ELSE <<Field("cv", 0, compare)>>
  /\ UNCHANGED <<plReg, plLive, plIdata, plTrig, plGroup, plPass, plDone>>

---------------------------------------------------------------------------
(* The converter's side.                                                   *)

is_internal_channel(channel) == channel \in {16, 17}
\* The trigger source's code; none for another timer.
etsic_for_link(timer, link) == IF timer # "Timer0" THEN {} ELSE {IF link = "Ch3" THEN 1 ELSE 0}

set_injected_length(len) == <<Field("il", 0, len - 1)>>
\* The sequence's fields are filled from the last one backwards.
set_injected_rank(rank, channel, len) == <<Field("field", 3 - ((len - 1) - rank), channel)>>
set_sample_time(channel, time) ==
  IF channel < 10 THEN <<Field("sampt1", channel, time)>>
  ELSE IF channel < 18 THEN <<Field("sampt0", channel - 10, time)>> ELSE << >>

\* configure_injected: scan mode by the number of ranks, the sequence, the
\* trigger and its enable; TSVREN for a channel inside the chip.  The data's
\* alignment, the interrupt's and the converter's enable are left to Adc.
InjectedWrites(seq, etsic) ==
  <<Field("sm", 0, Len(seq) > 1)>> \o set_injected_length(Len(seq))
  \o FlattenSeq([r \in DOMAIN seq |-> set_injected_rank(r - 1, seq[r][1], Len(seq))
                                        \o set_sample_time(seq[r][1], seq[r][2])])
  \o (IF \E r \in DOMAIN seq : is_internal_channel(seq[r][1]) THEN <<Field("tsvren", 0, TRUE)>> ELSE << >>)
  \o <<Field("etsic", 0, etsic), Field("eteic", 0, TRUE)>>

\* InjectedAdcController::configure: the refusals write nothing, and a group
\* that is running goes on running while another is written over it.
ConfigureInjected(seq, base, timer, link) ==
  /\ PlCalled
  /\ LET etsic == etsic_for_link(timer, link) IN
     IF ~base \/ Len(seq) \notin 1 .. MaxInjected \/ etsic = {} THEN UNCHANGED <<plCode, plGroup>>
     ELSE /\ plCode' = InjectedWrites(seq, CHOOSE e \in etsic : TRUE) \o <<Field("calibrate", Len(seq), seq)>>
          /\ plGroup' = [NoGroup EXCEPT !.link = link]
  /\ plPass' = [plPass EXCEPT !.want = Unknown]
  /\ UNCHANGED <<plReg, plLive, plIdata, plTrig, plDone>>

\* Calibration ends the bring-up, with the handle or without it.
CalibrateGroup ==
  /\ plCode # << >> /\ plCode[1].reg[1] = "calibrate" /\ plCode' = << >>
  /\ \E ok \in BOOLEAN : plGroup' = [plGroup EXCEPT !.seq = IF ok THEN plCode[1].value ELSE << >>]
  /\ UNCHANGED <<plReg, plLive, plIdata, plTrig, plPass, plDone, plCount>>

PlWrite ==
  /\ plCode # << >> /\ plCode[1].reg[1] # "calibrate" /\ plCode' = Tail(plCode)
  /\ plReg' = [plReg EXCEPT ![plCode[1].reg] = plCode[1].value]
  /\ plLive' = IF plCode[1].reg = <<"cv", 0>> /\ ~plReg[<<"preload", 0>>]
               THEN [plLive EXCEPT !.cv = plCode[1].value] ELSE plLive
  /\ UNCHANGED <<plIdata, plTrig, plGroup, plPass, plDone, plCount>>

---------------------------------------------------------------------------
(* The machine (external).                                                 *)

\* The group's channels are the last fields of the sequence; without scan mode
\* the first alone is converted, and an internal channel needs its enable.
Sampled(field) ==
  LET ch == plReg[<<"field", field>>]
      at == IF ch < 10 THEN <<"sampt1", ch>> ELSE <<"sampt0", ch - 10>>
  IN <<IF is_internal_channel(ch) /\ ~plReg[<<"tsvren", 0>>] THEN -1 ELSE ch, plReg[at]>>
Convert ==
  LET il == plReg[<<"il", 0>>]
      n == IF plReg[<<"sm", 0>>] THEN il + 1 ELSE 1
  IN [r \in 1 .. 4 |-> IF r <= n THEN Sampled(3 - il + r - 1)
                       ELSE IF plIdata = << >> THEN <<-1, 0>> ELSE plIdata[r]]

\* The conversions of a period whose chain was set up before it and agrees: one
\* match on the way up, or an update at either end.
Owed ==
  IF plGroup.seq = << >> \/ ~(plCode = << >> \/ (plCode[1].reg = <<"cv", 0>> /\ Len(plCode) = 1))
  THEN Unknown
  ELSE CASE plGroup.link = "Ch3" /\ plTrig.reach -> 1
         [] plGroup.link = "Trgo" /\ plTrig.src = "Update" -> 2
         [] OTHER -> Unknown

PlTick ==
  LET cnt == IF plLive.up THEN plLive.cnt + 1 ELSE plLive.cnt - 1
      turn == cnt \in {0, PlPeriod}
      match == plLive.up /\ (plLive.cv = cnt \/ (plLive.cv = 0 /\ plLive.cnt = 0))
      event == IF plReg[<<"etsic", 0>>] = 1 THEN match
               ELSE turn /\ plReg[<<"trgo", 0>>] = "Update"
      hit == event /\ plReg[<<"eteic", 0>>]
      n == plPass.n + (IF hit THEN 1 ELSE 0)
  IN /\ plLive' = [cnt |-> cnt, up |-> IF turn THEN cnt = 0 ELSE plLive.up,
                   cv |-> IF turn THEN plReg[<<"cv", 0>>] ELSE plLive.cv]
     /\ plIdata' = IF hit THEN Convert ELSE plIdata
     /\ plGroup' = [plGroup EXCEPT !.converted = @ \/ (hit /\ plGroup.seq # << >>)]
     /\ plPass' = IF cnt = 0 THEN [n |-> 0, want |-> Owed] ELSE [plPass EXCEPT !.n = n]
     /\ plDone' = IF cnt = 0 THEN [plPass EXCEPT !.n = n] ELSE plDone
     /\ UNCHANGED <<plReg, plCode, plTrig, plCount>>

PlNext ==
  \/ \E c \in PlCompares : rearm_trigger(c) \/ \E s \in {"Reset", "Update"} : configure_trigger(c, s)
  \/ \E g \in PlGroups, base \in BOOLEAN, t \in {"Timer0", "Timer7"}, l \in Links :
       ConfigureInjected(g, base, t, l)
  \/ CalibrateGroup \/ PlWrite \/ PlTick
PlSpec == PlInit /\ [][PlNext]_plVars

---------------------------------------------------------------------------
(* Properties.                                                             *)

\* Types: every value fits its field, the counter its period.
PlTypeOK ==
  /\ plLive.cnt \in 0 .. PlPeriod /\ plLive.up \in BOOLEAN
  /\ plReg[<<"il", 0>>] \in 0 .. 3 /\ \A k \in 0 .. 3 : plReg[<<"field", k>>] \in 0 .. 17
  /\ plReg[<<"sampt1", 10>>] = 0 /\ \A k \in 8 .. 10 : plReg[<<"sampt0", k>>] = 0

\* Whatever moment the compare is re-armed at, every period of a chain that was
\* set up is sampled as often as its link says: re-arming drops no sample and
\* adds none, and a refused compare leaves the trigger as it was.
SampledEachPeriod == plDone.want # Unknown => plDone.n = plDone.want

\* Once a group has converted, each IDATA its handle reads holds the channel
\* configured for that rank, sampled for the time asked for, whatever groups
\* were configured before it.
RanksInOrder ==
  plGroup.converted =>
    \A r \in DOMAIN plGroup.seq :
      LET ch == plGroup.seq[r][1]
          last == SelectLastInSeq(plGroup.seq, LAMBDA c : c[1] = ch)
      IN plIdata[r] = <<ch, plGroup.seq[last][2]>>

\* What the timer-triggered sampling chain promises: a sample in each period at
\* a compare the application set, and the ranks of the sequence in order.
PlSafe ==
  /\ PlTypeOK
  /\ SampledEachPeriod
  /\ RanksInOrder
=============================================================================
