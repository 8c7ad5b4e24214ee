--------------------------------- MODULE Probe ---------------------------------
(***************************************************************************)
(* Detection (detect/probe.rs, detect.rs): the family and the instance     *)
(* counts are found by loads that may fault, under a bus-fault handler     *)
(* that lives in a relocated vector table for the duration.  A call is the *)
(* sequence of the operations it has left, so every fault falls between    *)
(* two of them.                                                            *)
(***************************************************************************)
EXTENDS Descriptor, Sequences

Units == <<"Timer0", "Timer7", "Adc0", "Adc1", "Adc2">>
UnitSet == {Units[i] : i \in 1..5}

CONSTANTS
  PrParts,   \* parts: [family, kib, page, units : the optional units it has]
  PrBody,    \* widths of probe_read32's instructions: the load, the move of its
             \* result (the load's `out` register is not its address's), the return
  PrUses,    \* units the application clocks for itself
  PrCalls    \* calls made (bound)

ASSUME PrAssumption ==
  /\ \A p \in PrParts : p.family \in Families \cup {"none"} /\ p.units \subseteq Labels
  /\ PrBody \in Seq({2, 4}) /\ Len(PrBody) >= 3 /\ PrUses \subseteq UnitSet /\ PrCalls \in Nat

VARIABLES
  prPart,   \* the silicon: the part, what an absent slot does, where a fault's PC is
  prScb,    \* VTOR ("App" or "Probe"), SHCSR.BUSFAULTENA, CFSR
  prFlag,   \* EXPECTING_FAULT, FAULTED, the loaded value
  prRcu,    \* clocked units; "PA" is GPIO port A
  prScratch,\* each unit's scratch register holds the pattern
  prCode,   \* the operations the running call has left
  prSaved,  \* what its frames have saved, innermost first
  prFault,  \* the exception being taken: position of its stacked PC
  prFound,  \* the call's results
  prApp,    \* the application: its BUSFAULTENA, its calls, the clocks before the latest
  prEnd     \* "no", or how execution was lost; history

prVars == <<prPart, prScb, prFlag, prRcu, prScratch, prCode, prSaved, prFault, prFound, prApp, prEnd>>

---------------------------------------------------------------------------
(* The calls, as sequences of operations.                                  *)

Op(name) == [op |-> name]
Harness(body) == <<Op("install")>> \o body \o <<Op("vectors")>>
Armed(body) == <<Op("enable")>> \o body \o <<Op("disable")>>
ClockOp(unit) == [op |-> "clock", unit |-> unit]
\* probe_candidate, probe_present: a load inside the expectation.
Guarded(addr) == <<Op("expect"), [op |-> "load", addr |-> addr], Op("unexpect")>>

ProbeFamily ==
  <<ClockOp("PA")>> \o Guarded("GpioF1x0")
    \o <<[op |-> "family", is |-> "F1x0",
          otherwise |-> <<ClockOp("PA")>> \o Guarded("GpioF10x")
            \o <<[op |-> "family", is |-> "F10x", otherwise |-> << >>]>>]>>
scratch_present(unit) ==
  Guarded(unit)
    \o <<[op |-> "present",
          then |-> <<[op |-> "write", unit |-> unit, pattern |-> TRUE]>> \o Guarded(unit)
            \o <<[op |-> "retained", unit |-> unit],
                 [op |-> "write", unit |-> unit, pattern |-> FALSE]>>]>>

Each(F(_)) == F("Timer0") \o F("Timer7") \o F("Adc0") \o F("Adc1") \o F("Adc2")
Sweep(unit) == <<ClockOp(unit)>> \o scratch_present(unit)
measure_counts == Harness(Armed(<<Op("saveClocks")>> \o Each(Sweep) \o <<Op("clocks")>>))
run == Harness(Armed(ProbeFamily)) \o <<Op("measure")>>

\* bench-fw/probe: every signal of a unit, its record, and the magic word last.
measure(unit) ==
  <<ClockOp(unit)>> \o Guarded(unit)
    \o <<[op |-> "present", then |-> scratch_present(unit)], [op |-> "record", unit |-> unit]>>
Report == run \o <<[op |-> "ifFamily", then |-> Harness(Armed(Each(measure)))], Op("magic")>>
\* bench-fw/faultpin: one load of a reserved address.
FaultPin == Harness(Armed(Guarded("Reserved"))) \o <<Op("magic")>>
\* The public pieces, one inside the other.
Nested == Harness(Armed(measure_counts))

Programs == {"detect", "report", "faultpin", "nested"}
PrProgram(name) == CASE name = "detect" -> run [] name = "report" -> Report
                   [] name = "faultpin" -> FaultPin [] name = "nested" -> Nested

---------------------------------------------------------------------------
(* The silicon (external).                                                 *)

Has(unit) == unit \in prPart.is.units \cup (IF prPart.is.family = "none" THEN {} ELSE {"Timer0", "Adc0"})
Faults(addr) ==
  CASE addr = "GpioF1x0" -> prPart.is.family # "F1x0"
    [] addr = "GpioF10x" -> prPart.is.family # "F10x"
    [] addr = "Reserved" -> TRUE
    [] OTHER -> ~Has(addr) /\ prPart.absent = "fault"
ScratchValue(addr) == addr \in UnitSet /\ Has(addr) /\ addr \in prRcu /\ prScratch[addr]

\* The byte offset of each instruction of probe_read32, and its end.
Offset[i \in 1..(Len(PrBody) + 1)] == IF i = 1 THEN 0 ELSE Offset[i - 1] + PrBody[i - 1]
Extent == Offset[Len(PrBody) + 1]

---------------------------------------------------------------------------
NothingFound == [family |-> "none", units |-> {}, chip |-> [family |-> "none"],
                 records |-> << >>, magic |-> FALSE]

PrInit ==
  /\ prPart \in [is : PrParts, absent : {"zero", "fault"}, stacks : {"load", "after", "caller"}]
  /\ prApp \in [busfault : BOOLEAN, before : {{}}, calls : {0}, running : {"none"}]
  /\ prScb = [vtor |-> "App", busfault |-> prApp.busfault, cfsr |-> FALSE]
  /\ prFlag = [expecting |-> FALSE, faulted |-> FALSE, value |-> FALSE]
  /\ prRcu = {}
  /\ prScratch = [u \in UnitSet |-> FALSE]
  /\ prCode = << >> /\ prSaved = << >>
  /\ prFault = "none"
  /\ prFound = NothingFound
  /\ prEnd = [how |-> "no", stray |-> FALSE, skipped |-> FALSE, again |-> FALSE]

Alive == prEnd.how = "no" /\ prFault = "none"

\* The application calls in, or clocks a unit of its own.
Call(name) ==
  /\ Alive /\ prCode = << >> /\ prApp.calls < PrCalls
  /\ prCode' = PrProgram(name)
  /\ prApp' = [prApp EXCEPT !.calls = @ + 1, !.running = name, !.before = prRcu]
  /\ prFound' = NothingFound
  /\ UNCHANGED <<prPart, prScb, prFlag, prRcu, prScratch, prSaved, prFault, prEnd>>
UseUnit(unit) ==
  /\ Alive /\ prCode = << >> /\ unit \notin prRcu
  /\ prApp' = [prApp EXCEPT !.before = @ \cup {unit}]
  /\ prRcu' = prRcu \cup {unit}
  /\ UNCHANGED <<prPart, prScb, prFlag, prScratch, prCode, prSaved, prFault, prFound, prEnd>>

---------------------------------------------------------------------------
(* One operation.                                                          *)

Next(name) == Alive /\ prCode # << >> /\ prCode[1].op = name
Go == prCode' = Tail(prCode)

\* with_probe_vector_table, around its closure.
Vectors ==
  \/ /\ Next("install") /\ Go
     /\ prScb' = [prScb EXCEPT !.vtor = "Probe"]
     /\ prSaved' = <<prScb.vtor>> \o prSaved
     /\ UNCHANGED <<prPart, prFlag, prRcu, prScratch, prFault, prFound, prApp, prEnd>>
  \/ /\ Next("vectors") /\ Go
     /\ prScb' = [prScb EXCEPT !.vtor = Head(prSaved)]
     /\ prSaved' = Tail(prSaved)
     /\ UNCHANGED <<prPart, prFlag, prRcu, prScratch, prFault, prFound, prApp, prEnd>>

\* arm_busfault and disarm_busfault (and run's own pair).
Enable ==
  \/ /\ Next("enable") /\ Go
     /\ prScb' = [prScb EXCEPT !.busfault = TRUE]
     /\ prSaved' = <<prScb.busfault>> \o prSaved
     /\ UNCHANGED <<prPart, prFlag, prRcu, prScratch, prFault, prFound, prApp, prEnd>>
  \/ /\ Next("disable") /\ Go
     /\ prScb' = [prScb EXCEPT !.busfault = Head(prSaved) /\ @]
     /\ prSaved' = Tail(prSaved)
     /\ prFlag' = [prFlag EXCEPT !.expecting = FALSE]
     /\ UNCHANGED <<prPart, prRcu, prScratch, prFault, prFound, prApp, prEnd>>

\* rcu_set_bit, rcu_enable_sticky, and measure_counts' snapshot of APB2EN.
Clocks ==
  \/ /\ Next("clock") /\ Go
     /\ prRcu' = prRcu \cup {prCode[1].unit}
     /\ UNCHANGED <<prPart, prScb, prFlag, prScratch, prSaved, prFault, prFound, prApp, prEnd>>
  \/ /\ Next("saveClocks") /\ Go
     /\ prSaved' = <<prRcu>> \o prSaved
     /\ UNCHANGED <<prPart, prScb, prFlag, prRcu, prScratch, prFault, prFound, prApp, prEnd>>
  \/ /\ Next("clocks") /\ Go
     /\ prRcu' = Head(prSaved) /\ prSaved' = Tail(prSaved)
     /\ UNCHANGED <<prPart, prScb, prFlag, prScratch, prFault, prFound, prApp, prEnd>>

\* The expectation around a guarded load.
Expect ==
  \/ /\ Next("expect") /\ Go
     /\ prFlag' = [prFlag EXCEPT !.expecting = TRUE, !.faulted = FALSE]
     /\ UNCHANGED <<prPart, prScb, prRcu, prScratch, prSaved, prFault, prFound, prApp, prEnd>>
  \/ /\ Next("unexpect") /\ Go
     /\ prFlag' = [prFlag EXCEPT !.expecting = FALSE]
     /\ UNCHANGED <<prPart, prScb, prRcu, prScratch, prSaved, prFault, prFound, prApp, prEnd>>

\* probe_read32: the load returns, or faults with its PC at the load, at the
\* instruction after it, or already back in the caller.
probe_read32 ==
  /\ Next("load")
  /\ IF Faults(prCode[1].addr)
     THEN /\ prFault' = prPart.stacks
          /\ prScb' = [prScb EXCEPT !.cfsr = TRUE]
          /\ UNCHANGED <<prCode, prFlag>>
     ELSE /\ Go
          /\ prFlag' = [prFlag EXCEPT !.value = ScratchValue(prCode[1].addr)]
          /\ UNCHANGED <<prFault, prScb>>
  /\ UNCHANGED <<prPart, prRcu, prScratch, prSaved, prFound, prApp, prEnd>>

\* A store to a scratch register: an absent or unclocked unit keeps nothing.
WriteScratch ==
  /\ Next("write") /\ Go
  /\ LET u == prCode[1].unit IN
     IF Faults(u)
     THEN prEnd' = [prEnd EXCEPT !.how = "spin"] /\ UNCHANGED prScratch
     ELSE /\ prScratch' = IF Has(u) /\ u \in prRcu THEN [prScratch EXCEPT ![u] = prCode[1].pattern]
                          ELSE prScratch
          /\ UNCHANGED prEnd
  /\ UNCHANGED <<prPart, prScb, prFlag, prRcu, prSaved, prFault, prFound, prApp>>

\* What a call makes of a load.
Conclude ==
  /\ \/ /\ Next("family")
        /\ IF prFlag.faulted
           THEN prCode' = prCode[1].otherwise \o Tail(prCode) /\ UNCHANGED prFound
           ELSE Go /\ prFound' = [prFound EXCEPT !.family = prCode[1].is]
     \/ /\ Next("present")
        /\ prCode' = (IF prFlag.faulted THEN << >> ELSE prCode[1].then) \o Tail(prCode)
        /\ UNCHANGED prFound
     \/ /\ Next("retained") /\ Go
        /\ prFound' = IF ~prFlag.faulted /\ prFlag.value
                      THEN [prFound EXCEPT !.units = @ \cup {prCode[1].unit}] ELSE prFound
     \/ /\ Next("measure")
        /\ prCode' = (IF prFound.family = "none" THEN << >>
                      ELSE measure_counts \o <<Op("synthesize")>>) \o Tail(prCode)
        /\ UNCHANGED prFound
     \/ /\ Next("synthesize") /\ Go
        /\ prFound' = [prFound EXCEPT !.chip =
             synthesize([family |-> prFound.family, kib |-> prPart.is.kib,
                         timers |-> Cardinality(prFound.units \cap {"Timer0", "Timer7"}),
                         adcs |-> Cardinality(prFound.units \cap {"Adc0", "Adc1", "Adc2"})])]
     \/ /\ Next("ifFamily")
        /\ prCode' = (IF prFound.family = "none" THEN << >> ELSE prCode[1].then) \o Tail(prCode)
        /\ prFound' = [prFound EXCEPT !.units = {}]
     \/ /\ Next("record") /\ Go
        /\ prFound' = [prFound EXCEPT !.records =
             Append(@, IF prCode[1].unit \in prFound.units THEN "PRESENT" ELSE "DISAGREE")]
     \/ /\ Next("magic") /\ Go
        /\ prFound' = [prFound EXCEPT !.magic = TRUE]
  /\ UNCHANGED <<prPart, prScb, prFlag, prRcu, prScratch, prSaved, prFault, prApp, prEnd>>

---------------------------------------------------------------------------
(* The exception.                                                          *)

\* An access of the application's (in a closure, or in an interrupt) faults.
Stray ==
  /\ Alive /\ ~prEnd.stray
  /\ prFault' = "stray"
  /\ prScb' = [prScb EXCEPT !.cfsr = TRUE]
  /\ prEnd' = [prEnd EXCEPT !.stray = TRUE]
  /\ UNCHANGED <<prPart, prFlag, prRcu, prScratch, prCode, prSaved, prFound, prApp>>

\* The exception's PC, in bytes from probe_read32: a caller's, and that of the
\* application's access, are not inside it.
StackedPc == CASE prFault = "load" -> Offset[1] [] prFault = "after" -> Offset[2] [] OTHER -> Extent
\* Mutant: every fault is the load's, wherever its PC is.
ResumeUngated(pc) == pc + 2

WidthAt(pc) == PrBody[CHOOSE i \in 1..Len(PrBody) : Offset[i] = pc]
\* The instruction at a PC inside is stepped over, any other PC is kept.
resume_pc_range_gated(pc) == IF pc < Extent THEN pc + WidthAt(pc) ELSE pc

\* bus_fault_entry, on_bus_fault and the return.  Without the probe's table
\* and enable the fault is the application's; unexpected, the entry spins.
\* A PC outside probe_read32 is left: a caller's continues, a stray access
\* is re-executed and faults again.  A PC moved past the end is lost.
on_bus_fault ==
  /\ prEnd.how = "no" /\ prFault # "none"
  /\ IF ~(prScb.vtor = "Probe" /\ prScb.busfault)
     THEN prEnd' = [prEnd EXCEPT !.how = "application"] /\ UNCHANGED <<prScb, prFlag, prFault, prCode>>
     ELSE IF ~prFlag.expecting
     THEN prEnd' = [prEnd EXCEPT !.how = "spin"] /\ UNCHANGED <<prScb, prFlag, prFault, prCode>>
     ELSE LET to == resume_pc_range_gated(StackedPc) IN
          /\ prScb' = [prScb EXCEPT !.cfsr = FALSE]
          /\ prFlag' = [prFlag EXCEPT !.faulted = TRUE]
          /\ prFault' = "none"
          /\ prEnd' = [prEnd EXCEPT
               !.how = IF prFault = "stray" /\ to = StackedPc THEN "loop"
                       ELSE IF StackedPc < Extent /\ to >= Extent THEN "lost" ELSE @,
               !.skipped = @ \/ (StackedPc >= Extent /\ to # StackedPc),
               !.again = @ \/ to = Offset[1]]
          /\ prCode' = IF prFault = "stray" \/ to = Offset[1] THEN prCode ELSE Tail(prCode)
  /\ UNCHANGED <<prPart, prRcu, prScratch, prSaved, prFound, prApp>>

PrStep == Vectors \/ Enable \/ Clocks \/ Expect \/ probe_read32 \/ WriteScratch \/ Conclude
PrNext == \/ \E name \in Programs : Call(name)
          \/ \E unit \in PrUses : UseUnit(unit)
          \/ PrStep \/ Stray \/ on_bus_fault
PrSpec == PrInit /\ [][PrNext]_prVars

---------------------------------------------------------------------------
(* Properties.                                                             *)

\* Types; and every frame a call saved is taken back by the time it returns.
PrTypeOK ==
  /\ prScb \in [vtor : {"App", "Probe"}, busfault : BOOLEAN, cfsr : BOOLEAN]
  /\ prFlag \in [expecting : BOOLEAN, faulted : BOOLEAN, value : BOOLEAN]
  /\ prRcu \subseteq UnitSet \cup {"PA"}
  /\ prFault \in {"none", "load", "after", "caller", "stray"}
  /\ Alive /\ prCode = << >> => prSaved = << >>

\* A fault is expected only while it can reach the handler that expects it:
\* the table is in, the fault enabled, in whatever order calls are nested.
ArmedInside == prFlag.expecting => prScb.vtor = "Probe" /\ prScb.busfault

\* No load of detection's own ends the program, whichever of the three PCs
\* the core stacks, and none is taken twice.
SurvivesProbing == (prEnd.how # "no" => prEnd.stray) /\ ~prEnd.again

\* The handler never moves a PC that is not inside probe_read32: neither a
\* caller's next instruction nor a faulting access of the application is
\* skipped.
NothingSkipped == ~prEnd.skipped

\* A call returns with the vectors, the fault enable, the scratch registers
\* and (bench report aside) the clocks as it found them, and no expectation.
Returned == Alive /\ prCode = << >>
LeftAsFound ==
  Returned =>
    /\ prScb.vtor = "App" /\ prScb.busfault = prApp.busfault /\ ~prFlag.expecting
    /\ \A u \in UnitSet : ~prScratch[u]
    /\ prApp.running \in {"detect", "nested"} => prRcu \ {"PA"} = prApp.before \ {"PA"}

\* What detection returns is the silicon: the family, the units that are
\* there and no other, the page size; an unknown part is no chip at all.
Detected == Returned /\ prApp.running \in {"detect", "report"}
Optional == {"Timer7", "Adc1", "Adc2", "I2c1", "Usart2"}
DetectsTruth ==
  Detected =>
    /\ prFound.family = prPart.is.family /\ prFound.chip.family = prPart.is.family
    /\ prFound.family # "none" =>
         /\ {l \in Optional : Resolves(prFound.chip, l)} = prPart.is.units \cap Optional
         /\ prFound.chip.page = prPart.is.page

\* The bench report's reader polls the magic word: once it is there every
\* record is, and each says what the silicon has.
ReportWhole ==
  (prFound.magic /\ prApp.running = "report" /\ prFound.family # "none") =>
    /\ Len(prFound.records) = 5
    /\ \A i \in 1..5 : prFound.records[i] = "PRESENT" <=> Has(Units[i])

Chip == prFound.chip
HaveChip == Returned /\ Chip.family # "none"

\* Every driver accepts the base its label carries, no two labels' registers
\* share a block, and nothing that is not carried is accepted.
DriversAccept ==
  HaveChip =>
    /\ check_ranges(Chip)
    /\ \A l \in DOMAIN Chip.bases \ (Ports \cup {"Rcu", "UniqueId", "Adc2"}) : Checked(Chip, l)
    /\ \A l, m \in DOMAIN Chip.bases :
         l # m => Chip.bases[l] \div \h400 # Chip.bases[m] \div \h400
    /\ \A l \in AdcHandles(Chip) : Checked(Chip, l)
    /\ \A l \in Labels \ DOMAIN Chip.bases : ~Checked(Chip, l)

\* The pin queries answer only what the part can do: an instance that is
\* carried, a pin that is bonded, one channel per pin; and a gate pin is no
\* analog, I2C or foreign timer's pin.
CapsHonest ==
  HaveChip =>
    /\ \A scl, sda \in {22, 23, 26, 27} :
         \A i \in i2c_instance(Chip, scl, sda) : check_i2c_base(Chip, i)
    /\ \A p \in Packed :
         /\ gate_capable(Chip, p) => pin_exists(Chip, p)
         /\ \A c \in adc_channel(Chip, p) :
              pin_exists(Chip, p) /\ \A q \in Packed \ {p} : c \notin adc_channel(Chip, q)
    /\ \A t \in {"Timer0", "Timer7"} :
         gate_set(Chip, TimerHi[t], TimerLo[t]) \subseteq {t}
         /\ (gate_set(Chip, TimerHi[t], TimerLo[t]) # {} <=> \A p \in TimerPins(t) : gate_capable(Chip, p))

\* What detection promises: faults expected only inside a probe, survived and
\* never swallowed outside one, a part left as it was found, a truthful result,
\* and a descriptor the drivers accept and that claims no more than is there.
PrSafe ==
  /\ PrTypeOK
  /\ ArmedInside
  /\ SurvivesProbing
  /\ NothingSkipped
  /\ LeftAsFound
  /\ DetectsTruth
  /\ ReportWhole
  /\ DriversAccept
  /\ CapsHonest
=============================================================================
