--------------------------- MODULE RingIrqProofs ---------------------------
(***************************************************************************)
(* The receive ring and the interrupts that fill it.                       *)
(*                                                                         *)
(* The routing (IrqRoute): IrSafe, for every set of ports. The invariant   *)
(* says what is installed when a line can fire (PlaceInv), which           *)
(* priorities are written (PrioInv), that an activation holds only slots   *)
(* of its own line, each called or still to come (StackInv), and that each *)
(* activation is more urgent than the one below it (NestInv).              *)
(*                                                                         *)
(* The ring (RxRing): safety for every ring size, every byte set and any   *)
(* number of bytes. The inductive invariant relates the indices to the two *)
(* histories: InOrder alone is not inductive, because the step that        *)
(* publishes or frees a slot relies on what the steps before it did.       *)
(***************************************************************************)
EXTENDS RxRing, IrqRoute, SequenceTheorems, TLAPS

---------------------------------------------------------------------------
(* The interrupt routing (IrqRoute).                                      *)

Activation == [line : Lines, rest : Seq(Slots), called : SUBSET Slots, due : SUBSET Slots]
Ports == {"Usart0", "Usart1", "Usart2"}
Sources(layout) == {e \in Slots : e = Control \/ HasPort(layout, e[2])}
Written(u) == \A i \in 1..Len(irTodo) : irTodo[i] # u
Levels == {0, MotorPriority, UsartPriority, DmaPriority}

PlaceInv ==
  /\ irLayout \in IrLayouts \cap {"F1x0Grouped", "F10xSeparate"}
  /\ irSlots \subseteq Wanted
  /\ irRaised \subseteq Wanted
  /\ irTable # << >> => irTable = BuildTable(irLayout)
  /\ irSlots # {} => irTable = BuildTable(irLayout)
  /\ \A l \in irOn : \E e \in irSlots : LineOf(irLayout, e) = l

PrioInv ==
  /\ irTodo \in Seq({"period"} \cup Ports)
  /\ irPrio \in [Lines -> Levels]
  /\ Written("period") => irPrio[PeriodIrq(irLayout)] = MotorPriority
  /\ \A p \in Ports : HasPort(irLayout, p) /\ Written(p) =>
       LET v == UsartIrqs(irLayout, p) IN
       /\ irPrio[v.rx] = UsartPriority
       /\ irPrio[v.dma_rx] = DmaPriority
       /\ irPrio[v.dma_tx] = DmaPriority

Own(a) ==
  /\ a.line \in irOn
  /\ \A k \in 1..Len(a.rest) : LineOf(irLayout, a.rest[k]) = a.line
  /\ \A s \in a.called : LineOf(irLayout, s) = a.line
  /\ \A s \in a.due : s \in a.called \/ \E k \in 1..Len(a.rest) : a.rest[k] = s

StackInv ==
  /\ irStack \in Seq(Activation)
  /\ \A i \in 1..Len(irStack) : Own(irStack[i])

NestInv ==
  \A i, j \in 1..Len(irStack) : i < j => irPrio[irStack[j].line] < irPrio[irStack[i].line]

IrIInv == PlaceInv /\ PrioInv /\ StackInv /\ NestInv

\* What the entry of a line calls.
Entry(layout, l) == Body[BuildTable(layout)[l]]

---------------------------------------------------------------------------
(* The tables.                                                             *)

\* The sources of a layout, told apart: the period interrupt and the three
\* events of each port.
LEMMA SourceCases ==
  ASSUME NEW layout \in {"F1x0Grouped", "F10xSeparate"}, NEW e \in Sources(layout)
  PROVE \/ e = Control
        \/ \E p \in Ports : HasPort(layout, p) /\
             (e = <<"rx", p>> \/ e = <<"dma_rx", p>> \/ e = <<"dma_tx", p>>)
<1>1. CASE e = Control
  BY <1>1
<1>2. CASE e # Control
  <2>1. HasPort(layout, e[2])
    BY <1>2 DEF Sources
  <2>2. e \in UsartSlots \cup DmaRxSlots \cup DmaTxSlots
    BY <1>2 DEF Sources, Slots
  <2>3. PICK p \in Ports : e \in {<<"rx", p>>, <<"dma_rx", p>>, <<"dma_tx", p>>}
    BY <2>2 DEF UsartSlots, DmaRxSlots, DmaTxSlots, Ports
  <2>4. e[2] = p
    BY <2>3
  <2> QED BY <2>1, <2>3, <2>4
<1> QED BY <1>1, <1>2

\* The entry of each line of F1x0Grouped.
LEMMA GroupedEntries ==
  /\ BuildTable("F1x0Grouped")[12] = "adc_isr"
  /\ BuildTable("F1x0Grouped")[28] = "usart1_rx_isr"
  /\ BuildTable("F1x0Grouped")[11] = "dma_ch3_4_isr"
  /\ BuildTable("F1x0Grouped")[27] = "usart0_rx_isr"
  /\ BuildTable("F1x0Grouped")[10] = "dma_ch1_2_isr"
  /\ DOMAIN BuildTable("F1x0Grouped") = {12, 28, 11, 27, 10}
BY DEF BuildTable

\* The entry of each line of F10xSeparate.
LEMMA SeparateEntries ==
  /\ BuildTable("F10xSeparate")[18] = "adc_isr"
  /\ BuildTable("F10xSeparate")[38] = "usart1_rx_isr"
  /\ BuildTable("F10xSeparate")[39] = "usart2_rx_isr"
  /\ BuildTable("F10xSeparate")[37] = "usart0_rx_isr"
  /\ BuildTable("F10xSeparate")[15] = "usart0_dma_rx_isr"
  /\ BuildTable("F10xSeparate")[14] = "usart0_dma_tx_isr"
  /\ BuildTable("F10xSeparate")[16] = "dma_rx_isr"
  /\ BuildTable("F10xSeparate")[17] = "dma_tx_isr"
  /\ BuildTable("F10xSeparate")[13] = "usart2_dma_rx_isr"
  /\ BuildTable("F10xSeparate")[12] = "usart2_dma_tx_isr"
  /\ DOMAIN BuildTable("F10xSeparate") = {18, 38, 39, 37, 15, 14, 16, 17, 13, 12}
BY DEF BuildTable

\* The line of the period interrupt and of each event of a port.
LEMMA LineCases ==
  ASSUME NEW layout \in {"F1x0Grouped", "F10xSeparate"}, NEW p \in Ports
  PROVE /\ LineOf(layout, Control) = PeriodIrq(layout)
        /\ LineOf(layout, <<"rx", p>>) = UsartIrqs(layout, p).rx
        /\ LineOf(layout, <<"dma_rx", p>>) = UsartIrqs(layout, p).dma_rx
        /\ LineOf(layout, <<"dma_tx", p>>) = UsartIrqs(layout, p).dma_tx
BY DEF LineOf, Control

\* usart_irqs, line by line.
LEMMA UsartLines ==
  /\ PeriodIrq("F1x0Grouped") = 12 /\ PeriodIrq("F10xSeparate") = 18
  /\ UsartIrqs("F1x0Grouped", "Usart0") = [rx |-> 27, dma_rx |-> 10, dma_tx |-> 10]
  /\ UsartIrqs("F1x0Grouped", "Usart1") = [rx |-> 28, dma_rx |-> 11, dma_tx |-> 11]
  /\ UsartIrqs("F10xSeparate", "Usart0") = [rx |-> 37, dma_rx |-> 15, dma_tx |-> 14]
  /\ UsartIrqs("F10xSeparate", "Usart1") = [rx |-> 38, dma_rx |-> 16, dma_tx |-> 17]
  /\ UsartIrqs("F10xSeparate", "Usart2") = [rx |-> 39, dma_rx |-> 13, dma_tx |-> 12]
  /\ HasPort("F1x0Grouped", "Usart0") /\ HasPort("F1x0Grouped", "Usart1")
  /\ ~HasPort("F1x0Grouped", "Usart2")
  /\ \A p \in Ports : HasPort("F10xSeparate", p)
<1>1. UsartIrqs("F1x0Grouped", "Usart0") = [rx |-> 27, dma_rx |-> 10, dma_tx |-> 10]
  BY DEF UsartIrqs
<1>2. UsartIrqs("F1x0Grouped", "Usart1") = [rx |-> 28, dma_rx |-> 11, dma_tx |-> 11]
  BY DEF UsartIrqs
<1>3. UsartIrqs("F10xSeparate", "Usart0") = [rx |-> 37, dma_rx |-> 15, dma_tx |-> 14]
  BY DEF UsartIrqs
<1>4. UsartIrqs("F10xSeparate", "Usart1") = [rx |-> 38, dma_rx |-> 16, dma_tx |-> 17]
  BY DEF UsartIrqs
<1>5. UsartIrqs("F10xSeparate", "Usart2") = [rx |-> 39, dma_rx |-> 13, dma_tx |-> 12]
  BY DEF UsartIrqs
<1> QED BY <1>1, <1>2, <1>3, <1>4, <1>5 DEF PeriodIrq, HasPort

\* Every source has an entry, on a line of the NVIC.
LEMMA SourceHasEntry ==
  ASSUME NEW layout \in {"F1x0Grouped", "F10xSeparate"}, NEW e \in Sources(layout)
  PROVE LineOf(layout, e) \in DOMAIN BuildTable(layout) /\ LineOf(layout, e) \in Lines
<1>1. CASE e = Control
  BY <1>1, UsartLines, GroupedEntries, SeparateEntries DEF Lines, LineOf
<1>2. ASSUME NEW p \in Ports, HasPort(layout, p),
             e = <<"rx", p>> \/ e = <<"dma_rx", p>> \/ e = <<"dma_tx", p>>
      PROVE LineOf(layout, e) \in DOMAIN BuildTable(layout) /\ LineOf(layout, e) \in Lines
  <2> DEFINE v == UsartIrqs(layout, p)
  <2>1. {v.rx, v.dma_rx, v.dma_tx} \subseteq DOMAIN BuildTable(layout) \cap Lines
    <3>1. CASE layout = "F1x0Grouped" /\ p = "Usart0"
      BY <3>1, UsartLines, GroupedEntries DEF Lines
    <3>2. CASE layout = "F1x0Grouped" /\ p = "Usart1"
      BY <3>2, UsartLines, GroupedEntries DEF Lines
    <3>3. CASE layout = "F10xSeparate" /\ p = "Usart0"
      BY <3>3, UsartLines, SeparateEntries DEF Lines
    <3>4. CASE layout = "F10xSeparate" /\ p = "Usart1"
      BY <3>4, UsartLines, SeparateEntries DEF Lines
    <3>5. CASE layout = "F10xSeparate" /\ p = "Usart2"
      BY <3>5, UsartLines, SeparateEntries DEF Lines
    <3> QED BY <1>2, <3>1, <3>2, <3>3, <3>4, <3>5, UsartLines DEF Ports
  <2>2. LineOf(layout, e) \in {v.rx, v.dma_rx, v.dma_tx}
    BY <1>2, LineCases
  <2> QED BY <2>1, <2>2
<1> QED BY <1>1, <1>2, SourceCases

\* The body of each vector, by name.
LEMMA BodyOf ==
  /\ Body["adc_isr"] = <<Control>>
  /\ Body["usart1_rx_isr"] = <<<<"rx", "Usart1">>>>
  /\ Body["usart2_rx_isr"] = <<<<"rx", "Usart2">>>>
  /\ Body["usart0_rx_isr"] = <<<<"rx", "Usart0">>>>
  /\ Body["dma_ch1_2_isr"] = <<<<"dma_rx", "Usart0">>, <<"dma_tx", "Usart0">>>>
  /\ Body["usart0_dma_rx_isr"] = <<<<"dma_rx", "Usart0">>>>
  /\ Body["usart0_dma_tx_isr"] = <<<<"dma_tx", "Usart0">>>>
  /\ Body["dma_rx_isr"] = <<<<"dma_rx", "Usart1">>>>
  /\ Body["dma_ch3_4_isr"] = <<<<"dma_rx", "Usart1">>, <<"dma_tx", "Usart1">>>>
  /\ Body["dma_tx_isr"] = <<<<"dma_tx", "Usart1">>>>
  /\ Body["usart2_dma_rx_isr"] = <<<<"dma_rx", "Usart2">>>>
  /\ Body["usart2_dma_tx_isr"] = <<<<"dma_tx", "Usart2">>>>
<1>1. Body["adc_isr"] = <<Control>>
  BY SMT DEF Body
<1>2. Body["usart1_rx_isr"] = <<<<"rx", "Usart1">>>>
  BY SMT DEF Body
<1>3. Body["usart2_rx_isr"] = <<<<"rx", "Usart2">>>>
  BY SMT DEF Body
<1>4. Body["usart0_rx_isr"] = <<<<"rx", "Usart0">>>>
  BY SMT DEF Body
<1>5. Body["dma_ch1_2_isr"] = <<<<"dma_rx", "Usart0">>, <<"dma_tx", "Usart0">>>>
  BY SMT DEF Body
<1>6. Body["usart0_dma_rx_isr"] = <<<<"dma_rx", "Usart0">>>>
  BY SMT DEF Body
<1>7. Body["usart0_dma_tx_isr"] = <<<<"dma_tx", "Usart0">>>>
  BY SMT DEF Body
<1>8. Body["dma_rx_isr"] = <<<<"dma_rx", "Usart1">>>>
  BY SMT DEF Body
<1>9. Body["dma_ch3_4_isr"] = <<<<"dma_rx", "Usart1">>, <<"dma_tx", "Usart1">>>>
  BY SMT DEF Body
<1>10. Body["dma_tx_isr"] = <<<<"dma_tx", "Usart1">>>>
  BY SMT DEF Body
<1>11. Body["usart2_dma_rx_isr"] = <<<<"dma_rx", "Usart2">>>>
  BY SMT DEF Body
<1>12. Body["usart2_dma_tx_isr"] = <<<<"dma_tx", "Usart2">>>>
  BY SMT DEF Body
<1> QED BY <1>1, <1>2, <1>3, <1>4, <1>5, <1>6, <1>7, <1>8, <1>9, <1>10, <1>11, <1>12

\* The body each line of F1x0Grouped runs.
LEMMA GroupedBodies ==
  /\ Entry("F1x0Grouped", 12) = <<Control>>
  /\ Entry("F1x0Grouped", 28) = <<<<"rx", "Usart1">>>>
  /\ Entry("F1x0Grouped", 11) = <<<<"dma_rx", "Usart1">>, <<"dma_tx", "Usart1">>>>
  /\ Entry("F1x0Grouped", 27) = <<<<"rx", "Usart0">>>>
  /\ Entry("F1x0Grouped", 10) = <<<<"dma_rx", "Usart0">>, <<"dma_tx", "Usart0">>>>
<1>1. Entry("F1x0Grouped", 12) = <<Control>>
  BY BodyOf, GroupedEntries, Zenon DEF Entry
<1>2. Entry("F1x0Grouped", 28) = <<<<"rx", "Usart1">>>>
  BY BodyOf, GroupedEntries, Zenon DEF Entry
<1>3. Entry("F1x0Grouped", 11) = <<<<"dma_rx", "Usart1">>, <<"dma_tx", "Usart1">>>>
  BY BodyOf, GroupedEntries, Zenon DEF Entry
<1>4. Entry("F1x0Grouped", 27) = <<<<"rx", "Usart0">>>>
  BY BodyOf, GroupedEntries, Zenon DEF Entry
<1>5. Entry("F1x0Grouped", 10) = <<<<"dma_rx", "Usart0">>, <<"dma_tx", "Usart0">>>>
  BY BodyOf, GroupedEntries, Zenon DEF Entry
<1> QED BY <1>1, <1>2, <1>3, <1>4, <1>5

\* The line of each source of F1x0Grouped.
LEMMA GroupedLines ==
  /\ LineOf("F1x0Grouped", Control) = 12
  /\ LineOf("F1x0Grouped", <<"rx", "Usart1">>) = 28
  /\ LineOf("F1x0Grouped", <<"dma_rx", "Usart1">>) = 11
  /\ LineOf("F1x0Grouped", <<"dma_tx", "Usart1">>) = 11
  /\ LineOf("F1x0Grouped", <<"rx", "Usart0">>) = 27
  /\ LineOf("F1x0Grouped", <<"dma_rx", "Usart0">>) = 10
  /\ LineOf("F1x0Grouped", <<"dma_tx", "Usart0">>) = 10
<1>1. LineOf("F1x0Grouped", Control) = 12
  BY UsartLines DEF LineOf
<1>2. LineOf("F1x0Grouped", <<"rx", "Usart0">>) = 27 /\ LineOf("F1x0Grouped", <<"dma_rx", "Usart0">>) = 10
      /\ LineOf("F1x0Grouped", <<"dma_tx", "Usart0">>) = 10
  <2>1. UsartIrqs("F1x0Grouped", "Usart0") = [rx |-> 27, dma_rx |-> 10, dma_tx |-> 10]
    BY UsartLines
  <2>2. "Usart0" \in Ports
    BY DEF Ports
  <2> QED BY <2>1, <2>2, LineCases
<1>3. LineOf("F1x0Grouped", <<"rx", "Usart1">>) = 28 /\ LineOf("F1x0Grouped", <<"dma_rx", "Usart1">>) = 11
      /\ LineOf("F1x0Grouped", <<"dma_tx", "Usart1">>) = 11
  <2>1. UsartIrqs("F1x0Grouped", "Usart1") = [rx |-> 28, dma_rx |-> 11, dma_tx |-> 11]
    BY UsartLines
  <2>2. "Usart1" \in Ports
    BY DEF Ports
  <2> QED BY <2>1, <2>2, LineCases
<1> QED BY <1>1, <1>2, <1>3

\* The sources of F1x0Grouped, each with its line.
LEMMA GroupedSources ==
  ASSUME NEW e \in Sources("F1x0Grouped")
  PROVE  \/ e = Control /\ LineOf("F1x0Grouped", e) = 12
         \/ e = <<"rx", "Usart1">> /\ LineOf("F1x0Grouped", e) = 28
         \/ e = <<"dma_rx", "Usart1">> /\ LineOf("F1x0Grouped", e) = 11
         \/ e = <<"dma_tx", "Usart1">> /\ LineOf("F1x0Grouped", e) = 11
         \/ e = <<"rx", "Usart0">> /\ LineOf("F1x0Grouped", e) = 27
         \/ e = <<"dma_rx", "Usart0">> /\ LineOf("F1x0Grouped", e) = 10
         \/ e = <<"dma_tx", "Usart0">> /\ LineOf("F1x0Grouped", e) = 10
<1>1. CASE e = Control
  BY <1>1, GroupedLines, Zenon
<1>2. ASSUME NEW p \in Ports, HasPort("F1x0Grouped", p),
             e = <<"rx", p>> \/ e = <<"dma_rx", p>> \/ e = <<"dma_tx", p>>
      PROVE \/ e = <<"rx", "Usart1">> /\ LineOf("F1x0Grouped", e) = 28
            \/ e = <<"dma_rx", "Usart1">> /\ LineOf("F1x0Grouped", e) = 11
            \/ e = <<"dma_tx", "Usart1">> /\ LineOf("F1x0Grouped", e) = 11
            \/ e = <<"rx", "Usart0">> /\ LineOf("F1x0Grouped", e) = 27
            \/ e = <<"dma_rx", "Usart0">> /\ LineOf("F1x0Grouped", e) = 10
            \/ e = <<"dma_tx", "Usart0">> /\ LineOf("F1x0Grouped", e) = 10
  <2>1. CASE p = "Usart0"
    BY <1>2, <2>1, GroupedLines, Zenon
  <2>2. CASE p = "Usart1"
    BY <1>2, <2>2, GroupedLines, Zenon
  <2> QED BY <1>2, <2>1, <2>2 DEF Ports, HasPort
<1> QED BY <1>1, <1>2, SourceCases, Zenon

\* The body each line of F10xSeparate runs.
LEMMA SeparateBodies ==
  /\ Entry("F10xSeparate", 18) = <<Control>>
  /\ Entry("F10xSeparate", 38) = <<<<"rx", "Usart1">>>>
  /\ Entry("F10xSeparate", 39) = <<<<"rx", "Usart2">>>>
  /\ Entry("F10xSeparate", 37) = <<<<"rx", "Usart0">>>>
  /\ Entry("F10xSeparate", 15) = <<<<"dma_rx", "Usart0">>>>
  /\ Entry("F10xSeparate", 14) = <<<<"dma_tx", "Usart0">>>>
  /\ Entry("F10xSeparate", 16) = <<<<"dma_rx", "Usart1">>>>
  /\ Entry("F10xSeparate", 17) = <<<<"dma_tx", "Usart1">>>>
  /\ Entry("F10xSeparate", 13) = <<<<"dma_rx", "Usart2">>>>
  /\ Entry("F10xSeparate", 12) = <<<<"dma_tx", "Usart2">>>>
<1>1. Entry("F10xSeparate", 18) = <<Control>>
  BY BodyOf, SeparateEntries, Zenon DEF Entry
<1>2. Entry("F10xSeparate", 38) = <<<<"rx", "Usart1">>>>
  BY BodyOf, SeparateEntries, Zenon DEF Entry
<1>3. Entry("F10xSeparate", 39) = <<<<"rx", "Usart2">>>>
  BY BodyOf, SeparateEntries, Zenon DEF Entry
<1>4. Entry("F10xSeparate", 37) = <<<<"rx", "Usart0">>>>
  BY BodyOf, SeparateEntries, Zenon DEF Entry
<1>5. Entry("F10xSeparate", 15) = <<<<"dma_rx", "Usart0">>>>
  BY BodyOf, SeparateEntries, Zenon DEF Entry
<1>6. Entry("F10xSeparate", 14) = <<<<"dma_tx", "Usart0">>>>
  BY BodyOf, SeparateEntries, Zenon DEF Entry
<1>7. Entry("F10xSeparate", 16) = <<<<"dma_rx", "Usart1">>>>
  BY BodyOf, SeparateEntries, Zenon DEF Entry
<1>8. Entry("F10xSeparate", 17) = <<<<"dma_tx", "Usart1">>>>
  BY BodyOf, SeparateEntries, Zenon DEF Entry
<1>9. Entry("F10xSeparate", 13) = <<<<"dma_rx", "Usart2">>>>
  BY BodyOf, SeparateEntries, Zenon DEF Entry
<1>10. Entry("F10xSeparate", 12) = <<<<"dma_tx", "Usart2">>>>
  BY BodyOf, SeparateEntries, Zenon DEF Entry
<1> QED BY <1>1, <1>2, <1>3, <1>4, <1>5, <1>6, <1>7, <1>8, <1>9, <1>10

\* The line of each source of F10xSeparate.
LEMMA SeparateLines ==
  /\ LineOf("F10xSeparate", Control) = 18
  /\ LineOf("F10xSeparate", <<"rx", "Usart1">>) = 38
  /\ LineOf("F10xSeparate", <<"rx", "Usart2">>) = 39
  /\ LineOf("F10xSeparate", <<"rx", "Usart0">>) = 37
  /\ LineOf("F10xSeparate", <<"dma_rx", "Usart0">>) = 15
  /\ LineOf("F10xSeparate", <<"dma_tx", "Usart0">>) = 14
  /\ LineOf("F10xSeparate", <<"dma_rx", "Usart1">>) = 16
  /\ LineOf("F10xSeparate", <<"dma_tx", "Usart1">>) = 17
  /\ LineOf("F10xSeparate", <<"dma_rx", "Usart2">>) = 13
  /\ LineOf("F10xSeparate", <<"dma_tx", "Usart2">>) = 12
<1>1. LineOf("F10xSeparate", Control) = 18
  BY UsartLines DEF LineOf
<1>2. LineOf("F10xSeparate", <<"rx", "Usart0">>) = 37 /\ LineOf("F10xSeparate", <<"dma_rx", "Usart0">>) = 15
      /\ LineOf("F10xSeparate", <<"dma_tx", "Usart0">>) = 14
  <2>1. UsartIrqs("F10xSeparate", "Usart0") = [rx |-> 37, dma_rx |-> 15, dma_tx |-> 14]
    BY UsartLines
  <2>2. "Usart0" \in Ports
    BY DEF Ports
  <2> QED BY <2>1, <2>2, LineCases
<1>3. LineOf("F10xSeparate", <<"rx", "Usart1">>) = 38 /\ LineOf("F10xSeparate", <<"dma_rx", "Usart1">>) = 16
      /\ LineOf("F10xSeparate", <<"dma_tx", "Usart1">>) = 17
  <2>1. UsartIrqs("F10xSeparate", "Usart1") = [rx |-> 38, dma_rx |-> 16, dma_tx |-> 17]
    BY UsartLines
  <2>2. "Usart1" \in Ports
    BY DEF Ports
  <2> QED BY <2>1, <2>2, LineCases
<1>4. LineOf("F10xSeparate", <<"rx", "Usart2">>) = 39 /\ LineOf("F10xSeparate", <<"dma_rx", "Usart2">>) = 13
      /\ LineOf("F10xSeparate", <<"dma_tx", "Usart2">>) = 12
  <2>1. UsartIrqs("F10xSeparate", "Usart2") = [rx |-> 39, dma_rx |-> 13, dma_tx |-> 12]
    BY UsartLines
  <2>2. "Usart2" \in Ports
    BY DEF Ports
  <2> QED BY <2>1, <2>2, LineCases
<1> QED BY <1>1, <1>2, <1>3, <1>4

\* The sources of F10xSeparate, each with its line.
LEMMA SeparateSources ==
  ASSUME NEW e \in Sources("F10xSeparate")
  PROVE  \/ e = Control /\ LineOf("F10xSeparate", e) = 18
         \/ e = <<"rx", "Usart1">> /\ LineOf("F10xSeparate", e) = 38
         \/ e = <<"rx", "Usart2">> /\ LineOf("F10xSeparate", e) = 39
         \/ e = <<"rx", "Usart0">> /\ LineOf("F10xSeparate", e) = 37
         \/ e = <<"dma_rx", "Usart0">> /\ LineOf("F10xSeparate", e) = 15
         \/ e = <<"dma_tx", "Usart0">> /\ LineOf("F10xSeparate", e) = 14
         \/ e = <<"dma_rx", "Usart1">> /\ LineOf("F10xSeparate", e) = 16
         \/ e = <<"dma_tx", "Usart1">> /\ LineOf("F10xSeparate", e) = 17
         \/ e = <<"dma_rx", "Usart2">> /\ LineOf("F10xSeparate", e) = 13
         \/ e = <<"dma_tx", "Usart2">> /\ LineOf("F10xSeparate", e) = 12
<1>1. CASE e = Control
  BY <1>1, SeparateLines, Zenon
<1>2. ASSUME NEW p \in Ports, HasPort("F10xSeparate", p),
             e = <<"rx", p>> \/ e = <<"dma_rx", p>> \/ e = <<"dma_tx", p>>
      PROVE \/ e = <<"rx", "Usart1">> /\ LineOf("F10xSeparate", e) = 38
            \/ e = <<"rx", "Usart2">> /\ LineOf("F10xSeparate", e) = 39
            \/ e = <<"rx", "Usart0">> /\ LineOf("F10xSeparate", e) = 37
            \/ e = <<"dma_rx", "Usart0">> /\ LineOf("F10xSeparate", e) = 15
            \/ e = <<"dma_tx", "Usart0">> /\ LineOf("F10xSeparate", e) = 14
            \/ e = <<"dma_rx", "Usart1">> /\ LineOf("F10xSeparate", e) = 16
            \/ e = <<"dma_tx", "Usart1">> /\ LineOf("F10xSeparate", e) = 17
            \/ e = <<"dma_rx", "Usart2">> /\ LineOf("F10xSeparate", e) = 13
            \/ e = <<"dma_tx", "Usart2">> /\ LineOf("F10xSeparate", e) = 12
  <2>1. CASE p = "Usart0"
    BY <1>2, <2>1, SeparateLines, Zenon
  <2>2. CASE p = "Usart1"
    BY <1>2, <2>2, SeparateLines, Zenon
  <2>3. CASE p = "Usart2"
    BY <1>2, <2>3, SeparateLines, Zenon
  <2> QED BY <1>2, <2>1, <2>2, <2>3 DEF Ports, HasPort
<1> QED BY <1>1, <1>2, SourceCases, Zenon

\* A body calls slots of its own line, and the slot of every source on it.
Owns(layout, l, b) ==
  /\ b \in Seq(Slots)
  /\ \A k \in 1..Len(b) : LineOf(layout, b[k]) = l
  /\ \A e \in Sources(layout) : LineOf(layout, e) = l => \E k \in 1..Len(b) : b[k] = e

\* A vector of one routine.
LEMMA OneRoutine ==
  ASSUME NEW layout, NEW l, NEW s \in Slots, LineOf(layout, s) = l,
         \A e \in Sources(layout) : LineOf(layout, e) = l => e = s
  PROVE  Owns(layout, l, <<s>>)
BY DEF Owns

\* A vector that two channels share.
LEMMA TwoRoutines ==
  ASSUME NEW layout, NEW l, NEW s \in Slots, NEW t \in Slots, LineOf(layout, s) = l, LineOf(layout, t) = l,
         \A e \in Sources(layout) : LineOf(layout, e) = l => e = s \/ e = t
  PROVE  Owns(layout, l, <<s, t>>)
<1> DEFINE b == <<s, t>>
<1>1. Len(b) = 2 /\ b[1] = s /\ b[2] = t /\ b \in Seq(Slots)
  OBVIOUS
<1> HIDE DEF b
<1>2. \A k \in 1..Len(b) : k = 1 \/ k = 2
  BY <1>1
<1>3. 1 \in 1..Len(b) /\ 2 \in 1..Len(b)
  BY <1>1
<1>4. Owns(layout, l, b)
  BY <1>1, <1>2, <1>3 DEF Owns
<1> QED BY <1>4 DEF b

\* The table and usart_irqs agree: a line's entry calls slots of that line only,
\* and the slot of every source on it.
LEMMA EntryOwn ==
  ASSUME NEW layout \in {"F1x0Grouped", "F10xSeparate"}, NEW l \in DOMAIN BuildTable(layout)
  PROVE Owns(layout, l, Entry(layout, l))
<1>0. \A k \in {"rx", "dma_rx", "dma_tx"}, p \in Ports : <<k, p>> \in Slots
  BY DEF Slots, UsartSlots, DmaRxSlots, DmaTxSlots, Ports
<1>1. CASE layout = "F1x0Grouped" /\ l = 12
  <2> DEFINE s == Control
  <2>1. Entry(layout, l) = <<s>>
    BY <1>1, GroupedBodies, Zenon
  <2>2. LineOf(layout, s) = 12
    BY <1>1, GroupedLines, Zenon
  <2>3. s \in Slots
    BY DEF Slots
  <2>4. \A e \in Sources(layout) : LineOf(layout, e) = l => e = s
    BY <1>1, GroupedSources
  <2> HIDE DEF s
  <2>5. Owns(layout, l, <<s>>)
    BY <1>1, <2>2, <2>3, <2>4, OneRoutine
  <2> QED BY <2>1, <2>5
<1>2. CASE layout = "F1x0Grouped" /\ l = 28
  <2> DEFINE s == <<"rx", "Usart1">>
  <2>1. Entry(layout, l) = <<s>>
    BY <1>2, GroupedBodies, Zenon
  <2>2. LineOf(layout, s) = 28
    BY <1>2, GroupedLines, Zenon
  <2>3. s \in Slots
    BY <1>0 DEF Ports
  <2>4. \A e \in Sources(layout) : LineOf(layout, e) = l => e = s
    BY <1>2, GroupedSources
  <2> HIDE DEF s
  <2>5. Owns(layout, l, <<s>>)
    BY <1>2, <2>2, <2>3, <2>4, OneRoutine
  <2> QED BY <2>1, <2>5
<1>3. CASE layout = "F1x0Grouped" /\ l = 11
  <2> DEFINE s == <<"dma_rx", "Usart1">>
             t == <<"dma_tx", "Usart1">>
  <2>1. Entry(layout, l) = <<s, t>>
    BY <1>3, GroupedBodies, Zenon
  <2>2. LineOf(layout, s) = 11 /\ LineOf(layout, t) = 11
    BY <1>3, GroupedLines, Zenon
  <2>3. s \in Slots /\ t \in Slots
    BY <1>0 DEF Ports
  <2>4. \A e \in Sources(layout) : LineOf(layout, e) = l => e = s \/ e = t
    BY <1>3, GroupedSources
  <2> HIDE DEF s, t
  <2>5. Owns(layout, l, <<s, t>>)
    BY <1>3, <2>2, <2>3, <2>4, TwoRoutines
  <2> QED BY <2>1, <2>5
<1>4. CASE layout = "F1x0Grouped" /\ l = 27
  <2> DEFINE s == <<"rx", "Usart0">>
  <2>1. Entry(layout, l) = <<s>>
    BY <1>4, GroupedBodies, Zenon
  <2>2. LineOf(layout, s) = 27
    BY <1>4, GroupedLines, Zenon
  <2>3. s \in Slots
    BY <1>0 DEF Ports
  <2>4. \A e \in Sources(layout) : LineOf(layout, e) = l => e = s
    BY <1>4, GroupedSources
  <2> HIDE DEF s
  <2>5. Owns(layout, l, <<s>>)
    BY <1>4, <2>2, <2>3, <2>4, OneRoutine
  <2> QED BY <2>1, <2>5
<1>5. CASE layout = "F1x0Grouped" /\ l = 10
  <2> DEFINE s == <<"dma_rx", "Usart0">>
             t == <<"dma_tx", "Usart0">>
  <2>1. Entry(layout, l) = <<s, t>>
    BY <1>5, GroupedBodies, Zenon
  <2>2. LineOf(layout, s) = 10 /\ LineOf(layout, t) = 10
    BY <1>5, GroupedLines, Zenon
  <2>3. s \in Slots /\ t \in Slots
    BY <1>0 DEF Ports
  <2>4. \A e \in Sources(layout) : LineOf(layout, e) = l => e = s \/ e = t
    BY <1>5, GroupedSources
  <2> HIDE DEF s, t
  <2>5. Owns(layout, l, <<s, t>>)
    BY <1>5, <2>2, <2>3, <2>4, TwoRoutines
  <2> QED BY <2>1, <2>5
<1>6. CASE layout = "F10xSeparate" /\ l = 18
  <2> DEFINE s == Control
  <2>1. Entry(layout, l) = <<s>>
    BY <1>6, SeparateBodies, Zenon
  <2>2. LineOf(layout, s) = 18
    BY <1>6, SeparateLines, Zenon
  <2>3. s \in Slots
    BY DEF Slots
  <2>4. \A e \in Sources(layout) : LineOf(layout, e) = l => e = s
    BY <1>6, SeparateSources
  <2> HIDE DEF s
  <2>5. Owns(layout, l, <<s>>)
    BY <1>6, <2>2, <2>3, <2>4, OneRoutine
  <2> QED BY <2>1, <2>5
<1>7. CASE layout = "F10xSeparate" /\ l = 38
  <2> DEFINE s == <<"rx", "Usart1">>
  <2>1. Entry(layout, l) = <<s>>
    BY <1>7, SeparateBodies, Zenon
  <2>2. LineOf(layout, s) = 38
    BY <1>7, SeparateLines, Zenon
  <2>3. s \in Slots
    BY <1>0 DEF Ports
  <2>4. \A e \in Sources(layout) : LineOf(layout, e) = l => e = s
    BY <1>7, SeparateSources
  <2> HIDE DEF s
  <2>5. Owns(layout, l, <<s>>)
    BY <1>7, <2>2, <2>3, <2>4, OneRoutine
  <2> QED BY <2>1, <2>5
<1>8. CASE layout = "F10xSeparate" /\ l = 39
  <2> DEFINE s == <<"rx", "Usart2">>
  <2>1. Entry(layout, l) = <<s>>
    BY <1>8, SeparateBodies, Zenon
  <2>2. LineOf(layout, s) = 39
    BY <1>8, SeparateLines, Zenon
  <2>3. s \in Slots
    BY <1>0 DEF Ports
  <2>4. \A e \in Sources(layout) : LineOf(layout, e) = l => e = s
    BY <1>8, SeparateSources
  <2> HIDE DEF s
  <2>5. Owns(layout, l, <<s>>)
    BY <1>8, <2>2, <2>3, <2>4, OneRoutine
  <2> QED BY <2>1, <2>5
<1>9. CASE layout = "F10xSeparate" /\ l = 37
  <2> DEFINE s == <<"rx", "Usart0">>
  <2>1. Entry(layout, l) = <<s>>
    BY <1>9, SeparateBodies, Zenon
  <2>2. LineOf(layout, s) = 37
    BY <1>9, SeparateLines, Zenon
  <2>3. s \in Slots
    BY <1>0 DEF Ports
  <2>4. \A e \in Sources(layout) : LineOf(layout, e) = l => e = s
    BY <1>9, SeparateSources
  <2> HIDE DEF s
  <2>5. Owns(layout, l, <<s>>)
    BY <1>9, <2>2, <2>3, <2>4, OneRoutine
  <2> QED BY <2>1, <2>5
<1>10. CASE layout = "F10xSeparate" /\ l = 15
  <2> DEFINE s == <<"dma_rx", "Usart0">>
  <2>1. Entry(layout, l) = <<s>>
    BY <1>10, SeparateBodies, Zenon
  <2>2. LineOf(layout, s) = 15
    BY <1>10, SeparateLines, Zenon
  <2>3. s \in Slots
    BY <1>0 DEF Ports
  <2>4. \A e \in Sources(layout) : LineOf(layout, e) = l => e = s
    BY <1>10, SeparateSources
  <2> HIDE DEF s
  <2>5. Owns(layout, l, <<s>>)
    BY <1>10, <2>2, <2>3, <2>4, OneRoutine
  <2> QED BY <2>1, <2>5
<1>11. CASE layout = "F10xSeparate" /\ l = 14
  <2> DEFINE s == <<"dma_tx", "Usart0">>
  <2>1. Entry(layout, l) = <<s>>
    BY <1>11, SeparateBodies, Zenon
  <2>2. LineOf(layout, s) = 14
    BY <1>11, SeparateLines, Zenon
  <2>3. s \in Slots
    BY <1>0 DEF Ports
  <2>4. \A e \in Sources(layout) : LineOf(layout, e) = l => e = s
    BY <1>11, SeparateSources
  <2> HIDE DEF s
  <2>5. Owns(layout, l, <<s>>)
    BY <1>11, <2>2, <2>3, <2>4, OneRoutine
  <2> QED BY <2>1, <2>5
<1>12. CASE layout = "F10xSeparate" /\ l = 16
  <2> DEFINE s == <<"dma_rx", "Usart1">>
  <2>1. Entry(layout, l) = <<s>>
    BY <1>12, SeparateBodies, Zenon
  <2>2. LineOf(layout, s) = 16
    BY <1>12, SeparateLines, Zenon
  <2>3. s \in Slots
    BY <1>0 DEF Ports
  <2>4. \A e \in Sources(layout) : LineOf(layout, e) = l => e = s
    BY <1>12, SeparateSources
  <2> HIDE DEF s
  <2>5. Owns(layout, l, <<s>>)
    BY <1>12, <2>2, <2>3, <2>4, OneRoutine
  <2> QED BY <2>1, <2>5
<1>13. CASE layout = "F10xSeparate" /\ l = 17
  <2> DEFINE s == <<"dma_tx", "Usart1">>
  <2>1. Entry(layout, l) = <<s>>
    BY <1>13, SeparateBodies, Zenon
  <2>2. LineOf(layout, s) = 17
    BY <1>13, SeparateLines, Zenon
  <2>3. s \in Slots
    BY <1>0 DEF Ports
  <2>4. \A e \in Sources(layout) : LineOf(layout, e) = l => e = s
    BY <1>13, SeparateSources
  <2> HIDE DEF s
  <2>5. Owns(layout, l, <<s>>)
    BY <1>13, <2>2, <2>3, <2>4, OneRoutine
  <2> QED BY <2>1, <2>5
<1>14. CASE layout = "F10xSeparate" /\ l = 13
  <2> DEFINE s == <<"dma_rx", "Usart2">>
  <2>1. Entry(layout, l) = <<s>>
    BY <1>14, SeparateBodies, Zenon
  <2>2. LineOf(layout, s) = 13
    BY <1>14, SeparateLines, Zenon
  <2>3. s \in Slots
    BY <1>0 DEF Ports
  <2>4. \A e \in Sources(layout) : LineOf(layout, e) = l => e = s
    BY <1>14, SeparateSources
  <2> HIDE DEF s
  <2>5. Owns(layout, l, <<s>>)
    BY <1>14, <2>2, <2>3, <2>4, OneRoutine
  <2> QED BY <2>1, <2>5
<1>15. CASE layout = "F10xSeparate" /\ l = 12
  <2> DEFINE s == <<"dma_tx", "Usart2">>
  <2>1. Entry(layout, l) = <<s>>
    BY <1>15, SeparateBodies, Zenon
  <2>2. LineOf(layout, s) = 12
    BY <1>15, SeparateLines, Zenon
  <2>3. s \in Slots
    BY <1>0 DEF Ports
  <2>4. \A e \in Sources(layout) : LineOf(layout, e) = l => e = s
    BY <1>15, SeparateSources
  <2> HIDE DEF s
  <2>5. Owns(layout, l, <<s>>)
    BY <1>15, <2>2, <2>3, <2>4, OneRoutine
  <2> QED BY <2>1, <2>5
<1> QED BY <1>1, <1>2, <1>3, <1>4, <1>5, <1>6, <1>7, <1>8, <1>9, <1>10, <1>11, <1>12, <1>13, <1>14, <1>15, GroupedEntries, SeparateEntries

---------------------------------------------------------------------------
(* The steps.                                                              *)

\* Whoever may register a handler is a source of the layout.
LEMMA WantedSources == Wanted \subseteq Sources(irLayout)
BY DEF Wanted, Sources

\* The boot state: nothing installed, nothing written.
LEMMA IrInitInv == ASSUME IrAssumption, IrInit PROVE IrIInv
<1>1. Len(irTodo) = 4 /\ irTodo[1] = "period" /\ irTodo[2] = "Usart0" /\ irTodo[3] = "Usart1"
      /\ irTodo[4] = "Usart2" /\ irTodo \in Seq({"period"} \cup Ports)
  <2> DEFINE T == {"period"} \cup Ports
             s == <<"period">>
             t == <<"Usart0", "Usart1", "Usart2">>
  <2>1. "period" \in T /\ "Usart0" \in T /\ "Usart1" \in T /\ "Usart2" \in T
    BY DEF Ports
  <2>2. irTodo = s \o t
    BY DEF IrInit, AllPorts
  <2> HIDE DEF T
  <2>3. s \in Seq(T) /\ Len(s) = 1 /\ s[1] = "period"
    BY <2>1
  <2>4. t \in Seq(T) /\ Len(t) = 3 /\ t[1] = "Usart0" /\ t[2] = "Usart1" /\ t[3] = "Usart2"
    BY <2>1
  <2> HIDE DEF s, t
  <2>5. irTodo \in Seq(T) /\ Len(irTodo) = 4 /\ irTodo[1] = s[1] /\ irTodo[2] = t[1]
        /\ irTodo[3] = t[2] /\ irTodo[4] = t[3]
    <3>1. /\ s \o t \in Seq(T) /\ Len(s \o t) = Len(s) + Len(t)
          /\ \A i \in 1..(Len(s) + Len(t)) :
               (s \o t)[i] = IF i <= Len(s) THEN s[i] ELSE t[i - Len(s)]
      BY <2>3, <2>4, ConcatProperties
    <3>2. Len(s) = 1 /\ Len(t) = 3
      BY <2>3, <2>4
    <3>3. \A i \in 1..4 : irTodo[i] = IF i <= 1 THEN s[i] ELSE t[i - 1]
      <4>1. \A i \in 1..(Len(s) + Len(t)) :
              irTodo[i] = IF i <= Len(s) THEN s[i] ELSE t[i - Len(s)]
        BY <2>2, <3>1
      <4>2. Len(s) + Len(t) = 4
        BY <3>2
      <4> QED BY <3>2, <4>1, <4>2
    <3>4. irTodo \in Seq(T) /\ Len(irTodo) = 4
      BY <2>2, <3>1, <3>2
    <3>5. irTodo[1] = s[1]
      BY <3>3
    <3>6. irTodo[2] = t[1] /\ irTodo[3] = t[2] /\ irTodo[4] = t[3]
      BY <3>3
    <3> QED BY <3>4, <3>5, <3>6
  <2> QED BY <2>3, <2>4, <2>5 DEF T
<1>2. ~Written("period") /\ \A p \in Ports : ~Written(p)
  <2>1. 1 \in 1..Len(irTodo) /\ 2 \in 1..Len(irTodo) /\ 3 \in 1..Len(irTodo) /\ 4 \in 1..Len(irTodo)
    BY <1>1
  <2>2. ~Written("period") /\ ~Written("Usart0") /\ ~Written("Usart1") /\ ~Written("Usart2")
    BY <1>1, <2>1, Zenon DEF Written
  <2> QED BY <2>2 DEF Ports
<1>3. PrioInv
  <2>1. irPrio \in [Lines -> Levels]
    BY DEF IrInit, Levels
  <2> QED BY <1>1, <1>2, <2>1 DEF PrioInv
<1>4. PlaceInv
  BY DEF IrInit, PlaceInv, IrAssumption
<1>5. StackInv /\ NestInv
  BY DEF IrInit, StackInv, NestInv
<1> QED BY <1>3, <1>4, <1>5 DEF IrIInv

\* Activations stay their own while lines are only added.
LEMMA StackKept ==
  ASSUME StackInv, UNCHANGED <<irLayout, irStack>>, irOn \subseteq irOn'
  PROVE  StackInv'
BY DEF StackInv, Own

\* The order of urgency is a matter of the stack and the priorities alone.
LEMMA NestKept == ASSUME NestInv, UNCHANGED <<irStack, irPrio>> PROVE NestInv'
BY DEF NestInv

\* The nesting says nothing while no handler runs.
LEMMA NestIdle == ASSUME irStack = << >>, UNCHANGED irStack PROVE NestInv'
BY DEF NestInv

\* The priorities written so far, with no more of them written.
LEMMA PrioKept == ASSUME PrioInv, UNCHANGED <<irLayout, irPrio, irTodo>> PROVE PrioInv'
BY DEF PrioInv, Written

\* What may be registered depends on the layout only.
LEMMA WantedKept == ASSUME UNCHANGED irLayout PROVE Wanted' = Wanted
BY DEF Wanted

\* install, the registration and unmasking of a handler, a device's event.
LEMMA PlaceSteps ==
  ASSUME PlaceInv, Install \/ Register \/ Unmask \/ Raise
  PROVE  PlaceInv' /\ irOn \subseteq irOn'
<1>1. CASE Install
  BY <1>1, WantedKept DEF Install, PlaceInv
<1>2. CASE Register
  <2>1. PICK e \in Wanted \ irSlots : irSlots' = irSlots \cup {e}
    BY <1>2 DEF Register
  <2> QED BY <1>2, <2>1, WantedKept DEF Register, PlaceInv
<1>3. CASE Unmask
  <2>1. PICK e \in irSlots : irOn' = irOn \cup {LineOf(irLayout, e)}
    BY <1>3 DEF Unmask
  <2> QED BY <1>3, <2>1, WantedKept DEF Unmask, PlaceInv
<1>4. CASE Raise
  BY <1>4, WantedKept DEF Raise, PlaceInv
<1> QED BY <1>1, <1>2, <1>3, <1>4

\* None of them touches what is active or what is written.
LEMMA ThreadInv ==
  ASSUME IrIInv, Install \/ Register \/ Unmask \/ Raise
  PROVE  IrIInv'
<1>1. UNCHANGED <<irLayout, irPrio, irTodo, irStack>>
  BY DEF Install, Register, Unmask, Raise
<1> QED BY <1>1, PlaceSteps, StackKept, NestKept, PrioKept DEF IrIInv

\* Writing one group sets its lines and no line of another group.
LEMMA ApplyWrites ==
  ASSUME PlaceInv, PrioInv, irTodo # << >>, ApplyPriority
  PROVE  PrioInv'
<1> DEFINE u == Head(irTodo)
           lay == irLayout
<1>1. lay \in {"F1x0Grouped", "F10xSeparate"} /\ irLayout' = lay
  BY DEF PlaceInv, ApplyPriority
<1>2. u \in {"period"} \cup Ports /\ irTodo' = Tail(irTodo) /\ irTodo' \in Seq({"period"} \cup Ports)
  BY DEF PrioInv, ApplyPriority
<1>3. ASSUME NEW x, Written(x)'
      PROVE  x = u \/ Written(x)
  <2>1. \A i \in 1..Len(irTodo) : i = 1 \/ (i - 1 \in 1..Len(irTodo') /\ irTodo[i] = irTodo'[i - 1])
    BY <1>2 DEF PrioInv
  <2>2. irTodo[1] = u
    BY DEF PrioInv
  <2> QED BY <1>3, <2>1, <2>2 DEF Written
<1>4. irPrio \in [Lines -> Levels]
  BY DEF PrioInv
<1> DEFINE w(p) == UsartIrqs(lay, p)
           Group(p) == {w(p).rx, w(p).dma_rx, w(p).dma_tx}
           Ranked(f, p) == f[w(p).rx] = UsartPriority /\ f[w(p).dma_rx] = DmaPriority
                           /\ f[w(p).dma_tx] = DmaPriority
<1>5. ASSUME NEW p \in Ports, HasPort(lay, p)
      PROVE  /\ Group(p) \subseteq Lines /\ PeriodIrq(lay) \notin Group(p) /\ PeriodIrq(lay) \in Lines
             /\ w(p).rx # w(p).dma_rx /\ w(p).rx # w(p).dma_tx
             /\ \A q \in Ports : HasPort(lay, q) /\ q # p => Group(p) \cap Group(q) = {}
  <2>1. CASE lay = "F1x0Grouped"
    <3>1. \A q \in Ports : HasPort(lay, q) => q \in {"Usart0", "Usart1"}
      BY <2>1, UsartLines DEF Ports
    <3>2. Group("Usart0") = {27, 10} /\ Group("Usart1") = {28, 11} /\ PeriodIrq(lay) = 12
      BY <2>1, UsartLines
    <3>3. w("Usart0") = [rx |-> 27, dma_rx |-> 10, dma_tx |-> 10]
          /\ w("Usart1") = [rx |-> 28, dma_rx |-> 11, dma_tx |-> 11]
      BY <2>1, UsartLines
    <3>4. w(p).rx # w(p).dma_rx /\ w(p).rx # w(p).dma_tx
      BY <1>5, <3>1, <3>3
    <3> HIDE DEF w, Group
    <3> QED BY <1>5, <3>1, <3>2, <3>4 DEF Lines
  <2>2. CASE lay = "F10xSeparate"
    <3>1. Group("Usart0") = {37, 15, 14} /\ Group("Usart1") = {38, 16, 17}
          /\ Group("Usart2") = {39, 13, 12} /\ PeriodIrq(lay) = 18
      BY <2>2, UsartLines
    <3>2. w("Usart0") = [rx |-> 37, dma_rx |-> 15, dma_tx |-> 14]
          /\ w("Usart1") = [rx |-> 38, dma_rx |-> 16, dma_tx |-> 17]
          /\ w("Usart2") = [rx |-> 39, dma_rx |-> 13, dma_tx |-> 12]
      BY <2>2, UsartLines
    <3>3. w(p).rx # w(p).dma_rx /\ w(p).rx # w(p).dma_tx
      <4>1. CASE p = "Usart0"
        BY <3>2, <4>1
      <4>2. CASE p = "Usart1"
        BY <3>2, <4>2
      <4>3. CASE p = "Usart2"
        BY <3>2, <4>3
      <4> QED BY <4>1, <4>2, <4>3 DEF Ports
    <3> HIDE DEF w, Group
    <3>4. CASE p = "Usart0"
      BY <3>1, <3>3, <3>4 DEF Lines, Ports
    <3>5. CASE p = "Usart1"
      BY <3>1, <3>3, <3>5 DEF Lines, Ports
    <3>6. CASE p = "Usart2"
      BY <3>1, <3>3, <3>6 DEF Lines, Ports
    <3> QED BY <3>4, <3>5, <3>6 DEF Ports
  <2> QED BY <1>1, <2>1, <2>2
<1>6. /\ irPrio' \in [Lines -> Levels]
      /\ u = "period" => irPrio'[PeriodIrq(lay)] = MotorPriority
      /\ u # "period" => irPrio'[PeriodIrq(lay)] = irPrio[PeriodIrq(lay)]
      /\ \A p \in Ports : HasPort(lay, p) =>
           (IF p = u THEN Ranked(irPrio', p) ELSE \A l \in Group(p) : irPrio'[l] = irPrio[l])
  <2> HIDE DEF w
  <2>1. CASE u = "period"
    <3>1. irPrio' = [irPrio EXCEPT ![PeriodIrq(lay)] = MotorPriority]
      BY <2>1 DEF ApplyPriority
    <3>2. PeriodIrq(lay) \in Lines
      <4>1. PeriodIrq(lay) = 12 \/ PeriodIrq(lay) = 18
        BY <1>1 DEF PeriodIrq
      <4> QED BY <4>1 DEF Lines
    <3>3. "period" \notin Ports
      BY DEF Ports
    <3> QED BY <1>4, <1>5, <2>1, <3>1, <3>2, <3>3 DEF Levels
  <2>2. CASE u # "period" /\ ~HasPort(lay, u)
    <3>1. irPrio' = irPrio
      BY <2>2 DEF ApplyPriority
    <3> QED BY <1>4, <2>2, <3>1
  <2>3. CASE u # "period" /\ HasPort(lay, u)
    <3>1. irPrio' = [irPrio EXCEPT ![w(u).rx] = UsartPriority, ![w(u).dma_rx] = DmaPriority,
                                   ![w(u).dma_tx] = DmaPriority]
      BY <2>3 DEF ApplyPriority, w
    <3>2. u \in Ports
      BY <1>2, <2>3
    <3>3. \A l \in Lines : l \notin Group(u) => irPrio'[l] = irPrio[l]
      BY <1>4, <3>1
    <3>4. Ranked(irPrio', u)
      BY <1>4, <1>5, <2>3, <3>1, <3>2
    <3>5. irPrio' \in [Lines -> Levels]
      BY <1>4, <3>1 DEF Levels
    <3>6. irPrio'[PeriodIrq(lay)] = irPrio[PeriodIrq(lay)]
      BY <1>5, <2>3, <3>2, <3>3
    <3>7. ASSUME NEW p \in Ports, HasPort(lay, p), p # u
          PROVE  \A l \in Group(p) : irPrio'[l] = irPrio[l]
      BY <1>5, <2>3, <3>2, <3>3, <3>7
    <3> QED BY <2>3, <3>4, <3>5, <3>6, <3>7
  <2> QED BY <2>1, <2>2, <2>3
<1>7. Written("period")' => irPrio'[PeriodIrq(irLayout')] = MotorPriority
  <2>1. Written("period") => irPrio[PeriodIrq(lay)] = MotorPriority
    BY DEF PrioInv
  <2> QED BY <1>1, <1>3, <1>6, <2>1
<1>8. ASSUME NEW p \in Ports, HasPort(lay, p), Written(p)'
      PROVE  Ranked(irPrio', p)
  <2>1. CASE p = u
    BY <1>6, <1>8, <2>1
  <2>2. CASE p # u
    <3>1. Ranked(irPrio, p)
      BY <1>3, <1>8, <2>2 DEF PrioInv
    <3>2. \A l \in Group(p) : irPrio'[l] = irPrio[l]
      BY <1>6, <1>8, <2>2
    <3> HIDE DEF w
    <3> QED BY <3>1, <3>2
  <2> QED BY <2>1, <2>2
<1> QED BY <1>1, <1>2, <1>6, <1>7, <1>8 DEF PrioInv

\* The priorities change while no handler runs, so no nesting is disturbed.
LEMMA ApplyInv ==
  ASSUME IrIInv, irStack = << >>, ApplyPriority
  PROVE  IrIInv'
<1>1. UNCHANGED <<irLayout, irTable, irSlots, irOn, irRaised, irStack>> /\ irTodo # << >>
  BY DEF ApplyPriority
<1>2. PlaceInv'
  BY <1>1, WantedKept DEF PlaceInv, IrIInv
<1> QED BY <1>1, <1>2, ApplyWrites, StackKept, NestIdle DEF IrIInv

\* A line that asks for its handler: unmasked, so its table is installed, and
\* not active, so its handler is on no level of the stack.
LEMMA PendingLine ==
  ASSUME PlaceInv, NEW l \in Pending
  PROVE  /\ l \in irOn /\ l \in Lines
         /\ irTable = BuildTable(irLayout) /\ l \in DOMAIN BuildTable(irLayout)
<1>1. PICK e \in irRaised : Live(e) /\ l = LineOf(irLayout, e)
  BY DEF Pending
<1>2. l \in irOn
  BY <1>1 DEF Live
<1>3. irTable = BuildTable(irLayout)
  BY <1>2 DEF PlaceInv
<1>4. e \in Sources(irLayout)
  BY <1>1, WantedSources DEF PlaceInv
<1> QED BY <1>1, <1>2, <1>3, <1>4, SourceHasEntry DEF PlaceInv

\* The NVIC enters the body of the most urgent line.
LEMMA EnterInv == ASSUME IrIInv, Enter PROVE IrIInv'
<1>1. UNCHANGED <<irLayout, irTable, irSlots, irPrio, irTodo, irOn, irRaised>>
  BY DEF Enter
<1>2. PICK l \in Ready : irStack' = Append(irStack,
            [line |-> l, rest |-> Body[irTable[l]], called |-> {},
             due |-> {e \in irRaised \cap irSlots : LineOf(irLayout, e) = l}])
  BY DEF Enter
<1> DEFINE n == Len(irStack)
           due == {e \in irRaised \cap irSlots : LineOf(irLayout, e) = l}
           a == [line |-> l, rest |-> Entry(irLayout, l), called |-> {}, due |-> due]
<1>3. l \in irOn /\ l \in Lines /\ irTable = BuildTable(irLayout) /\ l \in DOMAIN BuildTable(irLayout)
  BY PendingLine DEF Ready, IrIInv
<1>4. Owns(irLayout, l, Entry(irLayout, l))
  BY <1>3, EntryOwn DEF IrIInv, PlaceInv
<1>5. irStack' = Append(irStack, a)
  BY <1>2, <1>3 DEF Entry
<1>6. due \subseteq Slots /\ \A s \in due : s \in Sources(irLayout) /\ LineOf(irLayout, s) = l
  BY WantedSources DEF IrIInv, PlaceInv, Sources
<1> HIDE DEF due
<1>7. a \in Activation
  BY <1>3, <1>4, <1>6 DEF Activation, Owns
<1>8. a.line = l /\ a.rest = Entry(irLayout, l) /\ a.called = {} /\ a.due = due
  OBVIOUS
<1> HIDE DEF a
<1>9. Own(a)
  BY <1>3, <1>4, <1>6, <1>8 DEF Own, Owns
<1>10. irStack \in Seq(Activation) /\ n \in Nat
  BY DEF IrIInv, StackInv
<1>11. /\ irStack' \in Seq(Activation) /\ Len(irStack') = n + 1 /\ irStack'[n + 1] = a
       /\ \A i \in 1..n : irStack'[i] = irStack[i]
  BY <1>5, <1>7, <1>10
<1>12. StackInv'
  <2>1. ASSUME NEW i \in 1..Len(irStack')
        PROVE  Own(irStack'[i])
    BY <1>9, <1>10, <1>11 DEF IrIInv, StackInv
  <2>2. ASSUME NEW b, Own(b)
        PROVE  Own(b)'
    BY <1>1, <2>2 DEF Own
  <2> QED BY <1>11, <2>1, <2>2 DEF StackInv, Own
<1>13. NestInv'
  <2>1. n > 0 => irPrio[l] < irPrio[irStack[n].line]
    <3>1. irStack = << >> \/ irPrio[l] < irPrio[irStack[n].line]
      BY DEF Ready, Urgent, Top
    <3> QED BY <1>10, <3>1
  <2>2. \A i \in 1..n : irPrio[irStack[i].line] \in Nat /\ irPrio[l] \in Nat
    <3>1. \A i \in 1..n : irStack[i].line \in Lines
      <4>1. \A x \in Activation : x.line \in Lines
        BY DEF Activation
      <4>2. \A i \in 1..n : irStack[i] \in Activation
        BY <1>10
      <4> QED BY <4>1, <4>2
    <3>2. irPrio \in [Lines -> Nat]
      BY DEF IrIInv, PrioInv, Levels, MotorPriority, UsartPriority, DmaPriority
    <3> QED BY <1>3, <3>1, <3>2
  <2>3. \A i, j \in 1..n : i < j => irPrio[irStack[j].line] < irPrio[irStack[i].line]
    BY DEF IrIInv, NestInv
  <2>4. \A i \in 1..n : irPrio[l] < irPrio[irStack[i].line]
    <3> SUFFICES ASSUME NEW i \in 1..n PROVE irPrio[l] < irPrio[irStack[i].line]
      OBVIOUS
    <3>1. n \in 1..n /\ n > 0
      BY <1>10
    <3>2. CASE i = n
      BY <2>1, <3>1, <3>2
    <3>3. CASE i # n
      <4>1. irPrio[irStack[n].line] < irPrio[irStack[i].line]
        BY <1>10, <2>3, <3>1, <3>3
      <4> QED BY <2>1, <2>2, <3>1, <4>1
    <3> QED BY <3>2, <3>3
  <2>5. ASSUME NEW i \in 1..(n + 1), NEW j \in 1..(n + 1), i < j
        PROVE  irPrio[irStack'[j].line] < irPrio[irStack'[i].line]
    <3>1. i \in 1..n /\ irStack'[i] = irStack[i]
      BY <1>10, <1>11, <2>5
    <3>2. CASE j = n + 1
      BY <1>8, <1>11, <2>4, <3>1, <3>2
    <3>3. CASE j # n + 1
      BY <1>10, <1>11, <2>3, <2>5, <3>1, <3>3
    <3> QED BY <3>2, <3>3
  <2> QED BY <1>1, <1>11, <2>5 DEF NestInv
<1>14. PlaceInv'
  BY <1>1, WantedKept DEF IrIInv, PlaceInv
<1> QED BY <1>1, <1>12, <1>13, <1>14, PrioKept DEF IrIInv

\* A call moves one slot of the running handler from what it has to call to
\* what it has called.
LEMMA CallInv == ASSUME IrIInv, CallSlot PROVE IrIInv'
<1> DEFINE n == Len(irStack)
           a == irStack[n]
           s == Head(a.rest)
           r == Tail(a.rest)
           c == a.called \cup {s}
           b == [a EXCEPT !.rest = r, !.called = c]
<1>1. UNCHANGED <<irLayout, irTable, irSlots, irPrio, irTodo, irOn>> /\ irRaised' \subseteq irRaised
  BY DEF CallSlot
<1>2. irStack # << >> /\ a.rest # << >> /\ irStack' = [irStack EXCEPT ![n] = b]
  BY DEF CallSlot, Top
<1>3. irStack \in Seq(Activation) /\ n \in 1..Len(irStack)
  BY <1>2 DEF IrIInv, StackInv
<1>4. a \in Activation /\ Own(a)
  BY <1>3 DEF IrIInv, StackInv
<1>5. a.rest \in Seq(Slots) /\ a.called \subseteq Slots /\ a.line \in Lines /\ a.due \subseteq Slots
  BY <1>4 DEF Activation
<1>6. s \in Slots /\ r \in Seq(Slots) /\ s = a.rest[1]
      /\ (\A k \in 1..Len(r) : r[k] = a.rest[k + 1] /\ k + 1 \in 1..Len(a.rest))
      /\ (\A k \in 1..Len(a.rest) : k = 1 \/ (k - 1 \in 1..Len(r) /\ r[k - 1] = a.rest[k]))
      /\ 1 \in 1..Len(a.rest)
  <2> DEFINE q == a.rest
  <2>1. q \in Seq(Slots) /\ q # << >>
    BY <1>2, <1>5
  <2> HIDE DEF q
  <2> QED BY <2>1 DEF q
<1>7. b.line = a.line /\ b.rest = r /\ b.called = c /\ b.due = a.due /\ b \in Activation
  <2>1. c \subseteq Slots
    BY <1>5, <1>6
  <2> HIDE DEF r, c
  <2> QED BY <1>4, <1>6, <2>1 DEF Activation
<1> HIDE DEF b
<1>8. Own(b)
  <2>1. LineOf(irLayout, s) = a.line
    BY <1>4, <1>6 DEF Own
  <2>2. \A k \in 1..Len(r) : LineOf(irLayout, r[k]) = a.line
    BY <1>4, <1>6 DEF Own
  <2>3. \A x \in c : LineOf(irLayout, x) = a.line
    BY <1>4, <2>1 DEF Own
  <2>4. ASSUME NEW x \in a.due
        PROVE  x \in c \/ \E k \in 1..Len(r) : r[k] = x
    <3>1. x \in a.called \/ \E k \in 1..Len(a.rest) : a.rest[k] = x
      BY <1>4 DEF Own
    <3>2. ASSUME NEW k \in 1..Len(a.rest), a.rest[k] = x
          PROVE  x = s \/ \E m \in 1..Len(r) : r[m] = x
      BY <1>6, <3>2
    <3> QED BY <3>1, <3>2
  <2>5. a.line \in irOn
    BY <1>4 DEF Own
  <2> HIDE DEF c, r, s, a
  <2> QED BY <1>7, <2>2, <2>3, <2>4, <2>5 DEF Own
<1>9. /\ irStack' \in Seq(Activation) /\ Len(irStack') = n /\ irStack'[n] = b
      /\ \A i \in 1..n : i # n => irStack'[i] = irStack[i]
  <2> HIDE DEF a, b
  <2> QED BY <1>2, <1>3, <1>7
<1>10. StackInv'
  <2>1. ASSUME NEW i \in 1..Len(irStack')
        PROVE  Own(irStack'[i])
    <3>1. CASE i = n
      BY <1>8, <1>9, <3>1
    <3>2. CASE i # n
      BY <1>9, <3>2 DEF IrIInv, StackInv
    <3> QED BY <3>1, <3>2
  <2> QED BY <1>1, <1>9, <2>1 DEF StackInv, Own
<1>11. NestInv'
  <2>1. \A i \in 1..n : irStack'[i].line = irStack[i].line
    <3> HIDE DEF b
    <3> QED BY <1>7, <1>9
  <2> QED BY <1>1, <1>9, <2>1 DEF NestInv, IrIInv
<1>12. PlaceInv'
  BY <1>1, WantedKept DEF IrIInv, PlaceInv
<1> QED BY <1>1, <1>10, <1>11, <1>12, PrioKept DEF IrIInv

\* A return uncovers the handler below.
LEMMA LeaveInv == ASSUME IrIInv, Leave PROVE IrIInv'
<1> DEFINE n == Len(irStack)
<1>1. UNCHANGED <<irLayout, irTable, irSlots, irPrio, irTodo, irOn, irRaised>>
      /\ irStack # << >> /\ irStack' = SubSeq(irStack, 1, n - 1)
  BY DEF Leave
<1>2. irStack \in Seq(Activation) /\ n \in Nat \ {0}
  BY <1>1 DEF IrIInv, StackInv
<1>3. irStack' \in Seq(Activation) /\ Len(irStack') = n - 1 /\ \A i \in 1..(n - 1) : irStack'[i] = irStack[i]
  <2>1. n - 1 \in Int /\ 1 \in Int /\ \A i \in 1..(n - 1) : irStack[i] \in Activation
    BY <1>2
  <2>2. /\ SubSeq(irStack, 1, n - 1) \in Seq(Activation)
        /\ Len(SubSeq(irStack, 1, n - 1)) = IF 1 <= n - 1 THEN n - 1 - 1 + 1 ELSE 0
        /\ \A i \in 1..(n - 1 - 1 + 1) : SubSeq(irStack, 1, n - 1)[i] = irStack[1 + i - 1]
    BY <2>1, SubSeqProperties
  <2> HIDE DEF n
  <2> QED BY <1>1, <1>2, <2>2
<1>4. StackInv'
  <2>1. ASSUME NEW i \in 1..Len(irStack')
        PROVE  Own(irStack'[i])
    BY <1>2, <1>3 DEF IrIInv, StackInv
  <2> QED BY <1>1, <1>3, <2>1 DEF StackInv, Own
<1>5. NestInv'
  BY <1>1, <1>2, <1>3 DEF NestInv, IrIInv
<1>6. PlaceInv'
  BY <1>1, WantedKept DEF IrIInv, PlaceInv
<1> QED BY <1>1, <1>4, <1>5, <1>6, PrioKept DEF IrIInv

\* No step leaves the invariant.
LEMMA IrStepInv == ASSUME IrIInv, [IrNext]_irVars PROVE IrIInv'
<1>1. CASE Thread
  BY <1>1, ThreadInv, ApplyInv DEF Thread
<1>2. CASE Raise
  BY <1>2, ThreadInv
<1>3. CASE Cpu
  BY <1>3, EnterInv, CallInv, LeaveInv DEF Cpu
<1>4. CASE UNCHANGED irVars
  <2>1. UNCHANGED <<irLayout, irTable, irSlots, irPrio, irTodo, irOn, irRaised, irStack>>
    BY <1>4 DEF irVars
  <2>2. PlaceInv'
    BY <2>1, WantedKept DEF IrIInv, PlaceInv
  <2> QED BY <2>1, <2>2, StackKept, NestKept, PrioKept DEF IrIInv
<1> QED BY <1>1, <1>2, <1>3, <1>4 DEF IrNext

\* The invariant holds throughout.
THEOREM IrInvariant == IrSpec => []IrIInv
<1> USE IrAssumption
<1>1. IrInit => IrIInv
  BY IrInitInv
<1>2. IrIInv /\ [IrNext]_irVars => IrIInv'
  BY IrStepInv
<1> QED BY <1>1, <1>2, PTL DEF IrSpec

---------------------------------------------------------------------------
(* What the invariant says of the properties.                              *)

\* Types, from where the lines come from.
LEMMA InvTypes == ASSUME IrIInv PROVE IrTypeOK
<1>1. irLayout \in IrLayouts
  BY DEF IrIInv, PlaceInv
<1>2. irSlots \subseteq Slots /\ irRaised \subseteq Slots
  BY DEF IrIInv, PlaceInv, Wanted
<1>3. ASSUME NEW l \in irOn
      PROVE  l \in DOMAIN irTable
  <2>1. PICK e \in irSlots : LineOf(irLayout, e) = l
    BY DEF IrIInv, PlaceInv
  <2>2. irTable = BuildTable(irLayout) /\ e \in Sources(irLayout)
    BY <2>1, WantedSources DEF IrIInv, PlaceInv
  <2> QED BY <2>1, <2>2, SourceHasEntry DEF IrIInv, PlaceInv
<1>4. \A i \in 1..Len(irStack) : irStack[i].line \in irOn
  BY DEF IrIInv, StackInv, Own
<1> QED BY <1>1, <1>2, <1>3, <1>4 DEF IrTypeOK

\* An activation with nothing left to call has called all it was due.
LEMMA InvRouted == ASSUME IrIInv PROVE RoutedHome
<1> SUFFICES ASSUME NEW i \in 1..Len(irStack)
             PROVE  /\ \A s \in irStack[i].called : LineOf(irLayout, s) = irStack[i].line
                    /\ irStack[i].rest = << >> => irStack[i].due \subseteq irStack[i].called
  BY DEF RoutedHome
<1> DEFINE a == irStack[i]
<1>1. Own(a)
  BY DEF IrIInv, StackInv
<1>2. a.rest = << >> => ~ \E k \in 1..Len(a.rest) : TRUE
  <2> DEFINE q == a.rest
  <2> HIDE DEF q
  <2>1. q = << >> => ~ \E k \in 1..Len(q) : TRUE
    OBVIOUS
  <2> QED BY <2>1 DEF q
<1> HIDE DEF a
<1>3. \A s \in a.called : LineOf(irLayout, s) = a.line
  BY <1>1 DEF Own
<1>4. a.rest = << >> => a.due \subseteq a.called
  BY <1>1, <1>2 DEF Own
<1> QED BY <1>3, <1>4 DEF a

\* Activations stand on different lines: each is more urgent than the one below.
LEMMA LinesDiffer ==
  ASSUME IrIInv, NEW i \in 1..Len(irStack), NEW j \in 1..Len(irStack), i # j
  PROVE  irStack[i].line # irStack[j].line
<1>1. irStack \in Seq(Activation)
  BY DEF IrIInv, StackInv
<1>2. irStack[i] \in Activation /\ irStack[j] \in Activation
  BY <1>1
<1>3. irPrio[irStack[i].line] \in Nat /\ irPrio[irStack[j].line] \in Nat
  <2>1. irStack[i].line \in Lines /\ irStack[j].line \in Lines
    BY <1>2 DEF Activation
  <2>2. irPrio \in [Lines -> Nat]
    BY DEF IrIInv, PrioInv, Levels, MotorPriority, UsartPriority, DmaPriority
  <2> QED BY <2>1, <2>2
<1>4. i < j \/ j < i
  BY <1>1
<1>5. irPrio[irStack[j].line] < irPrio[irStack[i].line]
      \/ irPrio[irStack[i].line] < irPrio[irStack[j].line]
  BY <1>4 DEF IrIInv, NestInv
<1> DEFINE p == irPrio[irStack[i].line]
           q == irPrio[irStack[j].line]
<1>6. p # q
  <2> HIDE DEF p, q
  <2>1. p \in Nat /\ q \in Nat /\ (q < p \/ p < q)
    BY <1>3, <1>5 DEF p, q
  <2> QED BY <2>1
<1> QED BY <1>6

\* So no slot is called by one activation while another still has it to call.
LEMMA InvProducer == ASSUME IrIInv PROVE OneProducer
<1> SUFFICES ASSUME NEW i \in 1..Len(irStack), NEW j \in 1..Len(irStack), i # j,
                    NEW k \in 1..Len(irStack[i].rest), irStack[i].rest[k] \in irStack[j].called
             PROVE  FALSE
  BY DEF OneProducer
<1>1. Own(irStack[i]) /\ Own(irStack[j])
  BY DEF IrIInv, StackInv
<1>2. LineOf(irLayout, irStack[i].rest[k]) = irStack[i].line
  BY <1>1 DEF Own
<1>3. LineOf(irLayout, irStack[i].rest[k]) = irStack[j].line
  BY <1>1 DEF Own
<1> QED BY <1>2, <1>3, LinesDiffer

\* Once everything is written the lines of the sources have one of three levels,
\* and only the period interrupt has the first.
LEMMA AppliedLevels ==
  ASSUME IrIInv, Applied, NEW l \in irOn
  PROVE  /\ irPrio[PeriodIrq(irLayout)] = MotorPriority
         /\ l # PeriodIrq(irLayout) => irPrio[l] \in {UsartPriority, DmaPriority}
<1>1. \A u : Written(u)
  <2>1. Len(irTodo) = 0
    BY DEF Applied
  <2> QED BY <2>1 DEF Written
<1>2. PICK e \in irSlots : LineOf(irLayout, e) = l
  BY DEF IrIInv, PlaceInv
<1>3. e \in Sources(irLayout) /\ irLayout \in {"F1x0Grouped", "F10xSeparate"}
  BY WantedSources DEF IrIInv, PlaceInv
<1>4. irPrio[PeriodIrq(irLayout)] = MotorPriority
  BY <1>1 DEF IrIInv, PrioInv
<1>5. CASE e = Control
  BY <1>2, <1>4, <1>5 DEF LineOf
<1>6. ASSUME NEW p \in Ports, HasPort(irLayout, p),
             e = <<"rx", p>> \/ e = <<"dma_rx", p>> \/ e = <<"dma_tx", p>>
      PROVE  irPrio[l] \in {UsartPriority, DmaPriority}
  <2> DEFINE v == UsartIrqs(irLayout, p)
  <2>1. irPrio[v.rx] = UsartPriority /\ irPrio[v.dma_rx] = DmaPriority
        /\ irPrio[v.dma_tx] = DmaPriority
    BY <1>1, <1>6 DEF IrIInv, PrioInv
  <2>2. l = v.rx \/ l = v.dma_rx \/ l = v.dma_tx
    BY <1>2, <1>3, <1>6, LineCases
  <2> HIDE DEF v
  <2> QED BY <2>1, <2>2
<1> QED BY <1>3, <1>4, <1>5, <1>6, SourceCases

\* So the period interrupt preempts every handler that can be running.
LEMMA InvPeriod == ASSUME IrIInv PROVE PeriodFirst
<1> SUFFICES ASSUME Applied, NEW i \in 1..Len(irStack), irStack[i].line # PeriodIrq(irLayout)
             PROVE  irPrio[PeriodIrq(irLayout)] < irPrio[irStack[i].line]
  BY DEF PeriodFirst
<1>1. irStack[i].line \in irOn
  BY DEF IrIInv, StackInv, Own
<1>2. irPrio[PeriodIrq(irLayout)] = MotorPriority
      /\ irPrio[irStack[i].line] \in {UsartPriority, DmaPriority}
  BY <1>1, AppliedLevels
<1> QED BY <1>2 DEF MotorPriority, UsartPriority, DmaPriority

\* A chain of strictly more urgent activations is no longer than the levels.
LEMMA InvNesting == ASSUME IrIInv PROVE NestingBounded
<1> DEFINE n == Len(irStack)
           f == [i \in 1..n |-> irPrio[irStack[i].line]]
<1>1. n \in Nat
  BY DEF IrIInv, StackInv
<1>2. \A i \in 1..n : f[i] \in {0, 1, 4, 7}
  <2>1. \A x \in Activation : x.line \in Lines
    BY DEF Activation
  <2>2. \A i \in 1..n : irStack[i] \in Activation
    BY DEF IrIInv, StackInv
  <2>3. irPrio \in [Lines -> {0, 1, 4, 7}]
    BY DEF IrIInv, PrioInv, Levels, MotorPriority, UsartPriority, DmaPriority
  <2> QED BY <2>1, <2>2, <2>3
<1>3. \A i, j \in 1..n : i < j => f[j] < f[i]
  BY DEF IrIInv, NestInv
<1>4. ASSUME Applied
      PROVE  \A i \in 1..n : f[i] # 0
  <2> SUFFICES ASSUME NEW i \in 1..n PROVE irPrio[irStack[i].line] # 0
    OBVIOUS
  <2>1. irStack[i].line \in irOn
    BY DEF IrIInv, StackInv, Own
  <2>2. irPrio[PeriodIrq(irLayout)] = MotorPriority
        /\ (irStack[i].line # PeriodIrq(irLayout) => irPrio[irStack[i].line] \in {UsartPriority, DmaPriority})
    BY <1>4, <2>1, AppliedLevels
  <2> QED BY <2>2 DEF MotorPriority, UsartPriority, DmaPriority
<1> HIDE DEF n, f
<1>5. n <= 4
  <2> SUFFICES ASSUME n >= 5 PROVE FALSE
    BY <1>1
  <2>1. 1 \in 1..n /\ 2 \in 1..n /\ 3 \in 1..n /\ 4 \in 1..n /\ 5 \in 1..n
    BY <1>1
  <2>2. f[2] < f[1] /\ f[3] < f[2] /\ f[4] < f[3] /\ f[5] < f[4]
    BY <1>3, <2>1
  <2>3. f[1] \in {0, 1, 4, 7} /\ f[2] \in {0, 1, 4, 7} /\ f[3] \in {0, 1, 4, 7}
        /\ f[4] \in {0, 1, 4, 7} /\ f[5] \in {0, 1, 4, 7}
    BY <1>2, <2>1
  <2> QED BY <2>2, <2>3
<1>6. ASSUME Applied
      PROVE  n <= 3
  <2> SUFFICES ASSUME n >= 4 PROVE FALSE
    BY <1>1
  <2>1. 1 \in 1..n /\ 2 \in 1..n /\ 3 \in 1..n /\ 4 \in 1..n
    BY <1>1
  <2>2. f[2] < f[1] /\ f[3] < f[2] /\ f[4] < f[3]
    BY <1>3, <2>1
  <2>3. f[1] \in {1, 4, 7} /\ f[2] \in {1, 4, 7} /\ f[3] \in {1, 4, 7} /\ f[4] \in {1, 4, 7}
    BY <1>2, <1>4, <1>6, <2>1
  <2> QED BY <2>2, <2>3
<1> QED BY <1>5, <1>6 DEF NestingBounded, n

\* For every set of ports and both layouts: an entry calls its own line's
\* handlers and all of them that were due, the motor period preempts whatever
\* receiver runs, a slot has one activation at a time, and the nesting is
\* bounded by the urgencies.
THEOREM RoutingSafety == IrSpec => []IrSafe
<1>1. IrIInv => IrSafe
  BY InvTypes, InvRouted, InvPeriod, InvProducer, InvNesting DEF IrSafe
<1> QED BY <1>1, IrInvariant, PTL

---------------------------------------------------------------------------
(* The receive ring (RxRing).                                             *)

USE NAssumption, ByteAssumption, RrMaxBytesAssumption

\* The index arithmetic (i + 1) % N without the modulo.
LEMMA SuccValue ==
  ASSUME NEW i \in Slot
  PROVE  Succ(i) = IF i + 1 = N THEN 0 ELSE i + 1
<1>1. CASE i + 1 = N
  BY <1>1 DEF Slot, Succ
<1>2. CASE i + 1 # N
  <2>1. i + 1 \in Nat /\ i + 1 < N
    BY <1>2 DEF Slot
  <2>2. (i + 1) % N = i + 1
    BY <2>1
  <2> QED BY <2>2, <1>2 DEF Succ
<1> QED BY <1>1, <1>2

\* The successor of a slot is a slot.
LEMMA SuccType == ASSUME NEW i \in Slot PROVE Succ(i) \in Slot
  BY SuccValue DEF Slot

\* The k-th byte of the stream is the k-th delivered, or sits in its slot.
IndexInv ==
  /\ Len(accepted) = Len(delivered) + Count
  /\ \A k \in 1 .. Len(delivered) : delivered[k] = accepted[k]
  /\ \A k \in 1 .. Count : rrBuf[SlotOf(k)] = accepted[Len(delivered) + k]

\* What each side knows between two steps of its own operation.
PendingInv ==
  /\ prod # "idle" => Count < N - 1
  /\ prod = "publish" => rrBuf[head] = prodByte
  /\ cons # "idle" => Count > 0
  /\ cons = "free" => consByte = rrBuf[tail]

IInv == RrTypeOK /\ IndexInv /\ PendingInv

------------------------------------------------------------------------------
\* The ring never holds more than N - 1 bytes: one slot stays free.
LEMMA CountType == ASSUME RrTypeOK PROVE Count \in 0 .. N - 1
  BY DEF RrTypeOK, Count, Slot

\* The empty ring of RxRing::new satisfies the inductive invariant.
LEMMA InitIInv == RrInit => IInv
<1> SUFFICES ASSUME RrInit PROVE IInv
  OBVIOUS
<1>1. RrTypeOK
  BY DEF RrInit, RrTypeOK, Slot
<1>2. Count = 0
  BY DEF RrInit, Count
<1> QED BY <1>1, <1>2 DEF RrInit, IInv, IndexInv, PendingInv

\* PushBegin decides there is room; the consumer can only make more.
LEMMA PushBeginStep == ASSUME IInv, NEW b \in Byte, PushBegin(b) PROVE IInv'
<1>1. RrTypeOK'
  BY DEF IInv, RrTypeOK, PushBegin, consVars
<1>2. IndexInv'
  BY DEF IInv, IndexInv, PushBegin, consVars, Count, SlotOf
<1>3. Count < N - 1
  BY SuccValue DEF IInv, RrTypeOK, PushBegin, Count, Slot
<1>4. PendingInv'
  BY <1>3 DEF IInv, PendingInv, PushBegin, consVars, Count
<1> QED BY <1>1, <1>2, <1>4 DEF IInv

\* The slot at head is none of the unread ones, so writing it changes none.
LEMMA PushWriteStep == ASSUME IInv, PushWrite PROVE IInv'
<1>1. RrTypeOK'
  BY DEF IInv, RrTypeOK, PushWrite, consVars
<1>2. /\ Count' = Count
      /\ \A k \in 1 .. Count : SlotOf(k)' = SlotOf(k)
  BY DEF PushWrite, consVars, Count, SlotOf
<1>3. \A k \in 1 .. Count : SlotOf(k) \in Slot /\ SlotOf(k) # head
  BY DEF IInv, RrTypeOK, Count, SlotOf, Slot
<1>4. \A k \in 1 .. Count : rrBuf'[SlotOf(k)] = rrBuf[SlotOf(k)]
  BY <1>3 DEF PushWrite, IInv, RrTypeOK
<1>5. IndexInv'
  BY <1>2, <1>4 DEF IInv, IndexInv, PushWrite, consVars
<1>6. rrBuf'[head] = prodByte
  BY DEF PushWrite, IInv, RrTypeOK
<1>7. Count > 0 => tail # head /\ rrBuf'[tail] = rrBuf[tail]
  BY DEF PushWrite, IInv, RrTypeOK, Count, Slot
<1>8. PendingInv'
  BY <1>2, <1>6, <1>7 DEF IInv, PendingInv, PushWrite, consVars
<1> QED BY <1>1, <1>5, <1>8 DEF IInv

\* Publishing adds the written slot as the last of the unread ones.
LEMMA PushPublishStep == ASSUME IInv, PushPublish PROVE IInv'
<1>1. RrTypeOK'
  BY SuccType DEF IInv, RrTypeOK, PushPublish, consVars
<1>2. Count' = Count + 1
  <2>1. head' = IF head + 1 = N THEN 0 ELSE head + 1
    BY SuccValue DEF PushPublish, IInv, RrTypeOK
  <2>2. tail' = tail /\ Count < N - 1
    BY DEF PushPublish, consVars, IInv, PendingInv
  <2> QED BY <2>1, <2>2 DEF Count, IInv, RrTypeOK, Slot
<1>3. \A k \in 1 .. Count' : SlotOf(k)' = SlotOf(k)
  BY DEF PushPublish, consVars, SlotOf
<1>4. SlotOf(Count + 1) = head
  BY DEF SlotOf, Count, IInv, RrTypeOK, Slot
<1>5. Len(accepted') = Len(accepted) + 1 /\ accepted'[Len(accepted) + 1] = prodByte
      /\ \A k \in 1 .. Len(accepted) : accepted'[k] = accepted[k]
  BY DEF PushPublish, IInv, RrTypeOK
<1>6. IndexInv'
  <2>1. delivered' = delivered /\ rrBuf' = rrBuf /\ rrBuf[head] = prodByte
    BY DEF PushPublish, consVars, IInv, PendingInv
  <2>2. Len(delivered) \in Nat /\ Count \in Nat
    BY CountType DEF IInv, RrTypeOK
  <2>3. Len(accepted') = Len(delivered') + Count'
    BY <1>2, <1>5, <2>1, <2>2 DEF IInv, IndexInv
  <2>4. \A k \in 1 .. Len(delivered') : delivered'[k] = accepted'[k]
    BY <1>5, <2>1, <2>2 DEF IInv, IndexInv
  <2>5. ASSUME NEW k \in 1 .. Count'
        PROVE  rrBuf'[SlotOf(k)'] = accepted'[Len(delivered') + k]
    <3>1. CASE k \in 1 .. Count
      <4>1. rrBuf[SlotOf(k)] = accepted[Len(delivered) + k]
        BY <3>1 DEF IInv, IndexInv
      <4>2. Len(delivered) + k \in 1 .. Len(accepted)
        BY <3>1, <2>2 DEF IInv, IndexInv
      <4> QED BY <4>1, <4>2, <1>3, <1>5, <2>1
    <3>2. CASE k = Count + 1
      BY <3>2, <1>3, <1>4, <1>5, <2>1, <2>2 DEF IInv, IndexInv
    <3> QED BY <3>1, <3>2, <1>2, <2>2
  <2> QED BY <2>3, <2>4, <2>5 DEF IndexInv
<1>7. PendingInv'
  BY <1>2, CountType DEF IInv, PendingInv, PushPublish, consVars
<1> QED BY <1>1, <1>6, <1>7 DEF IInv

\* A pop that finds a byte loads the indices and changes nothing shared.
LEMMA PopBeginStep == ASSUME IInv, PopBegin PROVE IInv'
<1>1. RrTypeOK'
  BY DEF IInv, RrTypeOK, PopBegin, prodVars
<1>2. IndexInv'
  BY DEF IInv, IndexInv, PopBegin, prodVars, Count, SlotOf
<1>3. Count > 0
  BY DEF IInv, RrTypeOK, PopBegin, Count, Slot
<1>4. PendingInv'
  BY <1>3 DEF IInv, PendingInv, PopBegin, prodVars, Count
<1> QED BY <1>1, <1>2, <1>4 DEF IInv

\* The read of the tail slot returns the oldest byte still queued.
LEMMA PopReadStep == ASSUME IInv, PopRead PROVE IInv'
<1>1. RrTypeOK'
  BY DEF IInv, RrTypeOK, PopRead, prodVars
<1>2. IndexInv'
  BY DEF IInv, IndexInv, PopRead, prodVars, Count, SlotOf
<1>3. PendingInv'
  BY DEF IInv, PendingInv, PopRead, prodVars, Count
<1> QED BY <1>1, <1>2, <1>3 DEF IInv

\* Freeing moves the oldest unread byte to the end of what was delivered.
LEMMA PopFreeStep == ASSUME IInv, PopFree PROVE IInv'
<1>1. RrTypeOK'
  BY SuccType DEF IInv, RrTypeOK, PopFree, prodVars
<1>2. Count > 0 /\ Count' = Count - 1
  <2>1. tail' = IF tail + 1 = N THEN 0 ELSE tail + 1
    BY SuccValue DEF PopFree, IInv, RrTypeOK
  <2>2. head' = head /\ Count > 0
    BY DEF PopFree, prodVars, IInv, PendingInv
  <2> QED BY <2>1, <2>2 DEF Count, IInv, RrTypeOK, Slot
<1>3. \A k \in 1 .. Count' : SlotOf(k)' = SlotOf(k + 1)
  <2>1. tail' = IF tail + 1 = N THEN 0 ELSE tail + 1
    BY SuccValue DEF PopFree, IInv, RrTypeOK
  <2>2. Count' \in Nat /\ Count' < N
    BY <1>1, CountType, <1>2 DEF IInv
  <2> QED BY <2>1, <2>2 DEF SlotOf, IInv, RrTypeOK, Slot
<1>4. SlotOf(1) = tail
  BY DEF SlotOf, IInv, RrTypeOK, Slot
<1>5. Len(delivered') = Len(delivered) + 1 /\ delivered'[Len(delivered) + 1] = consByte
      /\ \A k \in 1 .. Len(delivered) : delivered'[k] = delivered[k]
  BY DEF PopFree, IInv, RrTypeOK
<1>6. IndexInv'
  <2>1. accepted' = accepted /\ rrBuf' = rrBuf /\ consByte = rrBuf[tail]
    BY DEF PopFree, prodVars, IInv, PendingInv
  <2>2. Len(delivered) \in Nat /\ Count \in Nat
    BY CountType DEF IInv, RrTypeOK
  <2>3. Len(accepted') = Len(delivered') + Count'
    BY <1>2, <1>5, <2>1, <2>2 DEF IInv, IndexInv
  <2>4. consByte = accepted[Len(delivered) + 1]
    BY <1>2, <1>4, <2>1, <2>2 DEF IInv, IndexInv
  <2>5. \A k \in 1 .. Len(delivered') : delivered'[k] = accepted'[k]
    BY <1>5, <2>1, <2>2, <2>4 DEF IInv, IndexInv
  <2>6. ASSUME NEW k \in 1 .. Count'
        PROVE  rrBuf'[SlotOf(k)'] = accepted'[Len(delivered') + k]
    <3>1. k + 1 \in 1 .. Count
      BY <1>2, <2>2
    <3>2. rrBuf[SlotOf(k + 1)] = accepted[Len(delivered) + (k + 1)]
      BY <3>1 DEF IInv, IndexInv
    <3>3. Len(delivered) + (k + 1) = Len(delivered') + k
      BY <1>5, <2>2
    <3> QED BY <1>3, <2>1, <3>2, <3>3
  <2> QED BY <2>3, <2>5, <2>6 DEF IndexInv
<1>7. PendingInv'
  BY <1>2, CountType DEF IInv, PendingInv, PopFree, prodVars
<1> QED BY <1>1, <1>6, <1>7 DEF IInv

\* Every step of the specification keeps the inductive invariant.
LEMMA NextIInv == IInv /\ [RrNext]_rrVars => IInv'
<1> SUFFICES ASSUME IInv, [RrNext]_rrVars PROVE IInv'
  OBVIOUS
<1>1. CASE UNCHANGED rrVars
  BY <1>1 DEF rrVars, IInv, RrTypeOK, IndexInv, PendingInv, Count, SlotOf
<1>2. CASE \E b \in Byte : PushBegin(b)
  BY <1>2, PushBeginStep
<1>3. CASE PushWrite
  BY <1>3, PushWriteStep
<1>4. CASE PushPublish
  BY <1>4, PushPublishStep
<1>5. CASE PopBegin
  BY <1>5, PopBeginStep
<1>6. CASE PopRead
  BY <1>6, PopReadStep
<1>7. CASE PopFree
  BY <1>7, PopFreeStep
<1> QED BY <1>1, <1>2, <1>3, <1>4, <1>5, <1>6, <1>7
        DEF RrNext, Push, Pop, PushRefused, PopEmpty

\* The inductive invariant holds in every reachable state.
LEMMA IInvAlways == RrSpec => []IInv
  BY InitIInv, NextIInv, PTL DEF RrSpec
------------------------------------------------------------------------------
\* The ring's variables keep their types.
THEOREM TypeCorrect == RrSpec => []RrTypeOK
<1>1. IInv => RrTypeOK
  BY DEF IInv
<1> QED BY <1>1, IInvAlways, PTL

\* usart_rx.rs, `unsafe impl Sync`: the two sides never touch one cell at once.
THEOREM SlotRaceFree == RrSpec => []NoSlotRace
<1>1. IInv => NoSlotRace
  BY DEF IInv, RrTypeOK, PendingInv, NoSlotRace, Count, Slot
<1> QED BY <1>1, IInvAlways, PTL

\* RxRing::push / RxRing::pop: the stream comes out as it went in.
THEOREM StreamInOrder == RrSpec => []InOrder
<1>1. ASSUME IInv PROVE InOrder
  <2>1. Count \in Nat /\ Len(delivered) \in Nat
    BY <1>1, CountType DEF IInv, RrTypeOK
  <2>2. Contents \in Seq(Byte) /\ Len(Contents) = Count
    <3>1. \A k \in 1 .. Count : rrBuf[SlotOf(k)] \in Byte
      BY <1>1, CountType DEF IInv, RrTypeOK, SlotOf, Slot
    <3> QED BY <3>1, <2>1 DEF Contents
  <2>3. delivered \in Seq(Byte) /\ accepted \in Seq(Byte)
        /\ Len(accepted) = Len(delivered) + Count
    BY <1>1 DEF IInv, RrTypeOK, IndexInv
  <2>4. /\ delivered \o Contents \in Seq(Byte)
        /\ Len(delivered \o Contents) = Len(accepted)
        /\ \A k \in 1 .. Len(accepted) : (delivered \o Contents)[k] =
              IF k <= Len(delivered) THEN delivered[k] ELSE Contents[k - Len(delivered)]
    BY <2>2, <2>3, ConcatProperties
  <2>5. ASSUME NEW k \in 1 .. Len(accepted)
        PROVE  (delivered \o Contents)[k] = accepted[k]
    <3>1. CASE k <= Len(delivered)
      <4>1. k \in 1 .. Len(delivered)
        BY <2>1, <2>3, <3>1
      <4>2. delivered[k] = accepted[k]
        BY <1>1, <4>1 DEF IInv, IndexInv
      <4> QED BY <2>4, <3>1, <4>2
    <3>2. CASE ~ (k <= Len(delivered))
      <4>1. k - Len(delivered) \in 1 .. Count
        BY <2>1, <2>3, <3>2
      <4>2. Contents[k - Len(delivered)] = rrBuf[SlotOf(k - Len(delivered))]
        BY <4>1 DEF Contents
      <4>3. rrBuf[SlotOf(k - Len(delivered))] = accepted[Len(delivered) + (k - Len(delivered))]
        BY <1>1, <4>1 DEF IInv, IndexInv
      <4>4. Len(delivered) + (k - Len(delivered)) = k
        BY <2>1, <2>3
      <4> QED BY <2>4, <3>2, <4>2, <4>3, <4>4
    <3> QED BY <3>1, <3>2
  <2>6. delivered \o Contents = accepted
    BY <2>3, <2>4, <2>5, SeqEqual
  <2> QED BY <2>6 DEF InOrder
<1> QED BY <1>1, IInvAlways, PTL

\* All of what push and pop promise at every moment, for every capacity.
THEOREM RrSafety == RrSpec => []RrSafe
  BY TypeCorrect, SlotRaceFree, StreamInOrder, PTL DEF RrSafe
------------------------------------------------------------------------------
(***************************************************************************)
(* The ring implements the bounded queue.  The queue is what accepted has  *)
(* beyond delivered, so a step that leaves both histories alone leaves the *)
(* queue alone, whatever it does to the cells.                             *)
(***************************************************************************)
ContentsInv ==
  /\ accepted \in Seq(Byte) /\ delivered \in Seq(Byte) /\ Count \in 0 .. N - 1
  /\ Len(accepted) = Len(delivered) + Count
  /\ Contents \in Seq(Byte) /\ Len(Contents) = Count
  /\ \A k \in 1 .. Count : Contents[k] = accepted[Len(delivered) + k]

\* The queue is read off the histories.
LEMMA ContentsFromHistory == IInv => ContentsInv
<1> SUFFICES ASSUME IInv PROVE ContentsInv
  OBVIOUS
<1>1. Count \in 0 .. N - 1
  BY CountType DEF IInv
<1>2. \A k \in 1 .. Count : rrBuf[SlotOf(k)] \in Byte
  BY <1>1 DEF IInv, RrTypeOK, SlotOf, Slot
<1>3. Contents \in Seq(Byte) /\ Len(Contents) = Count
  BY <1>1, <1>2 DEF Contents
<1>4. \A k \in 1 .. Count : Contents[k] = rrBuf[SlotOf(k)]
  BY DEF Contents
<1> QED BY <1>1, <1>3, <1>4 DEF ContentsInv, IInv, RrTypeOK, IndexInv

\* RxRing::new is the empty queue.
LEMMA InitIsFifo == RrInit => Fifo!Init
<1> SUFFICES ASSUME RrInit PROVE Fifo!Init
  OBVIOUS
<1>1. ContentsInv /\ Count = 0
  BY InitIInv, ContentsFromHistory DEF RrInit, Count
<1>2. Contents = << >>
  BY <1>1 DEF ContentsInv
<1> QED BY <1>2 DEF Fifo!Init, RrInit

\* Neither history moves: the queue does not either.
LEMMA QuietStep ==
  ASSUME ContentsInv, ContentsInv', UNCHANGED << accepted, delivered >>
  PROVE  UNCHANGED Fifo!fifoVars
<1>1. Count \in Nat /\ Count' \in Nat /\ Len(delivered) \in Nat
  BY DEF ContentsInv
<1>2. Count' = Count
  BY <1>1 DEF ContentsInv
<1>3. \A k \in 1 .. Len(Contents) : Contents'[k] = Contents[k]
  BY <1>2 DEF ContentsInv
<1>4. Contents' \in Seq(Byte) /\ Contents \in Seq(Byte) /\ Len(Contents') = Len(Contents)
  BY <1>2 DEF ContentsInv
<1>5. Contents' = Contents
  BY <1>3, <1>4, SeqEqual
<1> QED BY <1>5 DEF Fifo!fifoVars

\* The store of head is the queue's Enqueue, and there is room for it.
LEMMA PublishEnqueues ==
  ASSUME IInv, ContentsInv, ContentsInv', PushPublish PROVE Fifo!Enqueue(prodByte)
<1>1. prodByte \in Byte /\ Count < N - 1 /\ delivered' = delivered
      /\ accepted' = Append(accepted, prodByte)
  BY DEF IInv, RrTypeOK, PendingInv, PushPublish, consVars
<1>2. Count \in Nat /\ Count' \in Nat /\ Len(delivered) \in Nat
      /\ accepted \in Seq(Byte) /\ Contents \in Seq(Byte)
  BY DEF ContentsInv
<1>3. Len(accepted') = Len(accepted) + 1 /\ accepted'[Len(accepted) + 1] = prodByte
      /\ \A k \in 1 .. Len(accepted) : accepted'[k] = accepted[k]
  BY <1>1, <1>2
<1>4. Count' = Count + 1
  BY <1>1, <1>2, <1>3 DEF ContentsInv
<1>5. Append(Contents, prodByte) \in Seq(Byte)
      /\ Len(Append(Contents, prodByte)) = Count'
  BY <1>1, <1>2, <1>4 DEF ContentsInv
<1>6. ASSUME NEW k \in 1 .. Count'
      PROVE  Contents'[k] = Append(Contents, prodByte)[k]
  <2>1. Contents'[k] = accepted'[Len(delivered) + k]
    BY <1>1 DEF ContentsInv
  <2>2. CASE k \in 1 .. Count
    <3>1. Len(delivered) + k \in 1 .. Len(accepted)
      BY <1>2, <2>2 DEF ContentsInv
    <3>2. Contents[k] = accepted[Len(delivered) + k]
      BY <2>2 DEF ContentsInv
    <3>3. Append(Contents, prodByte)[k] = Contents[k]
      BY <1>2, <2>2 DEF ContentsInv
    <3> QED BY <1>3, <2>1, <3>1, <3>2, <3>3
  <2>3. CASE k = Count + 1
    <3>1. Len(delivered) + k = Len(accepted) + 1
      BY <1>2, <2>3 DEF ContentsInv
    <3>2. Append(Contents, prodByte)[k] = prodByte
      BY <1>2, <2>3 DEF ContentsInv
    <3> QED BY <1>3, <2>1, <3>1, <3>2
  <2>4. k \in 1 .. Count \/ k = Count + 1
    BY <1>2, <1>4
  <2> QED BY <2>2, <2>3, <2>4
<1>7. Contents' = Append(Contents, prodByte)
  <2>1. Contents' \in Seq(Byte) /\ Len(Contents') = Count'
    BY DEF ContentsInv
  <2> QED BY <1>5, <1>6, <2>1, SeqEqual
<1>8. Len(Contents) < N - 1
  BY <1>1 DEF ContentsInv
<1> QED BY <1>1, <1>7, <1>8 DEF Fifo!Enqueue

\* The store of tail is the queue's Dequeue: it hands over the oldest byte.
LEMMA FreeDequeues ==
  ASSUME IInv, ContentsInv, ContentsInv', PopFree PROVE Fifo!Dequeue
<1>1. Count > 0 /\ accepted' = accepted /\ consByte = rrBuf[tail]
      /\ delivered' = Append(delivered, consByte)
  BY DEF IInv, PendingInv, PopFree, prodVars
<1>2. Count \in Nat /\ Count' \in Nat /\ Len(delivered) \in Nat
      /\ Contents \in Seq(Byte) /\ delivered \in Seq(Byte)
  BY DEF ContentsInv
<1>3. Len(delivered') = Len(delivered) + 1
  BY <1>1, <1>2
<1>4. Count' = Count - 1
  BY <1>1, <1>2, <1>3 DEF ContentsInv
<1>5. Contents # << >> /\ Head(Contents) = Contents[1]
  BY <1>1, <1>2 DEF ContentsInv
<1>6. Contents[1] = consByte
  <2>1. SlotOf(1) = tail
    BY DEF SlotOf, IInv, RrTypeOK, Slot
  <2> QED BY <1>1, <1>2, <2>1 DEF Contents
<1>7. Tail(Contents) \in Seq(Byte) /\ Len(Tail(Contents)) = Count'
      /\ \A k \in 1 .. Len(Tail(Contents)) : Tail(Contents)[k] = Contents[k + 1]
  <2>1. Len(Contents) = Count
    BY DEF ContentsInv
  <2> QED BY <1>2, <1>4, <1>5, <2>1, HeadTailProperties
<1>8. ASSUME NEW k \in 1 .. Count' PROVE Contents'[k] = Tail(Contents)[k]
  <2>1. Contents'[k] = accepted[Len(delivered') + k]
    BY <1>1 DEF ContentsInv
  <2>2. k + 1 \in 1 .. Count
    BY <1>2, <1>4
  <2>3. Contents[k + 1] = accepted[Len(delivered) + (k + 1)]
    BY <2>2 DEF ContentsInv
  <2>4. Len(delivered') + k = Len(delivered) + (k + 1)
    BY <1>2, <1>3
  <2> QED BY <1>7, <2>1, <2>3, <2>4
<1>9. Contents' = Tail(Contents)
  <2>1. Contents' \in Seq(Byte) /\ Len(Contents') = Count'
    BY DEF ContentsInv
  <2> QED BY <1>7, <1>8, <2>1, SeqEqual
<1> QED BY <1>1, <1>5, <1>6, <1>9 DEF Fifo!Dequeue

\* Every step of the ring is a step of the queue, or none.
LEMMA StepIsFifo == IInv /\ IInv' /\ [RrNext]_rrVars => [Fifo!Next]_(Fifo!fifoVars)
<1>1. IInv' => ContentsInv'
  BY ContentsFromHistory, PTL
<1> SUFFICES ASSUME IInv, IInv', [RrNext]_rrVars PROVE [Fifo!Next]_(Fifo!fifoVars)
  OBVIOUS
<1>2. ContentsInv /\ ContentsInv'
  BY <1>1, ContentsFromHistory
<1>3. CASE PushPublish
  <2>1. prodByte \in Byte
    BY DEF IInv, RrTypeOK
  <2> QED BY <1>2, <1>3, <2>1, PublishEnqueues DEF Fifo!Next
<1>4. CASE PopFree
  BY <1>2, <1>4, FreeDequeues DEF Fifo!Next
<1>5. CASE ~ PushPublish /\ ~ PopFree
  <2>1. UNCHANGED << accepted, delivered >>
    BY <1>5 DEF RrNext, Push, Pop, PushRefused, PushBegin, PushWrite, PopEmpty, PopBegin,
                PopRead, rrVars, prodVars, consVars
  <2> QED BY <1>2, <2>1, QuietStep
<1> QED BY <1>3, <1>4, <1>5

\* RxRing ("usable capacity is N - 1"): push and pop behave as the two ends of
\* a bounded first-in first-out queue, for every capacity and every byte set.
THEOREM RingImplementsFifo == RrSpec => ImplementsFifo
<1>1. RrSpec => []IInv
  BY IInvAlways
<1> QED BY <1>1, InitIsFifo, StepIsFifo, PTL DEF RrSpec, ImplementsFifo, Fifo!Spec
=============================================================================
