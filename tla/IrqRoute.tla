------------------------------ MODULE IrqRoute ------------------------------
(***************************************************************************)
(* Interrupt routing (irq.rs): the RAM vector table built for a family's   *)
(* IRQ layout, the registered-handler slots its entries call, the NVIC     *)
(* priorities, and the nesting they allow.  A device event stays raised    *)
(* until the handler registered for it runs: an entry whose slot is still  *)
(* the default returns and is entered again.                               *)
(***************************************************************************)
EXTENDS Naturals, Sequences, FiniteSets

CONSTANTS
  IrLayouts, \* the layouts to start from, within {"F1x0Grouped", "F10xSeparate"}
  IrPorts    \* the USARTs a board brings up, within AllPorts

AllPorts == <<"Usart0", "Usart1", "Usart2">>

ASSUME IrAssumption ==
  /\ IrLayouts \subseteq {"F1x0Grouped", "F10xSeparate"}
  /\ IrPorts \subseteq {AllPorts[i] : i \in 1..3}

VARIABLES
  irLayout,  \* the family's layout
  irTable,   \* the vector table VTOR points at: IRQ number -> handler
  irSlots,   \* the handler slots somebody registered
  irPrio,    \* NVIC priority of each IRQ, in steps of 0x10
  irTodo,    \* USARTs apply_motor_era_priorities has still to write
  irOn,      \* unmasked IRQs
  irRaised,  \* events raised and not yet handled
  irStack    \* active handlers, the running one last

irVars == <<irLayout, irTable, irSlots, irPrio, irTodo, irOn, irRaised, irStack>>

---------------------------------------------------------------------------
(* Tables.  A slot, and the device event its handler serves, is a pair     *)
(* <<kind, USART>>; the period interrupt's is <<"control", "Timer0">>.     *)

Control == <<"control", "Timer0">>
UsartSlots == {"rx"} \X {"Usart1", "Usart2", "Usart0"}
DmaRxSlots == {"dma_rx"} \X {"Usart1", "Usart2", "Usart0"}
DmaTxSlots == {"dma_tx"} \X {"Usart1", "Usart2", "Usart0"}
Slots == {Control} \cup UsartSlots \cup DmaRxSlots \cup DmaTxSlots

\* The IRQ numbers of the period interrupt and of each USART.
PeriodIrq(layout) == IF layout = "F1x0Grouped" THEN 12 ELSE 18
UsartIrqs(layout, port) ==
  CASE layout = "F1x0Grouped" /\ port = "Usart0" -> [rx |-> 27, dma_rx |-> 10, dma_tx |-> 10]
    [] layout = "F1x0Grouped" /\ port = "Usart1" -> [rx |-> 28, dma_rx |-> 11, dma_tx |-> 11]
    [] layout = "F10xSeparate" /\ port = "Usart0" -> [rx |-> 37, dma_rx |-> 15, dma_tx |-> 14]
    [] layout = "F10xSeparate" /\ port = "Usart1" -> [rx |-> 38, dma_rx |-> 16, dma_tx |-> 17]
    [] layout = "F10xSeparate" /\ port = "Usart2" -> [rx |-> 39, dma_rx |-> 13, dma_tx |-> 12]
HasPort(layout, port) == ~(layout = "F1x0Grouped" /\ port = "Usart2")

\* The IRQ that carries an event.
LineOf(layout, e) ==
  IF e = Control THEN PeriodIrq(layout) ELSE UsartIrqs(layout, e[2])[e[1]]

\* Mutant: the entry of USART0 is that of its receive channel.
BuildTablePasted(layout) ==
  IF layout = "F1x0Grouped"
  THEN [l \in {12, 27, 10} |->
          CASE l = 12 -> "adc_isr" [] l = 27 -> "usart0_rx_isr" [] l = 10 -> "dma_ch1_2_isr"]
  ELSE [l \in {18, 37, 15, 14} |->
          CASE l = 18 -> "adc_isr" [] l \in {37, 15} -> "usart0_dma_rx_isr"
            [] l = 14 -> "usart0_dma_tx_isr"]

\* build_table: the entries of the interrupts this model raises.
BuildTable(layout) ==
  IF layout = "F1x0Grouped"
  THEN [l \in {12, 28, 11, 27, 10} |->
          CASE l = 12 -> "adc_isr"
            [] l = 28 -> "usart1_rx_isr" [] l = 11 -> "dma_ch3_4_isr"
            [] l = 27 -> "usart0_rx_isr" [] l = 10 -> "dma_ch1_2_isr"]
  ELSE [l \in {18, 38, 39, 37, 15, 14, 16, 17, 13, 12} |->
          CASE l = 18 -> "adc_isr"
            [] l = 38 -> "usart1_rx_isr" [] l = 39 -> "usart2_rx_isr" [] l = 37 -> "usart0_rx_isr"
            [] l = 15 -> "usart0_dma_rx_isr" [] l = 14 -> "usart0_dma_tx_isr"
            [] l = 16 -> "dma_rx_isr" [] l = 17 -> "dma_tx_isr"
            [] l = 13 -> "usart2_dma_rx_isr" [] l = 12 -> "usart2_dma_tx_isr"]

\* The slots each entry calls, in order.
Body == [
  adc_isr           |-> <<Control>>,
  usart1_rx_isr     |-> <<<<"rx", "Usart1">>>>,
  usart2_rx_isr     |-> <<<<"rx", "Usart2">>>>,
  usart0_rx_isr     |-> <<<<"rx", "Usart0">>>>,
  dma_ch1_2_isr     |-> <<<<"dma_rx", "Usart0">>, <<"dma_tx", "Usart0">>>>,
  usart0_dma_rx_isr |-> <<<<"dma_rx", "Usart0">>>>,
  usart0_dma_tx_isr |-> <<<<"dma_tx", "Usart0">>>>,
  dma_rx_isr        |-> <<<<"dma_rx", "Usart1">>>>,
  dma_ch3_4_isr     |-> <<<<"dma_rx", "Usart1">>, <<"dma_tx", "Usart1">>>>,
  dma_tx_isr        |-> <<<<"dma_tx", "Usart1">>>>,
  usart2_dma_rx_isr |-> <<<<"dma_rx", "Usart2">>>>,
  usart2_dma_tx_isr |-> <<<<"dma_tx", "Usart2">>>> ]

Lines == 0..47
\* Mutant: the period interrupt is the least urgent.
MotorPriorityLeast == 8

MotorPriority == 1
UsartPriority == 4
DmaPriority == 7

---------------------------------------------------------------------------
IrInit ==
  /\ irLayout \in IrLayouts
  /\ irTable = << >>
  /\ irSlots = {} /\ irOn = {} /\ irRaised = {}
  /\ irPrio = [l \in Lines |-> 0]
  /\ irTodo = <<"period">> \o AllPorts
  /\ irStack = << >>

Live(e) == LineOf(irLayout, e) \in irOn

\* install: the table is built, then VTOR is pointed at it.
Install ==
  /\ irTable = << >>
  /\ irTable' = BuildTable(irLayout)
  /\ UNCHANGED <<irLayout, irSlots, irPrio, irTodo, irOn, irRaised, irStack>>

\* apply_motor_era_priorities, one register group at a time.
ApplyPriority ==
  /\ irTodo # << >>
  /\ LET u == Head(irTodo) IN
     irPrio' =
       IF u = "period" THEN [irPrio EXCEPT ![PeriodIrq(irLayout)] = MotorPriority]
       ELSE IF ~HasPort(irLayout, u) THEN irPrio
       ELSE LET v == UsartIrqs(irLayout, u) IN
            [irPrio EXCEPT ![v.rx] = UsartPriority, ![v.dma_rx] = DmaPriority,
                           ![v.dma_tx] = DmaPriority]
  /\ irTodo' = Tail(irTodo)
  /\ UNCHANGED <<irLayout, irTable, irSlots, irOn, irRaised, irStack>>

\* What brings a receiver, a transmitter or the control loop up: its handler
\* is registered, then its line is unmasked.  The table is installed first.
Wanted == {e \in Slots : e = Control \/ (e[2] \in IrPorts /\ HasPort(irLayout, e[2]))}

Register ==
  /\ irTable # << >>
  /\ \E e \in Wanted \ irSlots : irSlots' = irSlots \cup {e}
  /\ UNCHANGED <<irLayout, irTable, irPrio, irTodo, irOn, irRaised, irStack>>

Unmask ==
  /\ \E e \in irSlots : ~Live(e) /\ irOn' = irOn \cup {LineOf(irLayout, e)}
  /\ UNCHANGED <<irLayout, irTable, irSlots, irPrio, irTodo, irRaised, irStack>>

\* A peripheral of a board's port raises its event, served or not.
Raise ==
  /\ \E e \in Wanted \ irRaised : irRaised' = irRaised \cup {e}
  /\ UNCHANGED <<irLayout, irTable, irSlots, irPrio, irTodo, irOn, irStack>>

---------------------------------------------------------------------------
(* The NVIC and the handlers.                                              *)

Top == irStack[Len(irStack)]
ActiveLines == {irStack[i].line : i \in 1..Len(irStack)}
Pending == {LineOf(irLayout, e) : e \in {d \in irRaised : Live(d)}} \ ActiveLines
Urgent(l) == irStack = << >> \/ irPrio[l] < irPrio[Top.line]
Ready == {l \in Pending : Urgent(l)}
Before(a, b) == irPrio[a] < irPrio[b] \/ (irPrio[a] = irPrio[b] /\ a < b)

Enter ==
  /\ \E l \in Ready :
       /\ \A o \in Ready \ {l} : Before(l, o)
       /\ irStack' = Append(irStack,
            [line |-> l, rest |-> Body[irTable[l]], called |-> {},
             due |-> {e \in irRaised \cap irSlots : LineOf(irLayout, e) = l}])
  /\ UNCHANGED <<irLayout, irTable, irSlots, irPrio, irTodo, irOn, irRaised>>

\* The running handler calls its next slot: a registered one serves the
\* event, a default one does nothing.
CallSlot ==
  /\ irStack # << >> /\ Ready = {} /\ Top.rest # << >>
  /\ LET s == Head(Top.rest) IN
     /\ irRaised' = IF s \in irSlots THEN irRaised \ {s} ELSE irRaised
     /\ irStack' = [irStack EXCEPT ![Len(irStack)].rest = Tail(@),
                                   ![Len(irStack)].called = @ \cup {s}]
  /\ UNCHANGED <<irLayout, irTable, irSlots, irPrio, irTodo, irOn>>

Leave ==
  /\ irStack # << >> /\ Ready = {} /\ Top.rest = << >>
  /\ irStack' = SubSeq(irStack, 1, Len(irStack) - 1)
  /\ UNCHANGED <<irLayout, irTable, irSlots, irPrio, irTodo, irOn, irRaised>>

\* The boot code is the thread: it runs only while no handler is active.
Thread == irStack = << >> /\ Ready = {} /\ (Install \/ ApplyPriority \/ Register \/ Unmask)
Cpu == Enter \/ CallSlot \/ Leave

IrNext == Thread \/ Raise \/ Cpu
IrSpec == IrInit /\ [][IrNext]_irVars
IrFairSpec == IrSpec /\ WF_irVars(Cpu)

---------------------------------------------------------------------------
(* Properties.                                                             *)

Applied == irTodo = << >>

\* Types.
IrTypeOK ==
  /\ irLayout \in IrLayouts /\ irSlots \subseteq Slots /\ irOn \subseteq DOMAIN irTable
  /\ irRaised \subseteq Slots
  /\ \A i \in 1..Len(irStack) : irStack[i].line \in irOn

\* The table and usart_irqs agree: an entry calls only the handlers of the
\* port whose interrupt it is, and by the time it returns it has called the
\* handler of every event that was raised on its line when it was entered,
\* both halves of a shared DMA vector included.
RoutedHome ==
  \A i \in 1..Len(irStack) :
    /\ \A s \in irStack[i].called : LineOf(irLayout, s) = irStack[i].line
    /\ irStack[i].rest = << >> => irStack[i].due \subseteq irStack[i].called

\* Once the priorities are applied, the period interrupt preempts whatever
\* USART handler runs, on every port of the family, and never waits for one.
PeriodFirst ==
  (Applied /\ Live(Control)) =>
    \A i \in 1..Len(irStack) :
      irStack[i].line # PeriodIrq(irLayout) => irPrio[PeriodIrq(irLayout)] < irPrio[irStack[i].line]

\* One producer: no handler slot is being run by two activations at once,
\* which is what lets a receive ring have a single writer.
OneProducer ==
  \A i, j \in 1..Len(irStack) : i # j =>
    {s \in Slots : \E k \in 1..Len(irStack[i].rest) : irStack[i].rest[k] = s}
      \cap irStack[j].called = {}

\* The urgencies bound the nesting, not the number of ports: three handlers
\* deep at most once the priorities are applied, and one more while a line not
\* written yet still has the reset priority, the most urgent of all.
NestingBounded == Len(irStack) <= IF Applied THEN 3 ELSE 4

\* The period event is served whatever the other lines do, an entry whose
\* slot nobody registered storming for ever included.
PeriodServed == (Applied /\ Live(Control) /\ Control \in irRaised) ~> Control \notin irRaised

\* What build_table and the priorities promise together: every source reaches
\* its own routine, the motor period preempts the receivers, a ring has one
\* producer and the stack a bounded nesting.
IrSafe ==
  /\ IrTypeOK
  /\ RoutedHome
  /\ PeriodFirst
  /\ OneProducer
  /\ NestingBounded
=============================================================================
