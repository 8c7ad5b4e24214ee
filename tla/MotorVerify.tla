---------------------------- MODULE MotorVerify ----------------------------
(***************************************************************************)
(* bench-fw/motor-verify: the interrupt priorities and TIMER0 are          *)
(* configured, read back, and judged by a blink. A priority is a byte of a *)
(* word that holds four; a timer without its clock takes no write and      *)
(* reads zero. The image may start over a timer that is still running.     *)
(***************************************************************************)
EXTENDS Integers, Sequences

CONSTANT MvLayouts    \* interrupt layouts

ASSUME MvLayouts \subseteq {"F1x0Grouped", "F10xSeparate"}

VARIABLES
  mvLayout,    \* the chip's layout
  mvPc,        \* where main is
  mvTodo,      \* priorities still to write
  mvWord,      \* the IPR word a read-modify-write has read, or <<>>
  mvIpr,       \* the priority bytes of vectors 0 to 39, and SysTick's, 40
  mvTimer,     \* TIMER0: clocked, and CAR, PSC, the dead time and MOE
  mvOk         \* the verdicts so far

mvVars == <<mvLayout, mvPc, mvTodo, mvWord, mvIpr, mvTimer, mvOk>>

MOTOR_ISR_PRIORITY == 16
USART_RX_PRIORITY == 64
DMA_RX_PRIORITY == 112
SYSTICK_PRIORITY == 240
SysTickByte == 40

period_irq(layout) == IF layout = "F1x0Grouped" THEN 12 ELSE 18
\* The vectors of each instance: receive, DMA receive, DMA transmit.
usart_irqs(layout) ==
  IF layout = "F1x0Grouped" THEN <<<<27, 10, 10>>, <<28, 11, 11>>>>
  ELSE <<<<37, 15, 14>>, <<38, 16, 17>>, <<39, 13, 12>>>>

\* Mutant: the transmit vectors keep the priority they reset to.
PrioritiesWithoutTx(layout) ==
  LET u == usart_irqs(layout)
  IN <<<<period_irq(layout), MOTOR_ISR_PRIORITY>>>>
     \o [i \in 1 .. 2 * Len(u) |-> LET v == u[(i + 1) \div 2]
          IN IF i % 2 = 1 THEN <<v[1], USART_RX_PRIORITY>> ELSE <<v[2], DMA_RX_PRIORITY>>]
     \o <<<<SysTickByte, SYSTICK_PRIORITY>>>>

\* apply_motor_era_priorities, in the order of its writes.
Priorities(layout) ==
  LET u == usart_irqs(layout)
  IN <<<<period_irq(layout), MOTOR_ISR_PRIORITY>>>>
     \o [i \in 1 .. 3 * Len(u) |-> LET v == u[(i + 2) \div 3]
          IN CASE i % 3 = 1 -> <<v[1], USART_RX_PRIORITY>>
               [] i % 3 = 2 -> <<v[2], DMA_RX_PRIORITY>>
               [] OTHER -> <<v[3], DMA_RX_PRIORITY>>]
     \o <<<<SysTickByte, SYSTICK_PRIORITY>>>>

Reference == [car |-> 2250, psc |-> 0, dead |-> 28, moe |-> FALSE]
Zero == [car |-> 0, psc |-> 0, dead |-> 0, moe |-> FALSE]
Running == [car |-> 2250, psc |-> 0, dead |-> 28, moe |-> TRUE]
Bytes == 0 .. SysTickByte
Unwritten == 160   \* what the bytes hold that nobody writes: any value but 0 shows a loss

MvInit ==
  /\ mvLayout \in MvLayouts /\ mvPc = "priorities" /\ mvTodo = Priorities(mvLayout)
  /\ mvWord = <<>> /\ mvIpr = [b \in Bytes |-> Unwritten]
  /\ \E regs \in {Zero, Running}, on \in BOOLEAN :
       mvTimer = [clocked |-> on, regs |-> IF on THEN regs ELSE Zero]
  /\ mvOk = [priorities |-> FALSE, timer |-> FALSE]

(***************************************************************************)
(* Priorities                                                              *)
(***************************************************************************)
\* set_irq_priority and set_systick_priority: the word is read, ...
ReadWord ==
  /\ mvPc = "priorities" /\ mvTodo # <<>> /\ mvWord = <<>>
  /\ mvWord' = LET base == (mvTodo[1][1] \div 4) * 4
               IN [i \in 1 .. 4 |-> IF base + i - 1 \in Bytes THEN mvIpr[base + i - 1] ELSE Unwritten]
  /\ UNCHANGED <<mvLayout, mvPc, mvTodo, mvIpr, mvTimer, mvOk>>

\* The byte in its word.
WithByte(word, at, v) == [word EXCEPT ![at] = v]

\* ... and written with the byte replaced.
WriteWord ==
  /\ mvPc = "priorities" /\ mvWord # <<>>
  /\ LET vector == mvTodo[1][1]
         base == (vector \div 4) * 4
         word == WithByte(mvWord, (vector % 4) + 1, mvTodo[1][2])
     IN mvIpr' = [b \in Bytes |-> IF b \in base .. base + 3 THEN word[b - base + 1] ELSE mvIpr[b]]
  /\ mvTodo' = Tail(mvTodo) /\ mvWord' = <<>>
  /\ mvPc' = IF mvTodo' = <<>> THEN "verify" ELSE "priorities"
  /\ UNCHANGED <<mvLayout, mvTimer, mvOk>>

\* verify_priorities reads back the same vectors.
VerifyPriorities ==
  /\ mvPc = "verify" /\ mvPc' = "clock"
  /\ mvOk' = [mvOk EXCEPT !.priorities =
       /\ mvIpr[period_irq(mvLayout)] = MOTOR_ISR_PRIORITY
       /\ \A i \in DOMAIN usart_irqs(mvLayout) :
            LET v == usart_irqs(mvLayout)[i]
            IN mvIpr[v[1]] = USART_RX_PRIORITY /\ mvIpr[v[2]] = DMA_RX_PRIORITY /\ mvIpr[v[3]] = DMA_RX_PRIORITY
       /\ mvIpr[SysTickByte] = SYSTICK_PRIORITY]
  /\ UNCHANGED <<mvLayout, mvTodo, mvWord, mvIpr, mvTimer>>

(***************************************************************************)
(* The timer                                                               *)
(***************************************************************************)
\* enable_timer; when it fails configure is not called. A clock that does not
\* come up though its bit was written is what the read-back is there to see.
EnableTimer ==
  /\ mvPc = "clock"
  /\ \/ mvPc' = "configure" /\ \E up \in {TRUE, mvTimer.clocked} : mvTimer' = [mvTimer EXCEPT !.clocked = up]
     \/ mvPc' = "blink" /\ UNCHANGED mvTimer
  /\ UNCHANGED <<mvLayout, mvTodo, mvWord, mvIpr, mvOk>>

\* configure: the registers, MOE with them, or an error before any write.
Configure ==
  /\ mvPc = "configure"
  /\ \/ /\ mvPc' = "dump"
        /\ mvTimer' = IF mvTimer.clocked THEN [mvTimer EXCEPT !.regs = Reference] ELSE mvTimer
     \/ mvPc' = "blink" /\ UNCHANGED mvTimer
  /\ UNCHANGED <<mvLayout, mvTodo, mvWord, mvIpr, mvOk>>

verify(regs) ==
  /\ regs.car = Reference.car /\ regs.psc = Reference.psc /\ regs.dead = Reference.dead
  /\ ~regs.moe

\* dump_config and verify, the verdict after them.
Dump ==
  /\ mvPc = "dump" /\ mvPc' = "blink"
  /\ mvOk' = [mvOk EXCEPT !.timer = verify(IF mvTimer.clocked THEN mvTimer.regs ELSE Zero)]
  /\ UNCHANGED <<mvLayout, mvTodo, mvWord, mvIpr, mvTimer>>

MvNext == ReadWord \/ WriteWord \/ VerifyPriorities \/ EnableTimer \/ Configure \/ Dump
MvSpec == MvInit /\ [][MvNext]_mvVars

(***************************************************************************)
(* Properties                                                              *)
(***************************************************************************)
Verified == mvPc = "blink" /\ mvOk.priorities /\ mvOk.timer
HalVectors(layout) == {Priorities(layout)[i][1] : i \in DOMAIN Priorities(layout)}

\* Types; the bytes of vectors the policy does not name keep what they held.
MvTypeOK ==
  /\ mvLayout \in MvLayouts
  /\ mvPc \in {"priorities", "verify", "clock", "configure", "dump", "blink"}
  /\ mvTimer.regs \in {Zero, Running, Reference}
  /\ \A b \in Bytes \ HalVectors(mvLayout) : mvIpr[b] = Unwritten

\* The slow blink tells the truth: the timer has its clock and holds the
\* reference configuration with the bridge disarmed, and every interrupt the
\* HAL uses stands below the period's and above SysTick.
VerdictHonest ==
  Verified =>
    /\ mvTimer = [clocked |-> TRUE, regs |-> Reference]
    /\ \A i \in DOMAIN usart_irqs(mvLayout) :
         LET v == usart_irqs(mvLayout)[i]
         IN /\ mvIpr[period_irq(mvLayout)] < mvIpr[v[1]]
            /\ \A d \in {2, 3} : mvIpr[v[1]] < mvIpr[v[d]] /\ mvIpr[v[d]] < mvIpr[SysTickByte]

\* A board on which every call succeeded and the clock came up is told so.
VerdictComplete ==
  mvPc = "blink" /\ mvTimer = [clocked |-> TRUE, regs |-> Reference] => Verified

\* What the motor-verify image promises: a PASS only of a timer and priorities
\* that are as written, and a PASS when they are.
MvSafe ==
  /\ MvTypeOK
  /\ VerdictHonest
  /\ VerdictComplete
==============================================================================
