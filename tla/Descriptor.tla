------------------------------ MODULE Descriptor ------------------------------
(***************************************************************************)
(* What detection makes of its measurements (detect.rs), the checks the    *)
(* drivers make of it (addr.rs, chip.rs) and the pin capability queries    *)
(* (pincap.rs).  All of it pure: a chip is a record, a base a number.      *)
(***************************************************************************)
EXTENDS Naturals, FiniteSets

Families == {"F1x0", "F10x"}
Ports == {"Gpioa", "Gpiob", "Gpioc", "Gpiod", "Gpiof"}
Labels == Ports \cup {"Usart0", "Usart1", "Usart2", "Rcu", "I2c0", "I2c1", "Spi0", "Adc0", "Adc1",
                      "Adc2", "Timer0", "Timer7", "Fwdgt", "Timer1", "UniqueId"}

\* The bases both families share, and each family's own.
SharedBases ==
  [l \in {"Usart0", "Usart1", "Rcu", "I2c0", "Adc0", "Timer0", "Fwdgt", "Timer1"} |->
     CASE l = "Usart0" -> \h40013800 [] l = "Usart1" -> \h40004400 [] l = "Rcu" -> \h40021000
       [] l = "I2c0" -> \h40005400 [] l = "Adc0" -> \h40012400 [] l = "Timer0" -> \h40012C00
       [] l = "Fwdgt" -> \h40003000 [] l = "Timer1" -> \h40000000]
PortIndex(port) ==
  CASE port = "Gpioa" -> 0 [] port = "Gpiob" -> 1 [] port = "Gpioc" -> 2 [] port = "Gpiod" -> 3
    [] port = "Gpiof" -> 5
PortBases(first) == [port \in Ports |-> first + \h400 * PortIndex(port)]
Extend(f, g) == [l \in DOMAIN f \cup DOMAIN g |-> IF l \in DOMAIN g THEN g[l] ELSE f[l]]

family_model(family) ==
  IF family = "F10x"
  THEN Extend(Extend(SharedBases, PortBases(\h40010800)),
              [l \in {"Usart2", "Spi0", "UniqueId"} |->
                 CASE l = "Usart2" -> \h40004800 [] l = "Spi0" -> \h40013000
                   [] l = "UniqueId" -> \h1FFFF7E8])
  ELSE Extend(Extend(SharedBases, PortBases(\h48000000)),
              [l \in {"Spi0", "UniqueId"} |->
                 IF l = "Spi0" THEN \h40003800 ELSE \h1FFFF7AC])

\* AddrTable::with.
With(bases, cond, label, base) == IF cond THEN Extend(bases, [l \in {label} |-> base]) ELSE bases

flash_page_for(family, kib) == IF family = "F10x" /\ kib > 128 THEN 2 ELSE 1

synthesize(detected) ==
  [family |-> detected.family, kib |-> detected.kib, timers |-> detected.timers,
   adcs |-> detected.adcs, page |-> flash_page_for(detected.family, detected.kib),
   bases |-> With(With(With(With(family_model(detected.family),
               detected.timers >= 2, "Timer7", \h40013400), detected.adcs >= 2, "Adc1", \h40012800),
               detected.adcs >= 3, "Adc2", \h40013C00), detected.kib >= 64, "I2c1", \h40005800)]

---------------------------------------------------------------------------
(* The drivers' checks: a label of the right kind, carried, in its window. *)

Resolves(chip, label) == label \in DOMAIN chip.bases
In(chip, label, lo, hi) == Resolves(chip, label) /\ chip.bases[label] >= lo /\ chip.bases[label] < hi

check_usart_base(chip, label) ==
  \/ label = "Usart0" /\ In(chip, label, \h40013800, \h40013C00)
  \/ label \in {"Usart1", "Usart2"} /\ In(chip, label, \h40004400, \h40005000)
check_i2c_base(chip, label) ==
  \/ label = "I2c0" /\ In(chip, label, \h40005400, \h40005800)
  \/ label = "I2c1" /\ In(chip, label, \h40005800, \h40005C00)
check_spi_base(chip, label) ==
  label = "Spi0" /\ (In(chip, label, \h40013000, \h40013400) \/ In(chip, label, \h40003800, \h40004000))
check_adc_base(chip, label) ==
  label \in {"Adc0", "Adc1", "Adc2"} /\ In(chip, label, \h40012400, \h40012C00)
check_timer_base(chip, label) ==
  label \in {"Timer0", "Timer7"} /\ In(chip, label, \h40012C00, \h40013800)
check_fwdgt_base(chip, label) == label = "Fwdgt" /\ In(chip, label, \h40003000, \h40003400)
check_general_timer_base(chip, label) == label = "Timer1" /\ In(chip, label, \h40000000, \h40000400)
check_ranges(chip) ==
  /\ \A port \in Ports : Resolves(chip, port) =>
       IF chip.family = "F10x" THEN In(chip, port, \h40010800, \h40012000)
                               ELSE In(chip, port, \h48000000, \h48002000)
  /\ Resolves(chip, "Rcu") => In(chip, "Rcu", \h40021000, \h40021400)

\* The check the driver of a label makes before it uses the base.
Checked(chip, label) ==
  \/ check_usart_base(chip, label) \/ check_i2c_base(chip, label) \/ check_spi_base(chip, label)
  \/ check_adc_base(chip, label) \/ check_timer_base(chip, label)
  \/ check_fwdgt_base(chip, label) \/ check_general_timer_base(chip, label)

\* Chip::adc: the converters a part is driven with.
AdcHandles(chip) == IF chip.adcs >= 2 THEN {"Adc0", "Adc1"} ELSE {"Adc0"}
has_advanced_timer(chip, label) == check_timer_base(chip, label)
has_i2c(chip, label) == check_i2c_base(chip, label)

---------------------------------------------------------------------------
(* Pin capabilities, by packed pin (port << 4 | number).                   *)

Packed == 0..95
f10x_lqfp64_bonding(chip) == chip.timers >= 2
pin_exists(chip, pin) ==
  LET port == pin \div 16
      n == pin % 16
  IN \/ port \in {0, 1}
     \/ port = 2 /\ (n >= 13 \/ (chip.family = "F10x" /\ f10x_lqfp64_bonding(chip)))
     \/ port = 3 /\ chip.family = "F10x" /\ n <= (IF f10x_lqfp64_bonding(chip) THEN 2 ELSE 1)
     \/ port = 5 /\ chip.family = "F1x0" /\ n \in {0, 1, 6, 7}

TimerHi == [timer \in {"Timer0", "Timer7"} |-> IF timer = "Timer0" THEN <<8, 9, 10>> ELSE <<38, 39, 40>>]
TimerLo == [timer \in {"Timer0", "Timer7"} |-> IF timer = "Timer0" THEN <<29, 30, 31>> ELSE <<7, 16, 17>>]
TimerPins(timer) == {TimerHi[timer][i] : i \in 1..3} \cup {TimerLo[timer][i] : i \in 1..3}
gate_capable(chip, pin) ==
  pin \in TimerPins("Timer0") \/ (has_advanced_timer(chip, "Timer7") /\ pin \in TimerPins("Timer7"))
\* The timer six pins form a bridge of, if any.
gate_set(chip, hi, lo) ==
  {timer \in {"Timer0", "Timer7"} :
     /\ hi = TimerHi[timer] /\ lo = TimerLo[timer]
     /\ timer = "Timer0" \/ has_advanced_timer(chip, timer)}
adc_channel(chip, pin) ==
  {c \in 0..15 : /\ pin_exists(chip, pin)
                 /\ \/ pin \div 16 = 0 /\ pin % 16 <= 7 /\ c = pin % 16
                    \/ pin \div 16 = 1 /\ pin % 16 <= 1 /\ c = 8 + (pin % 16)
                    \/ pin \div 16 = 2 /\ pin % 16 <= 5 /\ c = 10 + (pin % 16)}
i2c_instance(chip, scl, sda) ==
  {i \in {"I2c0", "I2c1"} : \/ i = "I2c0" /\ scl = 22 /\ sda = 23
                            \/ i = "I2c1" /\ scl = 26 /\ sda = 27 /\ has_i2c(chip, i)}
=============================================================================
