------------------------------ MODULE Budgets ------------------------------
(***************************************************************************)
(* The arithmetic that turns clocks into bounds: the I2C's bus timing and  *)
(* its poll budget (i2c.rs), the polled write's budget (serial.rs) and the *)
(* DMA transmitter's deadline (usart_tx.rs).  A call that fails spends the *)
(* polls of the loops it went through, each costing what the silicon makes *)
(* it cost: the budgets must keep it inside the motor's coast all the same *)
(* and leave room for the transfers that do not fail.                      *)
(***************************************************************************)
EXTENDS Integers

CONSTANTS
  BgClocks,    \* ClockConfig: sysclk_hz, ahb_psc, apb1_psc
  BgModes,     \* I2cMode: speed_hz, duty
  BgBauds,     \* baud rates
  BgLens       \* bytes in a DMA transfer

ASSUME BgAssumption ==
  /\ \A c \in BgClocks : c.sysclk \in Nat \ {0} /\ {c.ahb, c.apb1} \subseteq Nat
  /\ \A m \in BgModes : m.speed \in Nat \ {0} /\ m.duty \in {"Two", "SixteenNine"}
  /\ BgBauds \subseteq Nat \ (0 .. 99) /\ BgLens \subseteq Nat

VARIABLES
  bgClock,    \* the clock tree in use
  bgBus,      \* the I2C's mode, and I2CCLK, RT and CKCFG (fast, dtcy, clkc)
  bgSpent     \* the call that was made: its kind, the cycles it took, its deadline

bgVars == <<bgClock, bgBus, bgSpent>>

POLL_CYCLES == 32
PollCosts == {21, 32, 39}   \* what a poll costs: disassembled, assumed, still survived
TXN_BUDGET_US == 6000
WRITE_POLL_CYCLES == 24
WRITE_BUDGET_US == 4000
I2CCLK_MIN == 2
I2CCLK_MAX == 72
CKCFG_CLKC == 4096          \* one more than the field holds
BITS_PER_BYTE == 10
BUDGET_SLACK == 4
MAX_BUDGET_CYCLES == 2147483647
COAST_US == 16000           \* the motor floats when the control task is quiet for longer
BURST_BITS == 17 * 9 + 3    \* the IMU's 14 bytes, their register and two addresses

AtLeast(floor, n) == IF n < floor THEN floor ELSE n
AtMost(ceiling, n) == IF n > ceiling THEN ceiling ELSE n
Mhz1(hz) == hz \div 1000000

(***************************************************************************)
(* Poll budgets                                                            *)
(***************************************************************************)
\* Mutant: the number of polls is fixed, whatever the clock.
PollBudgetFixed(core) == 100000

poll_budget(core) == AtLeast(1, (Mhz1(core) * TXN_BUDGET_US) \div POLL_CYCLES)
idle_budget(core) == AtLeast(1, poll_budget(core) \div 10)

write_budget(core) == AtLeast(1, (Mhz1(core) * WRITE_BUDGET_US) \div WRITE_POLL_CYCLES)

(***************************************************************************)
(* The transmit deadline, in cycles                                        *)
(***************************************************************************)
cycles_per_byte(core, baud) ==
  IF baud = 0 THEN MAX_BUDGET_CYCLES
  ELSE AtMost(MAX_BUDGET_CYCLES, AtLeast(1, ((core * BITS_PER_BYTE) \div baud) * BUDGET_SLACK))

\* The product is taken in 64 bits.
budget_cycles(perByte, len) ==
  IF len > 0 /\ perByte > MAX_BUDGET_CYCLES \div len THEN MAX_BUDGET_CYCLES
  ELSE AtLeast(1, perByte * len)

(***************************************************************************)
(* I2C timing                                                              *)
(***************************************************************************)
i2c_input_clock(c) == (c.sysclk \div AtLeast(1, c.ahb)) \div AtLeast(1, c.apb1)

\* Counts of the bus clock in a period of SCL, per count of CLKC.
Ratio(m) == IF m.speed <= 100000 THEN 2 ELSE IF m.duty = "Two" THEN 3 ELSE 25

timing_for(pclk, m) ==
  LET freq == AtMost(I2CCLK_MAX, Mhz1(pclk))
  IN IF m.speed <= 100000
     THEN [i2cclk |-> freq,
           rt |-> AtLeast(I2CCLK_MIN, AtMost(I2CCLK_MAX, Mhz1(pclk) + 1)),
           fast |-> FALSE, dtcy |-> FALSE,
           clkc |-> AtLeast(4, pclk \div (m.speed * 2)) % CKCFG_CLKC]
     ELSE [i2cclk |-> freq, rt |-> (freq * 300) \div 1000 + 1,
           fast |-> TRUE, dtcy |-> m.duty = "SixteenNine",
           clkc |-> AtLeast(1, pclk \div (m.speed * Ratio(m)))]

NoBus == [mode |-> [speed |-> 0, duty |-> "Two"],
          regs |-> [i2cclk |-> 0, rt |-> 2, fast |-> FALSE, dtcy |-> FALSE, clkc |-> 0]]
Unspent == [kind |-> "none", cycles |-> 0, deadline |-> 0]

(***************************************************************************)
(* Actions                                                                 *)
(***************************************************************************)
BgInit == bgClock \in BgClocks /\ bgBus = NoBus /\ bgSpent = Unspent

configure_timing ==
  /\ bgBus = NoBus
  /\ \E m \in BgModes :
       bgBus' = [mode |-> m, regs |-> timing_for(i2c_input_clock(bgClock), m)]
  /\ UNCHANGED <<bgClock, bgSpent>>

\* The most polls each way a bus acquisition can fail takes: wait_bus_idle
\* gives up, recovers and finds the bus still held; or the bus is free and a
\* wait spends txn_left, which that wait may have drawn on, and the exit
\* recovers; or both. A recovery waits for its STOP not at all, or until it
\* comes or its own budget ends.
FailingPolls(core) ==
  LET p == poll_budget(core)
      i == idle_budget(core)
      Recovery == {0, 1, i}
  IN {i + r : r \in Recovery}
     \cup {p + 1 + r : r \in Recovery}
     \cup {i + r1 + (p - (i - 1)) + 1 + r2 : r1, r2 \in Recovery}

AcquireFails ==
  /\ bgSpent = Unspent
  /\ \E polls \in FailingPolls(bgClock.sysclk), cost \in PollCosts :
       bgSpent' = [kind |-> "i2c", cycles |-> polls * cost, deadline |-> 0]
  /\ UNCHANGED <<bgClock, bgBus>>

\* wait_bounded looks once more than its budget.
WriteFails ==
  /\ bgSpent = Unspent
  /\ bgSpent' = [kind |-> "write", cycles |-> (write_budget(bgClock.sysclk) + 1) * WRITE_POLL_CYCLES,
                 deadline |-> 0]
  /\ UNCHANGED <<bgClock, bgBus>>

\* A transfer that goes well, but for its last bit: the wire time and the deadline.
Transfer ==
  /\ bgSpent = Unspent
  /\ \E baud \in BgBauds, len \in BgLens :
       bgSpent' = [kind |-> "dma",
                   cycles |-> ((len * BITS_PER_BYTE * (bgClock.sysclk \div 1000)) \div (baud \div 100)) * 10,
                   deadline |-> budget_cycles(cycles_per_byte(bgClock.sysclk, baud), len)]
  /\ UNCHANGED <<bgClock, bgBus>>

BgNext == configure_timing \/ AcquireFails \/ WriteFails \/ Transfer
BgSpec == BgInit /\ [][BgNext]_bgVars

(***************************************************************************)
(* Properties                                                              *)
(***************************************************************************)
\* Types; every field fits its register, whatever the clock.
BgTypeOK ==
  /\ bgClock \in BgClocks /\ bgSpent.kind \in {"none", "i2c", "write", "dma"}
  /\ bgBus.regs.i2cclk \in 0 .. I2CCLK_MAX /\ bgBus.regs.rt \in 1 .. I2CCLK_MAX
  /\ bgBus.regs.clkc \in 0 .. CKCFG_CLKC - 1

\* Whichever of its loops a failing acquisition spends its polls in, its two
\* recoveries included, and a failing write, the motor's coast outlives it: on
\* every clock, and when a poll of the I2C costs the 39 cycles the module says
\* it may (i2c.rs:199). A write takes no more than half of it.
CoastKept ==
  LET coast == (COAST_US \div 1000) * (bgClock.sysclk \div 1000)
  IN /\ bgSpent.kind = "i2c" => bgSpent.cycles < coast
     /\ bgSpent.kind = "write" => 2 * bgSpent.cycles < coast

\* A healthy IMU burst at 99 kHz or more, timed by the divider the bring-up
\* wrote, ends before the budget of its acquisition does, at whatever pace of
\* the polls: no clock the block accepts lets a working bus time out.
BurstFits ==
  LET scl == Ratio(bgBus.mode) * bgBus.regs.clkc * AtLeast(1, bgClock.ahb) * AtLeast(1, bgClock.apb1)
  IN bgBus.mode.speed >= 99000 /\ bgBus.regs.i2cclk >= I2CCLK_MIN =>
       \A cost \in PollCosts : BURST_BITS * scl < poll_budget(bgClock.sysclk) * cost

\* No transfer that runs at its rate meets its deadline: there is at least
\* twice its wire time, unless the deadline is the counter's half range.
DeadlineSpares ==
  bgSpent.kind = "dma" => bgSpent.deadline = MAX_BUDGET_CYCLES \/ 2 * bgSpent.cycles <= bgSpent.deadline

\* The bus runs at the rate asked for or, where the divider does not divide,
\* at the next rate the divider has above it; it is a slower one only where
\* the smallest divider forces it. (Rates under pclk / 8190 overflow CLKC.)
RateAsked ==
  LET pclk == i2c_input_clock(bgClock)
      m == bgBus.mode
      clkc == bgBus.regs.clkc
  IN m.speed > 0 /\ pclk \div (2 * m.speed) < CKCFG_CLKC =>
       /\ bgBus.regs.fast <=> m.speed > 100000
       /\ pclk < Ratio(m) * (clkc + 1) * m.speed
       /\ Ratio(m) * clkc * m.speed <= pclk \/ clkc = IF bgBus.regs.fast THEN 1 ELSE 4

\* What the budget arithmetic must get right on every clock: a failing call
\* ends inside the motor's coast, a healthy one inside its budget or deadline,
\* and the bus runs at the rate asked for or the nearest the divider has.
BgSafe ==
  /\ BgTypeOK
  /\ CoastKept
  /\ BurstFits
  /\ DeadlineSpares
  /\ RateAsked
==============================================================================
