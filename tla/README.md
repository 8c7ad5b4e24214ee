# runtime-hal: a TLA+ model of the hardware abstraction layer

`runtime-hal` is a Rust hardware abstraction layer for GD32 microcontrollers
that decides at run time which chip family it is on (F1x0 or F10x) and
drives either from one binary. It is single-core, allocates nothing, and has no operating system: its
concurrency is between the main loop, the interrupts, the DMA engine and the
wire. This directory holds TLA+ models of that concurrency, TLC
configurations that check them on small instances and TLAPS proofs of what
matters most for every instance.

Paths below are relative to the repository; `src/usart_rx.rs` is the
library's file of that name.

## 1. Inventory

| Component | State | Operations | Hard behaviour | Correct when |
|---|---|---|---|---|
| `RxRing` (usart_rx.rs) | slots, `head`, `tail`, a claim | `push`, `pop`, `ready`, `claim`, `unclaim` | lock-free producer in an interrupt, consumer in the main loop | a bounded queue: no slot race, nothing lost, reordered or invented |
| Receive interrupt and `BufferedRx` (usart_rx.rs, usart.rs) | `RxSlot` per instance (context, sticky conditions, idle latch), USART flags and enables | `on_usart_rx_irq`, `new`, `release`, `read`, `take_idle`, `ready` | level-sensitive line; flags cleared by a write on F1x0 and by a read pair on F10x; events between two register accesses | losses flagged, boundaries kept, no dead interrupt, order kept |
| `RingBufferedRx` (usart_rx.rs, dma.rs) | cursor, DMA channel registers, `DmaRxCtx::wraps` | `new`, `release`, `snapshot`, `read`, `ready`, `service_dma_rx` | engine, interrupt and reader share counter, flag and buffer; laps | snapshots exact, overruns exact, delivered bytes intact |
| `DmaTx` (usart_tx.rs, dma.rs) | buffer, deadline, `timeouts`, `DmaTxCtx` | `new`, `try_send`, `ready`, `release`, `service_dma_tx` | a transfer that is late or dead, a completion that races the abandon, a wrapping cycle counter | buffer untouched while sent, no early abandon, never silent for ever |
| `Usart`, `UsartRx`, `UsartTx` (usart.rs) | registers | configuration, polled read and write, `split` | error clears that consume data | a byte is returned once, an error is reported once |
| `PolledSerial`, `SplitSerial` (serial.rs) | counters of errors and timeouts | embedded-io `read`, `write`, `flush`, `read_ready`, `write_ready` | bounded waits, conditions folded into counters | a write never blocks for ever and never reports bytes twice; drops are counted |
| I2C master (i2c.rs) | registers, poll budget | `write`, `read`, `write_read`, `transaction`, `bus_clear`, `recover` | nack, stretch, arbitration, a bus held low, partial failure in the middle of a transaction | each call ends with the bus idle or an error, within its budget |
| Flash (fmc.rs) | flash cells, controller registers | `erase_page`, `program` | halfword rules, BUSY timeout, a failure in the middle of a run | refused before touching flash, or written, or reported |
| ADC (adc.rs) | registers, flags | `read_channel`, `read_simultaneous`, injected handle | late end of conversion, read-modify-write flag clears | a value belongs to the channel asked for |
| Timer and arm gate (timer.rs, pwm.rs) | timer registers, MOE | `configure`, `set_duties`, `rearm_trigger`, `arm`, `disarm` | order of output enable and MOE | outputs live only while armed, duties in range |
| Interrupt routing (irq.rs) | vector table, handler slots, tick count, CYCCNT | `build_table`, `install`, `register_*`, grouped demultiplexers | shared vectors, order of installation | every enabled source reaches its handler |
| Detection (detect.rs, detect/) | fault flags, VTOR, SHCSR | `probe_present`, `run`, `detect_chip`, `synthesize` | a bus fault taken on purpose | state restored, no fault expected outside the probe |
| Clock, watchdog, time base, delay | registers | bring-up, prescaler search, waits | timeouts, 24-bit and 32-bit arithmetic | reachable frequencies and exact reloads |
| GPIO, AFIO, pin ownership, chip, descriptor, SPI | registers, tables | configuration, look-up, validation | two register layouts | gate pins are never claimed by an ordinary driver |
| Example crates, firmware, bench firmware, harness | filters, controllers | application loops | - | used here to see how the library is called |

How they interact: `RingBufferedRx`, `BufferedRx` and `DmaTx` own a `UsartRx`
or `UsartTx`; each registers a handler in `irq.rs` and a context in a static
slot (`RxSlot`, `DmaRxCtx`, `DmaTxCtx`), through which the interrupt and the
main loop share state by atomics. `SplitSerial` composes one receiver and one
transmitter. Every driver takes its base addresses and layouts from `Chip`,
which detection builds. CYCCNT in `irq.rs` is shared by all transmitters.

`PROJECT.json` lists the hazards, each with the line where it bites and the
properties that watch it.

## 2. Modules

A module models one component, unless the table says otherwise. Its variables
carry a prefix of their own, so that a run may put several modules side by side.

| Module | Over | What it is |
|---|---|---|
| `BoundedFifo` | usart_rx.rs | abstract specification: a bounded queue with an atomic enqueue and dequeue |
| `RxRing` | usart_rx.rs | `push` and `pop` of the ring, one action per access to shared memory |
| `DmaRxRing` | usart_rx.rs, dma.rs | the circular DMA channel, `service_dma_rx`, `snapshot`, `read`, `ready` |
| `DmaLap` | usart_rx.rs, dma.rs | the lives of such a receiver: `new`, reads, `release`, `new` again, interrupts late by any time, a wrap count of finite width |
| `UsartRxIsr` | usart_rx.rs, usart.rs | `RxSlot`, `on_usart_rx_irq`, `BufferedRx`, arming and release of `RingBufferedRx`, over the register models of both families |
| `DmaTx` | usart_tx.rs, dma.rs | `DmaTx` ports, their channels, `service_dma_tx`, CYCCNT |
| `PolledSerial`, `SplitSerial` | serial.rs | the two embedded-io adapters |
| `Ports` | usart.rs, usart_rx.rs, usart_tx.rs, dma.rs | who holds which USART, half, ring, slot, channel and vector |
| `IrqRoute` | irq.rs | the vector table, priorities and nesting |
| `I2cMaster`, `Budgets` | i2c.rs; serial.rs, usart_tx.rs | the master's calls, transfers and recovery; the arithmetic of every budget and of the bus timing |
| `Fmc` | fmc.rs | erase and program against a controller that refuses, is slow or loses power |
| `Adc`, `PeriodLoop` | adc.rs, timer.rs | regular and injected conversions sharing STAT; the timer-triggered sampling chain |
| `Commutation`, `PwmOut` | timer.rs, pwm.rs, gpio.rs, examples control crate | the bridge under six-step commutation; the single-channel PWM |
| `Pins` | chip.rs, gpio.rs, afio.rs, pincap.rs | routing and ownership of pins over both register layouts |
| `Descriptor`, `Probe` | detect.rs, detect/, chip.rs, addr.rs, pincap.rs | what detection derives (pure); the probing loads and the fault handler |
| `ClockTree`, `Watchdog`, `Ticks`, `Spi` | clock.rs, usart.rs; watchdog.rs; timebase.rs, delay.rs; spi.rs | bring-up, dividers, waits and time-outs |
| `BenchLink`, `Coldpath`, `MotorVerify` | bench-fw | the bench images' protocols and verdicts |
| `ImuTilt`, `Links` | examples, firmware | the tilt indicator; two boards talking |
| `RingIrqProofs`, `DmaRxProofs`, `UsartProofs`, `SerialProofs`, `I2cMasterProofs`, `MotorProofs`, `PeripheralProofs`, `BoardProofs` | | theorems (section 6) |
| `MC*` | | instances for TLC (section 3) |

Every module states its types as `<prefix>TypeOK`, its other invariants by name, and
their conjunction as `<prefix>Safe`; the runs check the conjunction. Action properties
that go together are conjoined as `<prefix>Steps`.

**RxRing.** `head`, `tail` and `buf` are the fields of the same names;
`prod` and `cons` say where the two sides are inside their calls. `PushBegin`
is the load of `tail` and the full check, `PushWrite` the store of the cell,
`PushPublish` the Release store of `head`; `PopBegin`, `PopRead` and `PopFree`
mirror them. `accepted` and `delivered` are history. The interleaving is
unrestricted, which covers more than one core can do.

**DmaRxRing.** `cnt` is CHxCNT, `ftf` and `htf` the two flags, `wraps` the
context's counter. The engine stores a byte (`DmaStore`) and then counts it
(`DmaCount`), since a copy can see the store before the count. The interrupt
has three steps: read the flags, count the lap, clear the flags. The five
loads of `snapshot` are five actions, `SnapDone` and `SnapRetry` its decision,
and the copy loop reads one byte per action. A byte is its position in the
stream, so that "the byte the caller is owed" can be stated.

**DmaLap.** Calls are atomic here, the life of the receiver is not: `new` is its
four stages (configure, route, install, unmask), and a first arming leaves the
vector unmasked, so that during a second one the interrupt may fire between any
two. `lapChan` is the channel, `lapCtx` the static `DmaRxCtx` that outlives the
receiver, `lapApp` the receiver. `lapHist` says what really happened: the
position, and whether laps folded into one flag (`folded`), a flag of the
earlier life was served in this one (`stale`), or a lap ended inside `new`
(`over`).

**UsartRxIsr.** `on_usart_rx_irq` is one action per register access, with the
wire free to deliver a character or go idle between any two. On F1x0 a flag is
cleared by a write; on F10x by a read of STAT that sees it followed by a read
of DATA (`ReadData`), which also takes whatever character is there. `Asserted`
is the level of the line: an enabled flag that is up asks again. Arming and
release are one action per enable, with `driver` choosing the receiver and `family` the registers, both
fixed at the start of a behaviour as the board fixes them. The
main loop is the poll loop of `take_idle`'s documentation. Its ring is a
bounded queue, which `RxRing` is shown to implement.

**DmaTx.** One main loop owns all ports. `try_send` is cut at its accesses to
what the channel or the interrupt also touches: the refusal, the abandon
(stop, clear flags, take the claim back), the copy, the stamp, the claim, the
configuration and the start. A transfer may wedge at any byte; a wedged
transfer wakes no interrupt. CYCCNT is `now`, modulo `W`; a bring-up zeroes it
as `enable_cycle_counter` does. `age` is history: real cycles since the stamp.

**PolledSerial.** One USART at its register reads and writes. `psHw` is the
block (the data register, the flags, the shifter), `psTx` its transmit side,
`psCall` the call in progress with its locals. `read` polls a ready flag, takes
the error flags the family's way, reads the data register; `write` and `flush`
poll within their budgets. `psCnt` holds the saturating diagnostics, `psLost` what
was lost and how it was told, `psGot` and `psWire` the characters delivered and
sent. A character is its number on the wire.

**SplitSerial.** The adapter over two backends, each reduced to what it
promises: a receive backend is a queue with an overflow latch and a line-error
latch (`ssRx`), a transmit half a staging area with a transfer that may be
late (`ssTx`). The backends' looks at their latches are separate steps, since an
interrupt may fall between them. `ssEnv` counts what the wire raised.

**Ports.** Bring-up, split, the receivers, the transmitter and the releases as
calls of the main thread. `ptHeld` counts the handles of each USART,
`ptRcv` and `ptSnd` are the live drivers, `ptSlot`, `ptCtx`, `ptChan` and `ptOn`
the statics, channels and vectors they occupy.

**IrqRoute.** `irTable` is what `build_table` makes, `Body` the slots each entry
calls in order. The boot code installs the table, applies the priorities one
register group at a time, registers handlers and unmasks lines; peripherals
raise events whether or not anyone serves them. `irStack` is the stack of active
handlers; `Enter` is the NVIC's choice, `CallSlot` one slot of the running entry.
`IrPorts` are the USARTs the board brings up; it unmasks only lines of handlers it
registered.

**I2cMaster.** A call is a list of operations, as `transaction` takes; `read`,
`write` and `write_read` are such lists. `WriteInner` and `ReadInner` are the
register operations of `write_inner` and `read_inner` in their order, and
`RecoverInner` those of `recover`; `todo` holds what is left of the one in
progress and one action performs its head, so the block and the bus move
between any two. `set_ack`, `set_poap`, `start_on_bus` and `stop_on_bus` are a
read and a write of CTL0, two steps. A poll that fails spends `left`
(`txn_left`) or `budget`. `ph` is the state of the bus: `sb`, `ack` are SBSEND
and ADDSEND, with SCL held; `rx` moves bytes into DATA and the shift register
and holds SCL when both are full; `hold` follows a refusal; `wedged` is the
deadlock the module documentation of i2c.rs describes. `held` is a slave that
holds SDA. `rcv`, `nack`, `fault` and `polls` are history.

**Budgets.** Each function of the arithmetic is an operator over a set of
clocks, modes, rates and lengths. A failing acquisition takes the polls of one of
the ways it can fail (`FailingPolls`: the wait for the bus, a flag that never
comes, or the first and then the second, with the recovery each ends in), at 21,
32 or 39 cycles a poll: what i2c.rs disassembled, assumes and says is still
survived. The motor's coast is the 16 ms of i2c/tests.rs and serial.rs.

**Fmc.** The unit of address is the halfword. A call is its pre-checks, the
interrupt mask, unlock, the mode, each halfword's store and wait, and the undo.
The controller refuses what is written over or closed, sets its sticky flags, may
stay busy beyond the poll budget and may lose power between any two steps.

**Adc, PeriodLoop.** In `Adc` a read-modify-write of STAT is two steps and the
period handler may fall between them; a value is its channel and whether the call
in progress started it. `PeriodLoop` sets the chain up one register field at a
time beside a counter that runs up and down and takes its compare from a shadow.

**Commutation, PwmOut.** Registers with shadows: the update event falls between any
two writes. The rotor of `Commutation` turns between the reads of the three hall
lines.

**Pins.** A pin is its packed byte, a role what a `configure` call makes of it;
`pnReg` holds the fields of both layouts and `pnAfio` the F10x's remaps. Handles
are copies and may be used at any later time.

**Descriptor, Probe.** `Descriptor` is what detect.rs makes of its measurements and
what the drivers ask of it. `Probe` runs each call as the sequence of the
operations it has left, with a fault after any of them, nested calls and a bus
fault of the application's own.

**ClockTree, Watchdog, Ticks, Spi.** Register writes in the code's order against
oscillators, dividers and a shifter that take their time or never answer; each goes on
after an error, as a caller may.

**BenchLink, Coldpath, MotorVerify, ImuTilt, Links.** The images and examples as
programs of operations, one per board, with skewed starts, lost characters and
resets; what is judged is the verdict each shows.

## 3. Runs

Components share no variable, so several are checked in one run: the MC module
extends them all, `part` is chosen in the initial state and only that part moves.
The other parts stand still in one initial state.

| Run | Parts and bounds | Shows |
|---|---|---|
| `ring_irq_i2c` | ring: 3 slots, 5 bytes of 3 values; irq: both layouts, USART0's three handlers and the period's; i2c: reads of 1 to 4 bytes, writes of 0 to 2, mixed lists, budgets of 3 and 2 polls, 1 pulse, BERR | `RrSafe`, refinement of `BoundedFifo`, delivery; `IrSafe`, `PeriodServed`; `I2cSafe`, `I2cSteps`, `CallReturns` |
| `dma_rx` | buffer of 3, 6 bytes, slices of 1 and 3 | `DmaRxSafe`: snapshot, cursor and ready exact, a byte intact unless lapped; overruns exact; every byte delivered or reported lost |
| `usart` | interrupt: both families, both receivers, ring of 2, 3 characters; polled: both families, 3 characters, 2 bytes to send one or two at a time, budget 1, counters of 2; transmit: one port, buffer of 2, counter of 4, 2 bring-ups | `UrSafe`, `LineReleased`; `PsSafe`, `PsNeverStrands`; `DmaTxSafe`, `DmaTxSteps`, `PortNeverSilent` |
| `board` | 20 parts, bounds in `MCBoard.cfg`: `serial` (SplitSerial), `lap`, `flash`, `adc`, `motor` (Commutation), `pins`, `boot` (Probe and Descriptor), `clock`, `watchdog`, `spi`, `ticks`, `pwm`, `ports`, `bench`, `period`, `cold`, `tilt`, `links`, `budget`, `verify` (MotorVerify) | the `Safe` conjunction of each, and `CatchesUp` of `DmaLap` |
| `dma_rx_race` | buffer of 3, 5 bytes | *violation*: a byte is overwritten before it is copied |
| `dma_tx_bring_up` | two ports, a bring-up while the other sends | *violation*: a live transfer is abandoned |
| `usart_rx_loss` | F10x, 3 characters | *violation*: a character is lost without a condition |
| `usart_rx_frame` | F1x0, 3 characters | *violation*: a boundary is taken before its last bytes |
| `usart_rx_storm` | DMA receiver, 3 characters | *violation*: an armed vector with no slot behind it |
| `i2c_stray_stop` | the i2c part, a STOP may complete inside a modify | *violation*: a transfer starts with a STOP pending |
| `delay_hang` | a reload of 3, durations to 4 | *violation*: a delay never returns |
| `adc_clear` | two channels, the injected group | *violation*: clearing EOIC loses a regular EOC |

Why the bounds are enough. A ring of three slots can be empty, half full and
full, and five bytes wrap both indices. Six bytes fill a buffer of three
twice, so that a pending wrap, a counted wrap and an
overrun all occur, with slices shorter than the buffer and as long; seven bytes
through a buffer of two take the lap count of `DmaLap` past its width of three.
A counter of four values wraps inside every transfer, and a deadline fits in
it with one value to spare, as `MAX_BUDGET_CYCLES` guarantees of 2^32. Two
bring-ups of one port reach a second life. Three characters fill a ring
of two and overflow it, or latch an overrun and leave one for after a re-arming.
Reads of one, two, three and four
bytes are the four shapes of `read_inner`: its three arms, and the general one
with and without a byte ahead of the last three. The budgets let every wait
fail once or run dry, in any combination, and calls follow one another without
a bound. Pages of four halfwords and slices of up to three reach every place of
a slice in its page, the last halfword and the neighbour page included. The clock
profiles are those the examples ask for, the limits of each field and two that are refused;
the watchdog's periods stand at each prescaler's edge. Five events let the wire of `SplitSerial`
raise the four conditions after which its read gives up and still bring a character; a buffer of one
sent twice lets a polled write's budget end and another write follow the drop. The silicon of `boot` is one part of each shape and a blank one.
The proofs of section 6 are for any value of these constants.

Deadlock checking is off in the composite runs: every bounded environment ends.

## 4. Fairness

Only the properties of progress use it.

* `RxRing`: a `push` or `pop` that began goes on, since the code has no loop
  inside either, and the consumer polls. No fairness on new bytes.
* `DmaRxRing`: the interrupt is
  taken and completes, a call goes on, and the application keeps calling
  `read`. Strong fairness on the call only because a pending interrupt
  disables the main loop for a moment. Nothing is assumed of the retry loop of
  `snapshot`: the stream of a run is finite, so it ends.
* `UsartRxIsr`: an unmasked line is taken and the handler runs to its end.
  Nothing of the main loop or of the wire.
* `PolledSerial`: a call that began goes on, and the application calls `read`
  again (strong: a call in progress disables it). Nothing of the shifter.
* `DmaTx`: the counter advances, a call goes on, and the application offers
  frames to a
  port that says it is ready (strong, since a port may be ready on and off).
  `Abandon` is strongly fair: an expired deadline reads as unexpired again
  for one budget in every turn of the counter, and an application that calls
  again and again does not always hit that window. Nothing is assumed of the channel
  or of its interrupt: a port recovers without either.
* `IrqRoute`: the core goes on (`Cpu`). No event and no registration is assumed.
* `I2cMaster`: the driver's code runs. Nothing is assumed of the bus, which may
  stop for ever anywhere.
* `Ticks` (`delay_hang`): the counter runs and the waiting loop polls it. The hang is no unfairness: with a reload of
  zero there is nothing to wait for.

## 5. Assumptions about the hardware and the core

* A main-loop step is atomic with regard to interrupts where the model says
  so; `UsartRxIsr`, `DmaRxRing` and `IrqRoute` let the main loop run only outside
  handlers, as one core does. In `UsartRxIsr` the main loop may take a step
  while the line asks: entry takes time.
* `IsrWithinLap` (`DmaRxRing`): the receive channel's interrupt is served before the engine
  completes another lap. Without it laps merge into one flag; the code
  has no defence. `DmaLap` drops the assumption and says what is still true.
* `Arrive` follows the library's own mock register file (`inject_rx_byte`):
  a character that finds the data register occupied is lost and latches the
  overrun.
* On F10x a flag clears on a data read only if the last status read saw it.
  A flag raised in between survives.
* `I2cMaster`: one master on the bus. Writing an address to DATA empties the
  receiver. With POAP the first byte is acknowledged and ACKEN governs the
  second. After a refused byte the slave clocks no more. A STOP under an
  acknowledged byte may never get on the bus. In `ring_irq_i2c` a STOP does not complete
  between the read and the write of one modify of CTL0 (`StopMidModify` is
  FALSE); `i2c_stray_stop` shows what happens when it does.
* `LateBringUp` is FALSE in `usart`: no port is brought up while another sends; `dma_tx_bring_up`
  shows what happens when one is. In `Adc` it says whether a regular bring-up may follow the
  injected one, and is FALSE in `board`.
* A watchdogged loop that is alive passes once in `WdStep` milliseconds; the oscillator is
  taken at its nominal rate.
* Boot code runs on the thread; apart from the bench's own, an application installs the vector table before it registers
  a handler, and registers before it unmasks.
* Sequential consistency: Acquire and Release pairs on each index of `RxRing`; one core.

## 6. Proofs

Each proof module strengthens what the runs check to an inductive invariant
`IInv` (a prefix where the module has one), shows `Init => IInv`, has one lemma for each action and each
conjunct that the action can disturb, and derives the theorems with PTL. TLC checked every
`IInv` on a small instance before it was proved.

* `RingIrqProofs` (RxRing), for every capacity of at least two and every set of bytes:
  `RrSafety` (types, no slot race, order) and `RingImplementsFifo`: the ring implements
  `BoundedFifo`, whose queue is the cells from `tail` to `head` (`PushPublish` is the
  enqueue, `PopFree` the dequeue, every other step a stutter). The invariant ties the ring
  to its history: `accepted` is `delivered` followed by those cells (`ContentsInv`), and a slot a side has open
  is on its own side of the other's
  index. `InOrder` alone is not inductive, since a slot written before its
  publication could be anything.
* `DmaRxProofs` (DmaRxRing), for every buffer length and every set of slice lengths:
  `TypeCorrect`, `SnapshotIsExact`, `CursorStaysBehind`, `ReadyIsHonest`,
  `OverrunIsExact`, `CopiesAreIntact` and their union `DmaRxSafety`. The heart is the relation of `written` to `wraps`, the
  flag, the interrupt's position and `cnt`, and what each of the snapshot's
  loads implies about the later ones; under it the retry test is exactly the
  condition that rules out a torn read. `BufInv` says which byte each cell holds: a byte is in
  its cell from its store until the engine comes round, which is what makes a copy intact unless
  lapped. The assumption is `IsrWithinLap`.
* `DmaRxProofs` (DmaLap), for every length, word width and slice set, with no assumption about
  how late the interrupt is: `LapSafety` and `ReadCatchesUp`. The invariant accounts for every lap: counted, in
  the flag, folded, or over during `new`; and bounds the total by the position.
* `UsartProofs` (UsartRxIsr), for every capacity, both families and both receivers: `UsartRxSafety`, of
  which `LossReportedF1x0`, `NoStormBuffered` and `ReadInOrder` are the readable parts. `ArmInv` says which sources are
  enabled at each step of arming and release, `LossInv` where an unreported
  loss may still be (the flag, the handler's copy of it, the latch), `OrderInv` that data register, queue
  and deliveries are one increasing sequence.
* `UsartProofs` (DmaTx), for every set of ports, buffer length, counter width and
  frame set: `DmaTxSafety` and `CompletionsAreReal`; and, when no port is brought up while another
  sends (`~LateBringUp`), `AbandonIsLate` and `DmaTxStepsHold`. The invariant says, for each step of `try_send` and
  `release`, what may still be true of the channel: after the stop nothing
  runs, after the flag clear nothing completes, from the claim on nothing is
  unclaimed. `TimeInv` relates the wrapping difference a deadline is judged by to the cycles that really passed.
* `SerialProofs` (PolledSerial), for every number of characters and bytes, every budget and counter limit: `PolledSafety`, with
  `PolledInOrder` and `PolledBytesAccounted` its readable parts. The invariant says where each
  character is (`OrderInv`), what each step of a read has promised (`ReadyInv`), what the counters
  count (`CountInv`), which characters are suspect (`SuspectInv`), and that bytes stored, shifting and
  sent add up (`TxInv`).
* `SerialProofs` (SplitSerial), for every stream, caller buffer, budget and counter limit, with the handler between any
  two steps of a call: `SplitSafety`. The queue and what was delivered from it are one rising sequence
  (`SsOrderInv`); every condition the hardware raised is counted once or still latched;
  a readiness answer is kept until the next call takes what it promised; bytes stored are waiting, shifting,
  sent or given up, and leave in the order stored.
* `RingIrqProofs` (IrqRoute), for every set of ports and both layouts: `RoutingSafety`. The tables are turned into
  facts once (`EntryOwn`: a line's entry calls slots of that line only, and the slot of every source on it);
  then each activation accounts for what it was due (`StackInv`), and each is strictly more urgent than
  the one below (`NestInv`), which bounds the nesting by the number of urgencies and keeps two
  activations off one slot. The run has one port; with two its states are too many to enumerate.
* `MotorProofs` (Commutation), for every PWM period: `CommutationSafety`. `CmBootInv` says which registers
  each write of the bring-up has fixed by the time the next is due; `CmBridgeInv` which phase may still source
  while a step's writes are under way, by the sector applied before and the one being applied; `CmHallInv` of which
  two sectors the lines read so far are a mixture. `OneSource` alone is not inductive: between the first
  and the last write of a step the shadows and the live compares belong to different steps.
* `MotorProofs` (Adc), for every set of channels, finite set of ranks and poll budget: `AdcSafety`, under
  `~LateBringUp` (the run has it FALSE too; with it TRUE the code refutes `ClearsOnlyEoic`, which is
  the finding of `adc_clear`). `AcClean` says where the one conversion is that a clean call started,
  `AcInjected` which ranks the next entry of the period's handler finds converted.
* `PeripheralProofs` (Watchdog), for every set of periods, pace of the loop and poll budget: `WatchdogSafety`. What the running
  program has left is a suffix of the bring-up or of one of its variants, and its place says what has been
  written; the counter is compared with the period the registers hold. The proof corrected `HungInTime`: a hung loop is
  reset within a pass and one count of the slowest prescaler (256 ticks at 40 kHz, 6.4 ms) of the time
  asked for, not within two passes, which fails for a loop faster than that.
* `PeripheralProofs` (Fmc), for every array, set of protected pages, payload and poll budget, with power lost
  at any step: `FlashSafety`. `FmControl` says what lock, mode and mask are at each place of the sequence,
  `FmProgram` and `FmErase` which cells hold what was asked for or will when the operation in flight ends,
  `FmError` where a protection error came from.
* `PeripheralProofs` (Ports), for every set of rings, both layouts and any order of calls: `PortsSafety`.
  `SoleHolder` rests on `PtHandInv` (whose a direction is, and that an unclaimed USART is nobody's), the channels on
  the tables' facts, proved once: no two channels of existing ports coincide (`PtApart`) and a channel raises
  the vector its port unmasks (`PtTables`).
* `PeripheralProofs` (PwmOut), for every clock, counter width, frequency and duty, with the counter running on
  between any two writes: `PwmSafety`. The rest of the configuration is one of six suffixes
  (`PwLeft`), and the counts driven high are those below the compare value the period began with (`PwCountInv`).
* `PeripheralProofs` (Ticks), for every clock, reload width, duration and rate: `TicksSafety`. `TkWaitInv` adds the cycles
  counted in the chunk under way to those still to come; a wait that is over has counted them all. The
  rounding is exact: the least number of cycles that is not short.
* `PeripheralProofs` (Spi), for every clock tree, rate, poll budget and transfer length, with NSS pulled at any
  moment and calls made after errors: `SpiSafety`. `SpStep` says where the one word under way is at each step
  of `transfer_byte`, until a call fails; `SpDue` that the words left are within what may still be sent.
* `I2cMasterProofs`, for every list of calls, transfer length and budget, whatever the bus does: `I2cSafety`
  and `I2cStepsHold`, under `~StopMidModify` (the run has it FALSE too; with it TRUE the code refutes `FreshStart`,
  the finding of `i2c_stray_stop`). A transfer is a fixed list of register operations: `TransferAt` says
  in which phase the bus and the block are at each place of it, `Row` that every operation finds one of
  its phases and leads to the next place, and `PhasesKept` that neither the bus moving on nor an error leaves a phase.
  `AtRest`, `Kept` and `RecoverAt` say the same of the time between transfers and of a recovery. `PollsBounded` needs the idle
  budget to be no more than the poll budget, which holds since it is a tenth of it (i2c.rs:236).
* `BoardProofs` (Pins), for every set of pins, both register models and any order of calls: `PinsSafety`. `PnHandInv`
  says that what has a handle is clocked and is no debug pin, `RoleHolds` that a pin's registers are those of its
  role, `PnServed` that the pins of an instance that is up are a pair the table gives it, remap included.
* `BoardProofs` (ClockTree), for every set of targets, budget, number of calls and rate: `ClockSafety`, under `CkCoherent`: a
  target's `sysclk_hz` is what its source and factor make. `validate_for` (clock.rs:149) does not compare
  them, so a `ClockConfig` that misstates its own frequency is accepted and gets the wait states of the
  frequency it states; the 72 MHz tree the module names (clock.rs:107) agrees with itself. `CkTreeAt` says
  what each of the twelve operations of the bring-up has fixed, `CkSilicon` that a flag only comes up after the
  field it answers, and that the PLL is enabled only over the target's fields, `CkTreeInv` what an error leaves. From these
  each clock is the target's once switched and the reset clock before, whatever the divisors.

Only model-checked: everything about liveness (`EveryByteDelivered`,
`EveryByteAccounted`, `PortNeverSilent`, `LineReleased`, `PsNeverStrands`,
`PeriodServed`, `CallReturns`), which is out of the prover's reach; `CpSafe`, `ImSafe`, `LkSafe`, `PlSafe`, `BnSafe`, whose modules compute with folds or recursive helpers over data; `BgSafe`
and `MvSafe`, which are arithmetic on literal tables where the bounded inputs are the question; and
`PrSafe`, whose answer depends on which parts exist, a table the run enumerates whole.

## 7. Disagreements and observations

The runs that expect a violation each show one disagreement between the code
and what the repository says of it (`findings` in `PROJECT.json` quotes both):

1. `RingBufferedRx::read` (usart_rx.rs:834): the engine is not stopped during
   the copy, so a byte can be overwritten between snapshot and copy and is
   delivered as the older one. The SAFETY comment says it cannot. (`dma_rx_race`)
2. `DmaTx::new` (through `enable_cycle_counter`, irq.rs:764) zeroes the
   counter another port's deadline is measured on. (`dma_tx_bring_up`)
3. `RingBufferedRx::new` (usart_rx.rs:696) enables its interrupt sources
   before installing the slot. The first time the vector is masked; the
   second time it is not, and an event between the two asks for a handler that
   clears nothing. (`usart_rx_storm`)
4. `on_usart_rx_irq` on F10x: the drain's own reads, and the data read of
   `clear_idle`, can clear an overrun or take a character that nothing
   recorded; they also clear IDLEF before it is tested, and the boundary is
   lost. (`usart_rx_loss`)
5. `take_idle`: the interrupt may push the last bytes of a frame and latch its
   boundary after the drain has seen an empty ring; the boundary is then taken
   with bytes of its frame still unread. (`usart_rx_frame`)
6. Every I2C read ends by modifying CTL0 with its STOP still pending (i2c.rs:1054).
   A STOP that completes inside the modify is requested again, on a free bus;
   the next transfer's wait for I2CBSY does not see it. (`i2c_stray_stop`)
7. A delay whose last chunk is one cycle writes a reload of zero, with which SysTick does not
   count; the wait never ends (delay.rs:75). (`delay_hang`)
8. `clear_eoic` is a read-modify-write of a register whose flags are cleared by writing zero
   (adc.rs:883): a regular end of conversion raised between the two is lost. (`adc_clear`)

Met while modelling, and allowed for in the properties rather than run on their own:

* i2c.rs: `recover` clears the error flags before its STOP, so a flag raised after
  fails the next call. A call may run two recoveries, one in the wait for the bus (837) and one on its
  way out (924, 971), where `worst_case_block_us` ("worst-case microseconds a single failing bus acquisition
  can block the caller") counts one: it may block for another tenth of its budget, which `CoastKept` shows to
  leave it inside the coast. The function is also understated below 1 MHz, a speed of zero divides by zero, speeds under
  pclk / 8190 overflow CLKC, and 16/9 fast mode at 36 MHz runs at 480 kHz for 400 asked.
* serial.rs:290: the documentation of a suspect character speaks of the F1x0's clear taking
  the character; there the clear writes INTC only (usart.rs:879-912). On F10x
  `read_ready` may say yes for a condition whose clear takes the character, and the read then answers
  0 bytes with nothing counted.
* fmc.rs: a program continues past a refused halfword; the controller is never locked
  again.
* adc.rs: `read_channel` returns on a time-out before it clears EOC (447), and nothing clears it before the
  next trigger: the late end of that conversion answers the next read's poll, which returns the earlier
  channel's value, where `clear_eoc` (456-458) says that poll waits for its own conversion. A value may also be
  stale after `bring_up_injected`'s
  power-up and after `reassert_trigger_enable`; `read_simultaneous` never clears EOC; a regular
  `configure` clears SM (243). At 108 MHz the ADC runs at 18 MHz.
* gpio.rs: `Pin::into_*` (836-879) asks nobody, although pincap.rs:427-431 speaks of every
  entry point; `output_pin` after a pull-up on F10x leaves the latch high while `GpioOutput`
  says low (663, 670).
* detect/probe.rs: the resume depends on the reading function's code being laid out in
  order; the comment at 739 ("fits in 12 bits") is not true of 0x5A5A; the bench report never says ABSENT.
  addr.rs:225-227's window leaves ADC2's base out, so `has_adc(Adc2)` is false where
  chip.rs carries it.
* clock.rs checks named system clocks only; after PllNotLocked and
  SwitchNotConfirmed the tree keeps what was written. `compute_brr` truncates; oversampling by 8 with a small
  divider doubles the rate.
* watchdog.rs: `resolve` clamps at about 26.2 s although 99-103 say the period is never shorter;
  RSTFC is never written back.
* spi.rs: a call that fails on a mode fault or a time-out leaves a word in DATA or in the shifter
  (342-347), where `flush` (397-399) says none can be, and later answers shift by one; RXORERR is
  swallowed when the flag stood already; the bring-up of a running block keeps SPIEN; `NssMode::Hardware`
  does not set NSSDRV as config.rs:147 says; SPI0 is taken to be on APB2; the prescaler clamps at /256.
* timebase.rs: a failed `Timebase::new` drops SYST; a rate equal to the core clock is
  accepted and never ticks; one pending tick may come after the stop.
* pwm.rs: the largest duty equals CAR and is never always on; a period too long is clamped.
* timer.rs: `configure_trigger` does not check what `rearm_trigger` does; TRGO on update
  fires at both ends; on F10x the trigger vector runs both routines without a look at the flags,
  where the grouped demultiplexer "never invents an event".
* usart_rx.rs: `snapshot` retries without a limit (758); only the time a lap takes on the wire, against
  five loads, keeps it from retrying for ever, and the model has no time. Label and base of a half are never compared in the constructors; a
  refused constructor consumes the half; the receive context stays installed after release.
* irq.rs: until `apply_motor_era_priorities` has run to its end, handlers of two ports may nest four deep
  rather than three, since a line not yet written is the most urgent.
* bench-fw: a character lost in the first stage hangs the two-board images; the
  sequence check misses a flip of the top bit; `coldpath`'s err 0x10 is shared by two failures, and
  a failed `configure_tree` is told by `clock_ok` alone.
* firmware, examples: the link master polls for its echo without a limit (142-151) and the slave speaks
  only when spoken to, so one lost probe or echo hangs both boards, where the module (29) says probes are sent
  periodically; `imu_tilt` ignores init's error.
* motor-verify: the value checked for psc equals its reset value.

## 8. Not modelled, and what is left

Not modelled: the demultiplexer of the advanced timer's events (irq.rs), since nothing in the library
enables those timer interrupts, sets the base it reads outside the tests, or clears the flags it looks at;
register access and the debug dump (reg.rs, dbg.rs: one volatile access each, no state), the attitude
filter's floating point (`ImuTilt` keeps its sign and range), the host-side test harness, formatting
and logging. Inside the modelled components: baud and pin setup beyond the fields `ClockTree` and
`Pins` keep, LIN, smartcard and other modes the library never enables.

Left to prove: the safety of `Probe`, which only TLC checks so far, and the two theorems
above that exclude a case the code does not handle (`LateBringUp`, `StopMidModify`), should it come to.
