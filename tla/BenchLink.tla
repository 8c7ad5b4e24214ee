------------------------------ MODULE BenchLink ------------------------------
(***************************************************************************)
(* The bench images that stream a known sequence over a wire and judge     *)
(* what arrived: the two-board images of bench-fw/usart-rx ("pair") and    *)
(* bench-fw/serial ("serial"), the cross-wired single board ("single") and *)
(* the remap board ("remap").  An image is a program of operations per     *)
(* board; a tick is about a character on the wire for one board and a      *)
(* quarter of a second between two boards, and a CPU answers within one.   *)
(* The receivers' own races are the business of the other modules: here a  *)
(* receiver is its queue, its error flag and its idle flag.                *)
(***************************************************************************)
EXTENDS Integers, Sequences, FiniteSets
LOCAL INSTANCE SequencesExt

CONSTANTS
  BnImages,  \* the images to run
  BnSkew,    \* the latest tick a board's boot code begins
  BnGap,     \* ticks of silence that end a drain: GAP_ITERS, RX_ITERS, STALL_BUDGET
  BnDrops    \* characters the line may lose

ASSUME BnImages \subseteq {"pair", "serial", "single", "remap"}
       /\ {BnSkew, BnGap, BnDrops} \subseteq Nat

VARIABLES
  bnImage,  \* the image that was built
  bnCpu,    \* per board: its program counter, its current operation's progress, its result block
  bnPort,   \* per USART: rate, receiver, what it holds, the character leaving it
  bnLoss    \* characters the line dropped, and those sent to a receiver not ready for them

bnVars == <<bnImage, bnCpu, bnPort, bnLoss>>

Octets == 8   \* the values of a byte, 256 in the code; P1_N, 4096, is a multiple of it
Long == 8     \* P1_N, N_STREAM, N_POLLED, S2_STRESS, DMA_N
Short == 4    \* P2_N, S2_N, FRAME, FRAME_LEN

Delay(t) == [op |-> "delay", t |-> t]
Stream(p, n, from) == [op |-> "stream", p |-> p, n |-> n, from |-> from]
Both(p, q, n) == [op |-> "both", p |-> p, q |-> q, n |-> n]
ArmOp(p, as) == [op |-> "arm", p |-> p, as |-> as]
Release(p) == [op |-> "release", p |-> p]
Reprogram(p, baud) == [op |-> "baud", p |-> p, baud |-> baud]
Drain(p, n, until) == [op |-> "drain", p |-> p, n |-> n, until |-> until]
SweepOp(p, n, last) == [op |-> "sweep", p |-> p, n |-> n, last |-> last]
Lockstep(p, from, need, stop) ==
  [op |-> "lockstep", p |-> p, n |-> Short, from |-> from, need |-> need, stop |-> stop]
Remap == [op |-> "remap", p |-> "u0"]
Flush(p) == [op |-> "flush", p |-> p]
Exchange == [op |-> "exchange", n |-> Long]
Judge == [op |-> "judge"]
DoneOp == [op |-> "magic"]

\* Mutant: the master goes on to 9600 without waiting for the slave.
PairMasterHasty ==
  <<Delay(12), Stream("m", Long, 0), Reprogram("m", 9600), Stream("m", Short, 0),
    Reprogram("m", 115200), ArmOp("m", "ring"), Drain("m", Long, "count"), Judge, DoneOp>>

PairMaster ==
  <<Delay(12), Stream("m", Long, 0), Delay(4), Reprogram("m", 9600), Stream("m", Short, 0),
    Reprogram("m", 115200), ArmOp("m", "ring"), Drain("m", Long, "count"), Judge, DoneOp>>
PairSlave ==
  <<ArmOp("s", "ring"), Drain("s", Long, "count"), Release("s"), Reprogram("s", 9600),
    ArmOp("s", "ring"), Drain("s", Short, "count"), Judge, Release("s"), Reprogram("s", 115200),
    Delay(12), Stream("s", Long, 0), DoneOp>>
SerialMaster ==
  <<Delay(12), Stream("m", Long, 0), Delay(6), Stream("m", Long, 0), Delay(6),
    Stream("m", Long, 0), ArmOp("m", "ring"), Drain("m", Long, "count"), Judge, DoneOp>>
SerialSlave ==
  <<ArmOp("s", "ring"), Drain("s", Long, "count"), Release("s"), ArmOp("s", "buffered"),
    Drain("s", Long, "count"), Release("s"), Drain("s", Long, "count"), Judge,
    Delay(12), Stream("s", Long, 0), DoneOp>>
run_s0 == <<Lockstep("u1", 0, Short, TRUE), Lockstep("u2", 0, Short, TRUE)>>
run_s1 ==
  <<ArmOp("u1", "buffered"), ArmOp("u2", "buffered"), Stream("u1", Short, 0), Drain("u2", Short, "idle"),
    Stream("u2", Short, 4), Drain("u1", Short, "idle"), Both("u1", "u2", Short),
    Drain("u2", Short, "idle"), Drain("u1", Short, "idle"), Release("u1"), Release("u2")>>
Stress ==
  <<Stream("u1", Short, 0), SweepOp("u2", Long, FALSE), Stream("u1", Short, Short),
    SweepOp("u2", Long, FALSE), Delay(2), SweepOp("u2", Long, TRUE)>>
run_s2 ==
  <<ArmOp("u2", "ring"), Stream("u1", Short, 0), Drain("u2", Short, "either"), Release("u2"),
    ArmOp("u1", "ring"), Stream("u2", Short, 0), Drain("u1", Short, "either"), Release("u1"),
    ArmOp("u2", "ring"), ArmOp("u1", "ring"), Both("u1", "u2", Short), Drain("u2", Short, "either"),
    Drain("u1", Short, "either"), Release("u2"), Release("u1"),
    Reprogram("u1", 2250000), Reprogram("u2", 2250000), ArmOp("u2", "ring")>> \o Stress \o
  <<Release("u2"), Reprogram("u1", 9600), Reprogram("u2", 9600), ArmOp("u2", "ring"),
    Stream("u1", Short, 0), Drain("u2", Short, "either")>>
RemapBoard ==
  <<Flush("u2"), Lockstep("u0", 0, 0, FALSE), Remap, Flush("u2"), Flush("u0"),
    Lockstep("u0", 0, Short, FALSE), Lockstep("u2", 4, Short, FALSE),
    Flush("u0"), Flush("u1"), Flush("u2"),
    ArmOp("u0", "ring"), ArmOp("u1", "ring"), ArmOp("u2", "ring"), Exchange, Judge, DoneOp>>

BnPrograms ==
  [pair |-> [m |-> PairMaster, s |-> PairSlave],
   serial |-> [m |-> SerialMaster, s |-> SerialSlave],
   single |-> [b |-> run_s0 \o run_s1 \o run_s2 \o <<Judge, DoneOp>>],
   remap |-> [b |-> RemapBoard]]
\* Who hears whom: the pair's crossed wires, and each single board's jumpers.
Wires ==
  [pair |-> [m |-> "s", s |-> "m"], serial |-> [m |-> "s", s |-> "m"],
   single |-> [u1 |-> "u2", u2 |-> "u1"], remap |-> [u0 |-> "u2", u2 |-> "u0", u1 |-> "u1"]]
BnProgram == BnPrograms[bnImage]
Peer == Wires[bnImage]
BnBoards == DOMAIN BnProgram
BnPorts == DOMAIN Peer
Own(b, p) == b = "b" \/ b = p

Silence == [from |-> <<>>, v |-> 0]   \* no character in flight
Holds(as) == CASE as = "off" -> 0 [] as = "polled" -> 1 [] OTHER -> 5
Lat == {0, 1}

\* What a receiving stage knows: SeqCheck's or Tally's counters, and the characters themselves.
Fresh == [got |-> <<>>, exp |-> 0, loss |-> 0, bad |-> 0, err |-> 0, idle |-> FALSE, gap |-> 0]

\* SeqCheck::push and Tally: a forward jump of less than half the byte range is a loss.
Push(seq, c) ==
  [seq EXCEPT !.got = Append(@, c), !.exp = (c.v + 1) % Octets,
    !.bad = IF c.v # seq.exp THEN @ + 1 ELSE @,
    !.loss = IF seq.got # <<>> /\ (c.v - seq.exp) % Octets \in 1 .. Octets \div 2 - 1
             THEN @ + 1 ELSE @]

\* One read of a receiver: an error drops what a DMA ring holds, and is counted.
Taken(port) == IF port.err /\ port.as = "ring" THEN <<>> ELSE port.q
Read(seq, port) ==
  [FoldLeft(Push, seq, Taken(port)) EXCEPT
    !.err = IF port.err THEN @ + 1 ELSE @,
    !.gap = IF port.err \/ port.q # <<>> THEN 0 ELSE @]
Drained(port) == [port EXCEPT !.q = <<>>, !.err = FALSE, !.idle = FALSE]

BnInit ==
  /\ bnImage \in BnImages
  /\ bnCpu \in [BnBoards -> {[pc |-> 0, wait |-> w, n |-> 0, seq |-> [p \in BnPorts |-> Fresh],
                              log |-> <<>>, pass |-> FALSE, magic |-> FALSE] : w \in 0 .. BnSkew}]
  /\ bnPort = [p \in BnPorts |-> [baud |-> 115200, as |-> "off", q |-> <<>>, err |-> FALSE,
                                  idle |-> FALSE, busy |-> FALSE, air |-> Silence,
                                  wired |-> <<bnImage, p>> # <<"remap", "u0">>]]
  /\ bnLoss = [dropped |-> 0, unheard |-> 0]

Now(b) == IF bnCpu[b].pc \in DOMAIN BnProgram[b] THEN BnProgram[b][bnCpu[b].pc] ELSE [op |-> "none"]
BnAt(b, op) == bnCpu[b].wait = 0 /\ Now(b).op = op

\* The operation ends: the next begins within a tick.
BnFinish(cpu, log) ==
  {[cpu EXCEPT !.pc = @ + 1, !.wait = w, !.n = 0, !.log = @ \o log,
               !.seq = IF log = <<>> THEN @ ELSE [p \in BnPorts |-> Fresh]] : w \in Lat}
Goes(b, cpus) == bnCpu' \in {[bnCpu EXCEPT ![b] = c] : c \in cpus}
Becomes(p, port) == bnPort' = [bnPort EXCEPT ![p] = port]

\* run: detection, clock tree and Usart::new, or a refusal that halts the board.
BootBoard(b) ==
  /\ bnCpu[b].pc = 0 /\ bnCpu[b].wait = 0
  /\ \/ /\ Goes(b, BnFinish(bnCpu[b], <<>>))
        /\ bnPort' = [p \in BnPorts |-> [bnPort[p] EXCEPT !.as = IF Own(b, p) THEN "polled" ELSE @]]
     \/ Goes(b, {[bnCpu[b] EXCEPT !.pc = -1]}) /\ UNCHANGED bnPort

DelayDone(b) ==
  /\ BnAt(b, "delay")
  /\ Goes(b, {[bnCpu[b] EXCEPT !.pc = @ + 1, !.wait = Now(b).t]})
  /\ UNCHANGED bnPort

\* stream: write_byte puts a character on the wire and waits it out.
Sent(b, p, v) ==
  /\ Goes(b, {[bnCpu[b] EXCEPT !.n = @ + 1, !.wait = 1]})
  /\ Becomes(p, [bnPort[p] EXCEPT !.air = [from |-> <<b, bnCpu[b].pc>>, v |-> v % Octets]])
StreamNext(b) ==
  /\ BnAt(b, "stream")
  /\ \/ /\ bnCpu[b].n < Now(b).n
        /\ Sent(b, Now(b).p, Now(b).from + bnCpu[b].n)
     \/ /\ bnCpu[b].n = Now(b).n
        /\ Goes(b, BnFinish(bnCpu[b], <<>>)) /\ UNCHANGED bnPort
\* The coexistence stages alternate two streams, the second in the upper half of the range.
BothNext(b) ==
  /\ BnAt(b, "both")
  /\ LET k == bnCpu[b].n
     IN \/ k < 2 * Now(b).n /\ k % 2 = 0 /\ Sent(b, Now(b).p, k \div 2)
        \/ k < 2 * Now(b).n /\ k % 2 = 1 /\ Sent(b, Now(b).q, 4 + k \div 2)
        \/ k = 2 * Now(b).n /\ Goes(b, BnFinish(bnCpu[b], <<>>)) /\ UNCHANGED bnPort

\* RingBufferedRx::new, BufferedRx::new: the character the register held goes to the new receiver.
ArmPort(b) ==
  /\ BnAt(b, "arm")
  /\ Becomes(Now(b).p, [bnPort[Now(b).p] EXCEPT !.as = Now(b).as])
  /\ Goes(b, BnFinish(bnCpu[b], <<>>))
ReleasePort(b) ==
  /\ BnAt(b, "release")
  /\ Becomes(Now(b).p, [Drained(bnPort[Now(b).p]) EXCEPT !.as = "polled"])
  /\ Goes(b, BnFinish(bnCpu[b], <<>>))
reprogram_split(b) ==
  /\ BnAt(b, "baud")
  /\ Becomes(Now(b).p, [bnPort[Now(b).p] EXCEPT !.baud = Now(b).baud])
  /\ Goes(b, BnFinish(bnCpu[b], <<>>))
RemapPort(b) ==
  /\ BnAt(b, "remap")
  /\ Becomes(Now(b).p, [bnPort[Now(b).p] EXCEPT !.wired = TRUE])
  /\ Goes(b, BnFinish(bnCpu[b], <<>>))
flush(b) ==
  /\ BnAt(b, "flush")
  /\ Becomes(Now(b).p, Drained(bnPort[Now(b).p]))
  /\ Goes(b, BnFinish(bnCpu[b], <<>>))

\* drain_stage counts its silence from the first byte on, drain_dma and drain_buffered at once.
BnCounting(d, seq) == d.until # "count" \/ seq.got # <<>>
Enough(d, seq, idle) ==
  \/ d.until \in {"count", "either"} /\ Len(seq.got) >= d.n
  \/ d.until \in {"idle", "either"} /\ idle
  \/ (BnCounting(d, seq) /\ seq.gap > BnGap)

Entry(seq, need, slack) == <<[seq |-> seq, need |-> need, slack |-> slack]>>
drain(b) ==
  /\ BnAt(b, "drain")
  /\ LET d == Now(b)
         port == bnPort[d.p]
         seq == Read(bnCpu[b].seq[d.p], port)
         idle == port.idle /\ seq.got # <<>>
         seen == [seq EXCEPT !.idle = @ \/ idle]
     IN /\ port.q # <<>> \/ port.err \/ port.idle \/ (BnCounting(d, seq) /\ seq.gap > BnGap)
        /\ IF Enough(d, seq, idle) THEN Goes(b, BnFinish(bnCpu[b], Entry(seen, d.n, 0)))
           ELSE Goes(b, {[bnCpu[b] EXCEPT !.seq[d.p] = seen]})
        /\ Becomes(d.p, Drained(port))
\* stress: drain between bursts, and once more after the last.
sweep(b) ==
  /\ BnAt(b, "sweep")
  /\ LET d == Now(b)
         seq == Read(bnCpu[b].seq[d.p], bnPort[d.p])
     IN /\ Goes(b, IF d.last THEN BnFinish(bnCpu[b], Entry(seq, d.n, 1))
                   ELSE BnFinish([bnCpu[b] EXCEPT !.seq[d.p] = seq], <<>>))
        /\ Becomes(d.p, [Drained(bnPort[d.p]) EXCEPT !.idle = bnPort[d.p].idle])

\* loopback and polled: write a character, poll the other end for it; loopback stops at the first
\* that does not come, polled goes on.
lockstep(b) ==
  /\ BnAt(b, "lockstep")
  /\ LET d == Now(b)
         k == bnCpu[b].n \div 2
         r == Peer[d.p]
         seq == [bnCpu[b].seq[r] EXCEPT !.exp = (d.from + k) % Octets]
         next == [bnCpu[b] EXCEPT !.n = @ + 1, !.seq[r] = Read(seq, bnPort[r])]
         over == BnFinish(bnCpu[b], Entry(next.seq[r], d.need, 0))
     IN \/ k < d.n /\ bnCpu[b].n % 2 = 0 /\ Sent(b, d.p, d.from + k)
        \/ /\ k < d.n /\ bnCpu[b].n % 2 = 1
           /\ Goes(b, IF d.stop /\ bnPort[r].q = <<>> THEN over ELSE {next})
           /\ Becomes(r, Drained(bnPort[r]))
        \/ k = d.n /\ Goes(b, BnFinish(bnCpu[b], Entry(bnCpu[b].seq[r], d.need, 0))) /\ UNCHANGED bnPort

\* dma_all: the three ports send and drain at once, until every pattern is in or nothing moves.
dma_all(b) ==
  /\ BnAt(b, "exchange")
  /\ LET d == Now(b)
         seq == [p \in BnPorts |-> Read(bnCpu[b].seq[p], bnPort[p])]
         more == bnCpu[b].n < d.n
         all == \A p \in BnPorts : Len(seq[p].got) >= d.n
         stalled == \A p \in BnPorts : seq[p].gap > BnGap
         air(v) == [from |-> <<b, bnCpu[b].pc>>, v |-> v]
     IN /\ more \/ all \/ stalled \/ \E p \in BnPorts : bnPort[p].q # <<>> \/ bnPort[p].err
        /\ Goes(b, IF all \/ stalled
                   THEN BnFinish(bnCpu[b], Entry(seq["u0"], d.n, 0) \o Entry(seq["u1"], d.n, 0)
                                         \o Entry(seq["u2"], d.n, 0))
                   ELSE {[bnCpu[b] EXCEPT !.seq = seq, !.n = IF more THEN @ + 1 ELSE @,
                                          !.wait = IF more THEN 1 ELSE 0]})
        /\ bnPort' = [p \in BnPorts |-> [Drained(bnPort[p]) EXCEPT
                                          !.air = IF more THEN air(bnCpu[b].n) ELSE @]]

Exact(e) == Len(e.seq.got) = e.need
Clean(e) == Exact(e) /\ e.seq.loss = 0 /\ e.seq.err = 0
Match(e) == Exact(e) /\ e.seq.bad = 0
InPlace(e, from) == \A i \in 1 .. e.need : i \in DOMAIN e.seq.got /\ e.seq.got[i].v = from + i - 1
Low(e) == e.seq.got[1].v < Octets \div 2
Verdict(log) ==
  CASE bnImage = "pair" /\ Len(log) = 1 -> Clean(log[1])
    [] bnImage = "pair" /\ Len(log) = 2 -> Clean(log[1]) /\ Exact(log[2])
    [] bnImage = "serial" -> \A i \in DOMAIN log : Clean(log[i])
    [] bnImage = "single" ->
         /\ Match(log[1]) /\ Match(log[2])
         /\ InPlace(log[3], 0) /\ log[3].seq.idle /\ InPlace(log[4], 4) /\ log[4].seq.idle
         /\ InPlace(log[5], 0) /\ InPlace(log[6], 4)
         /\ Exact(log[7]) /\ log[7].seq.err = 0 /\ log[7].seq.idle /\ Low(log[7])
         /\ Exact(log[8]) /\ log[8].seq.err = 0
         /\ Exact(log[9]) /\ Low(log[9]) /\ Exact(log[10]) /\ ~Low(log[10])
         /\ Len(log[11].seq.got) + log[11].slack >= log[11].need /\ log[11].seq.loss = 0
         /\ Exact(log[12])
    [] bnImage = "remap" ->
         /\ Len(log[1].seq.got) = log[1].seq.bad
         /\ Match(log[2]) /\ Match(log[3])
         /\ \A i \in 4 .. 6 : Match(log[i]) /\ log[i].seq.err = 0
judge(b) ==
  /\ BnAt(b, "judge")
  /\ Goes(b, BnFinish([bnCpu[b] EXCEPT !.pass = Verdict(bnCpu[b].log)], <<>>))
  /\ UNCHANGED bnPort
magic(b) ==
  /\ BnAt(b, "magic")
  /\ Goes(b, {[bnCpu[b] EXCEPT !.pc = @ + 1, !.magic = TRUE]})
  /\ UNCHANGED bnPort

BnStep(b) ==
  /\ \/ BootBoard(b) \/ DelayDone(b) \/ StreamNext(b) \/ BothNext(b) \/ ArmPort(b) \/ ReleasePort(b)
     \/ reprogram_split(b) \/ RemapPort(b) \/ flush(b) \/ drain(b) \/ sweep(b) \/ lockstep(b)
     \/ dma_all(b) \/ judge(b) \/ magic(b)
  /\ UNCHANGED <<bnImage, bnLoss>>

\* A drain watches the silence, and so does dma_all.
Watching(b) ==
  IF bnCpu[b].wait > 0 THEN {}
  ELSE IF Now(b).op = "exchange" THEN BnPorts
  ELSE IF Now(b).op = "drain" /\ BnCounting(Now(b), bnCpu[b].seq[Now(b).p]) THEN {Now(b).p}
  ELSE {}
BnWaiting(b) ==
  \/ bnCpu[b].wait > 0
  \/ bnCpu[b].pc \notin DOMAIN BnProgram[b] /\ bnCpu[b].pc # 0
  \/ /\ Now(b).op = "drain"
     /\ LET port == bnPort[Now(b).p] IN port.q = <<>> /\ ~port.err /\ ~port.idle
     /\ \A p \in Watching(b) : bnCpu[b].seq[p].gap <= BnGap
  \/ /\ Now(b).op = "exchange" /\ bnCpu[b].n = Now(b).n
     /\ \A p \in BnPorts : bnPort[p].q = <<>> /\ ~bnPort[p].err
     /\ \E p \in BnPorts : bnCpu[b].seq[p].gap <= BnGap
     /\ \E p \in BnPorts : Len(bnCpu[b].seq[p].got) < Now(b).n
\* Nothing will happen any more.
Settled ==
  /\ \A b \in BnBoards : BnWaiting(b) /\ bnCpu[b].wait = 0 /\ Watching(b) = {}
  /\ \A p \in BnPorts : bnPort[p].air = Silence /\ ~bnPort[p].busy

\* The character on air reaches port r: kept, an overrun, a framing error, or nothing at all.
Heard(r, dropped) ==
  LET t == Peer[r] IN bnPort[t].air # Silence /\ t \notin dropped /\ bnPort[t].wired /\ bnPort[r].wired
Ready(r) ==
  /\ bnPort[r].baud = bnPort[Peer[r]].baud
  /\ Len(bnPort[r].q) < Holds(bnPort[r].as)
Received(r, dropped) ==
  LET port == [bnPort[r] EXCEPT !.air = Silence]
      c == bnPort[Peer[r]].air
  IN IF ~Heard(r, dropped) \/ port.as = "off"
     THEN [port EXCEPT !.busy = FALSE, !.idle = @ \/ port.busy]
     ELSE IF Ready(r) THEN [port EXCEPT !.busy = TRUE, !.q = Append(@, c)]
     ELSE [port EXCEPT !.busy = TRUE, !.err = TRUE]
BnTick ==
  /\ \A b \in BnBoards : BnWaiting(b)
  /\ ~Settled
  /\ \E dropped \in SUBSET {p \in BnPorts : bnPort[p].air # Silence} :
       LET missed == {r \in BnPorts : Heard(r, dropped) /\ ~Ready(r)}
       IN /\ bnLoss.dropped + Cardinality(dropped) <= BnDrops
          /\ bnPort' = [r \in BnPorts |-> Received(r, dropped)]
          /\ bnLoss' = [dropped |-> bnLoss.dropped + Cardinality(dropped),
                        unheard |-> bnLoss.unheard + Cardinality(missed)]
  /\ bnCpu' = [b \in BnBoards |->
                 [bnCpu[b] EXCEPT
                    !.wait = IF @ > 0 THEN @ - 1 ELSE @,
                    !.seq = [p \in BnPorts |->
                               IF p \in Watching(b) /\ @[p].gap <= BnGap
                               THEN [@[p] EXCEPT !.gap = @ + 1] ELSE @[p]]]]
  /\ UNCHANGED bnImage

BnNext == (\E b \in BnBoards : BnStep(b)) \/ BnTick
BnSpec == BnInit /\ [][BnNext]_bnVars

\* Type: a receiver never holds more than it has room for.
BnTypeOK ==
  /\ bnImage \in BnImages /\ bnLoss.dropped \in 0 .. BnDrops /\ bnLoss.unheard \in Nat
  /\ \A b \in BnBoards : bnCpu[b].pc \in -1 .. Len(BnProgram[b]) + 1 /\ bnCpu[b].pass \in BOOLEAN
                        /\ (bnCpu[b].pc > Len(BnProgram[b]) => bnCpu[b].magic)
  /\ \A p \in BnPorts : bnPort[p].as # "off" => Len(bnPort[p].q) <= Holds(bnPort[p].as)

BnUp == bnLoss.dropped = 0 /\ \A b \in BnBoards : bnCpu[b].pc # -1
Bare == {"pair", "serial", "remap"}   \* the images whose verdict needs no idle line

\* The fixed settle delays of the two-board images and the remap image's flushes are enough: unless
\* the line itself loses a character, each one sent finds its receiver armed at its rate.
NothingUnheard == bnImage # "single" /\ BnUp => bnLoss.unheard = 0

\* A board that reports a pass received every stage whole: no stage's bytes made up for another's
\* (only the stress stage may miss a byte at an end, as its margin says).
Whole(e) ==
  e.need > 0 =>
    /\ Len(e.seq.got) \in e.need - e.slack .. e.need
    /\ \A i \in 1 .. Len(e.seq.got) - 1 :
         /\ e.seq.got[i + 1].v = (e.seq.got[i].v + 1) % Octets
         /\ e.slack = 0 => e.seq.got[i + 1].from = e.seq.got[i].from
PassHonest ==
  \A b \in BnBoards : bnCpu[b].pass => \A i \in DOMAIN bnCpu[b].log : Whole(bnCpu[b].log[i])

\* On a line that loses nothing, the two-board images and the remap image end on every board, and
\* every verdict is a pass.
CleanRunPasses ==
  Settled /\ BnUp /\ bnImage \in Bare => \A b \in BnBoards : bnCpu[b].magic /\ bnCpu[b].pass

\* What the bench images promise: no stage's character sent to a board that is
\* not listening for it, a PASS that means every check passed, and a run with
\* no fault that passes.
BnSafe ==
  /\ BnTypeOK
  /\ NothingUnheard
  /\ PassHonest
  /\ CleanRunPasses
==============================================================================
