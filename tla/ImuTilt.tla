------------------------------ MODULE ImuTilt ------------------------------
(***************************************************************************)
(* examples imu_tilt with the imu and attitude crates: an MPU-6050 written *)
(* its configuration once, read every 4 ms, filtered to a pitch and shown  *)
(* on two LEDs.  A sample is the accelerometer word of the pitch axis and  *)
(* whether the accelerometer measures at all; words are ImBits wide.       *)
(***************************************************************************)
EXTENDS Integers

CONSTANTS
  ImBits,       \* width of a word, 16 in the chip
  ImRaw,        \* the words the axis may read
  ImThreshold,  \* STILL_THRESHOLD, 50
  ImCap,        \* STILL_COUNTER_CAP, 0xFFFE
  ImSettle      \* samples after which the pitch has come to a steady tilt

ASSUME ImAssumption ==
  /\ ImBits \in 2 .. 8 /\ ImRaw \subseteq 0 .. 2 ^ ImBits - 1 /\ 0 \in ImRaw
  /\ ImThreshold \in Nat /\ ImCap \in Nat /\ ImCap > ImThreshold /\ ImSettle \in Nat

VARIABLES
  imPc,      \* where main is
  imSet,     \* configuration writes tried, and those the device took
  imInit,    \* what init returned
  imDriver,  \* prev_words, still_count, and the still of the last sample
  imPitch,   \* the filter's pitch, in degrees
  imLeds,    \* the LEDs that are lit
  imSeen     \* history: the last read, and how often running it returned the same

imVars == <<imPc, imSet, imInit, imDriver, imPitch, imLeds, imSeen>>

CLAMP_MAX == 2 ^ (ImBits - 1) - 1
be_i16(u) == IF u > CLAMP_MAX THEN u - 2 ^ ImBits ELSE u
Nothing == [x |-> 0, g |-> FALSE]      \* a sleeping device reads all zeros
ConfigWrites == 5

ImInit ==
  /\ imPc = "init" /\ imSet = [tried |-> 0, taken |-> {}] /\ imInit = "none"
  /\ imDriver = [prev |-> {}, count |-> 0, still |-> FALSE] /\ imPitch = 0 /\ imLeds = {}
  /\ imSeen = [ok |-> TRUE, raw |-> Nothing, same |-> 0]

\* The end of a write: on to the next, or back to main.
Wrote(taken, on) ==
  /\ imSet' = [tried |-> imSet.tried + 1, taken |-> taken]
  /\ IF on /\ imSet'.tried < ConfigWrites THEN UNCHANGED <<imPc, imInit>>
     ELSE imPc' = "loop" /\ imInit' = IF on THEN "Ok" ELSE "Bus"

\* Mpu6050::init: the wake first, and out at the first write that fails.
MpuInit ==
  /\ imPc = "init"
  /\ Wrote(imSet.taken \cup {imSet.tried}, TRUE) \/ Wrote(imSet.taken, FALSE)
  /\ UNCHANGED <<imDriver, imPitch, imLeds, imSeen>>

\* sign_clamp with the sign of the pitch axis, -1.
sign_clamp(raw) ==
  LET v == -raw IN IF v > CLAMP_MAX THEN CLAMP_MAX ELSE IF v < -CLAMP_MAX THEN -CLAMP_MAX ELSE v

\* Mutant: the counter is stepped past its cap, and its type's.
StillCountWraps(count) == (count + 1) % (ImCap + 1)

StillCount(count) == IF count < ImCap THEN count + 1 ELSE count

\* decode: the counter runs while the corrected words repeat to the bit.
MpuDecode(s) ==
  LET words == [s EXCEPT !.x = sign_clamp(s.x)]
      count == IF imDriver.prev = {words} THEN StillCount(imDriver.count) ELSE 0
  IN [prev |-> {words}, count |-> count, still |-> count > ImThreshold]

\* Mahony::update at rest: a step towards the direction of gravity, none when
\* the accelerometer reads zero.
Towards(pitch, s) ==
  LET x == sign_clamp(s.x)
  IN CASE s.g /\ x > pitch -> pitch + 1 [] s.g /\ x < pitch -> pitch - 1 [] OTHER -> pitch

\* What a read finds: a device that sleeps answers as well.
Readings == IF 0 \notin imSet.taken THEN {Nothing} ELSE {[x |-> be_i16(u), g |-> TRUE] : u \in ImRaw}
SameCap == ImCap + ImSettle + 2

ReadOk ==
  /\ imPc = "loop"
  /\ \E s \in Readings :
       /\ imDriver' = MpuDecode(s) /\ imPitch' = Towards(imPitch, s)
       /\ imSeen' = [ok |-> TRUE, raw |-> s,
                     same |-> CASE s # imSeen.raw \/ imSeen.same = 0 -> 1
                                [] imSeen.same = SameCap -> SameCap
                                [] OTHER -> imSeen.same + 1]
  /\ imPc' = "first" /\ UNCHANGED <<imSet, imInit, imLeds>>

\* read returns the bus error with the driver as it was.
ReadFails ==
  /\ imPc = "loop" /\ imPc' = "first" /\ imSeen' = [imSeen EXCEPT !.ok = FALSE]
  /\ UNCHANGED <<imSet, imInit, imDriver, imPitch, imLeds>>

\* The LEDs main is about to show.
Shown ==
  CASE ~imSeen.ok -> {} [] imPitch < -2 -> {"green"} [] imPitch > 2 -> {"red"} [] OTHER -> {}

\* The two pin writes, green's first; then the delay.
Led(at, colour, next) ==
  /\ imPc = at /\ imPc' = next
  /\ imLeds' = (imLeds \ {colour}) \cup (Shown \cap {colour})
  /\ UNCHANGED <<imSet, imInit, imDriver, imPitch, imSeen>>

ImDelay == imPc = "delay" /\ imPc' = "loop" /\ UNCHANGED <<imSet, imInit, imDriver, imPitch, imLeds, imSeen>>

ImNext ==
  MpuInit \/ ReadOk \/ ReadFails \/ Led("first", "green", "second") \/ Led("second", "red", "delay") \/ ImDelay

ImSpec == ImInit /\ [][ImNext]_imVars

(***************************************************************************)
(* Properties                                                              *)
(***************************************************************************)
\* Types; init's Ok says that the device took the whole map, and a device that
\* was never woken moves neither the pitch nor an LED.
ImTypeOK ==
  /\ imPc \in {"init", "loop", "first", "second", "delay"}
  /\ imSet.tried \in 0 .. ConfigWrites /\ imSet.taken \subseteq 0 .. ConfigWrites - 1
  /\ imInit \in {"none", "Ok", "Bus"} /\ (imInit = "Ok" => imSet.taken = 0 .. ConfigWrites - 1)
  /\ imDriver.count \in 0 .. ImCap /\ imLeds \subseteq {"green", "red"}
  /\ imPitch \in -CLAMP_MAX .. CLAMP_MAX
  /\ 0 \notin imSet.taken => imPitch = 0 /\ imLeds = {}

\* A sample says still exactly when it repeats the ones before it more often
\* than the threshold: failed reads between them do not start the count again,
\* and it never lapses however long the board lies still.
StillHonest ==
  LET same(n) == imSeen.same > n
  IN /\ same(ImThreshold + 1) => imDriver.still
     /\ imDriver.still /\ ~same(ImThreshold + 1) => imSeen.raw.x <= -CLAMP_MAX

\* Once a round is shown, a board that has lain tilted as it lies long enough
\* for the filter lights the LED of that side alone, the whole range of the
\* axis over; and no LED is lit on the strength of a read that failed.
LedsFollow ==
  imPc = "delay" =>
    /\ ~imSeen.ok => imLeds = {}
    /\ imSeen.ok /\ imSeen.raw.g /\ imSeen.same > ImSettle =>
         imLeds = IF imSeen.raw.x < -2 THEN {"red"} ELSE IF imSeen.raw.x > 2 THEN {"green"} ELSE {}

\* What the tilt example promises: a reading is judged still only when it is,
\* and the LEDs follow the sign of the last estimate.
ImSafe ==
  /\ ImTypeOK
  /\ StillHonest
  /\ LedsFollow
==============================================================================
