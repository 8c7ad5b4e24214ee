-------------------------------- MODULE Fmc --------------------------------
(***************************************************************************)
(* The flash driver of fmc.rs: erase_page and program, the RAM-resident    *)
(* sequences they run with interrupts off, and the controller they drive.  *)
(*                                                                         *)
(* The unit of address is the halfword, counted from FLASH_BASE; whether a *)
(* byte address and a length are multiples of two is an input of its own.  *)
(* Names begin with Fmc where another component has the same idea.         *)
(***************************************************************************)
EXTENDS Integers, Sequences, FiniteSets

CONSTANTS
    FlashPages,     \* number of pages
    PageCells,      \* halfwords of a page
    Words,          \* the halfwords a program call may carry, ERASED among them
    ERASED,         \* 0xFFFF
    CallAddrs,      \* the addresses given to erase_page and program
    Payloads,       \* the slices given to program, as sequences of halfwords
    Protected,      \* the sets of write-protected pages a board may have
    BusyTimeout     \* FMC_BUSY_TIMEOUT, in polls

ASSUME FmcAssumption ==
    /\ FlashPages \in Nat \ {0} /\ PageCells \in Nat \ {0} /\ BusyTimeout \in Nat \ {0}
    /\ CallAddrs \subseteq Int /\ ERASED \in Words /\ Payloads \subseteq Seq(Words)
    /\ Protected \subseteq SUBSET (0 .. FlashPages - 1)

FlashEnd == FlashPages * PageCells
Cells    == 0 .. FlashEnd - 1
PageOf(a)    == a \div PageCells
PageSet(p)   == {a \in Cells : PageOf(a) = p}
InFlash(a, n)  == a >= 0 /\ a + n <= FlashEnd
SamePage(a, b) == PageOf(a) = PageOf(b)

VARIABLES
    flash,      \* the cells
    wp,         \* the protected pages
    lk,         \* the lock: "locked", "half" (after KEY1), "open" or "jammed"
    fmcCtl,     \* FMC_CTL without LK
    stat,       \* FMC_STAT without BUSY
    busy,       \* the cells the running operation changes, and what they become
    primask,    \* interrupts are masked
    op,         \* the call in progress
    fpc         \* the statement it is at

FmcVars == <<flash, wp, lk, fmcCtl, stat, busy, primask, op, fpc>>

NoOp  == [kind |-> "none", addr |-> 0, data |-> <<>>, k |-> 0, left |-> 0,
          worst |-> {}, mask |-> FALSE, res |-> "Ok"]
Idle  == [c \in {} |-> ERASED]
FmcFlags == {"ENDF", "WPERR", "PGERR"}
Results == {"Ok", "BadArg", "NotErased", "Closed", "Timeout", "WriteProtect",
            "ProgramError", "Lost"}

FmcInit ==
    /\ flash \in [Cells -> {ERASED}] /\ wp \in Protected
    /\ lk = "locked" /\ fmcCtl = {} /\ stat = {} /\ busy = Idle
    /\ primask \in BOOLEAN
    /\ op = NoOp /\ fpc = "idle"

(***************************************************************************)
(* The controller                                                          *)
(***************************************************************************)
Closed(a) == a % 2 = 1 /\ SamePage(a, a + 1) /\ a + 1 \in Cells /\ flash[a + 1] # ERASED

Refuses(a) == flash[a] # ERASED \/ Closed(a)

\* An operation completes, however late.
FmcFinish ==
    /\ busy # Idle
    /\ flash' = [a \in Cells |-> IF a \in DOMAIN busy THEN busy[a] ELSE flash[a]]
    /\ busy' = Idle /\ stat' = stat \cup {"ENDF"}
    /\ UNCHANGED <<wp, lk, fmcCtl, primask, op, fpc>>

KeyWrite(k) == CASE lk = "locked" /\ k = "KEY1" -> "half"
                 [] lk = "half" /\ k = "KEY2"   -> "open"
                 [] OTHER -> "jammed"

\* FMC_CTL takes a value only while it is not locked.
CtlWrite(v) == fmcCtl' = IF lk = "open" THEN v ELSE fmcCtl

\* What a store to a set of cells, or START, begins.
Begin(change, refused) ==
    IF \E a \in DOMAIN change : PageOf(a) \in wp
    THEN stat' = stat \cup {"WPERR"} /\ UNCHANGED busy
    ELSE IF refused THEN stat' = stat \cup {"PGERR"} /\ UNCHANGED busy
    ELSE busy' = change /\ UNCHANGED stat

(***************************************************************************)
(* The calls. Code outside the RAM-resident section is fetched from flash, *)
(* so it runs only while no operation does.                                *)
(***************************************************************************)
Fetch(s) == fpc = s /\ busy = Idle

Span(o) == {o.addr + i : i \in 0 .. Len(o.data) - 1}

Done(o, r) == [NoOp EXCEPT !.kind = o.kind, !.addr = o.addr, !.data = o.data, !.res = r]

Answer(o, r) == op' = Done(o, r) /\ fpc' = "idle"

Enter(o) == op' = [o EXCEPT !.mask = primask] /\ fpc' = "mask"

ErasePage(a, aligned) ==
    LET o == [NoOp EXCEPT !.kind = "erase", !.addr = a] IN
    /\ Fetch("idle")
    /\ IF ~aligned \/ ~InFlash(a, PageCells) \/ a % PageCells # 0
       THEN Answer(o, "BadArg") ELSE Enter(o)
    /\ UNCHANGED <<flash, wp, lk, fmcCtl, stat, busy, primask>>

\* Mutant: the closed-halfword rule reaches across a page boundary.
PreCheckAcross(a, n) ==
    CASE \E i \in 0 .. n - 1 : flash[a + i] # ERASED -> "NotErased"
      [] a + n \in Cells /\ flash[a + n] # ERASED -> "Closed"
      [] OTHER -> "Ok"

PreCheck(a, n) ==
    LET last == a + n - 1 IN
    CASE \E i \in 0 .. n - 1 : flash[a + i] # ERASED -> "NotErased"
      [] last % 2 = 1 /\ SamePage(last, last + 1) /\ flash[last + 1] # ERASED -> "Closed"
      [] OTHER -> "Ok"

Program(a, d, aligned) ==
    LET o == [NoOp EXCEPT !.kind = "program", !.addr = a, !.data = d] IN
    /\ Fetch("idle")
    /\ CASE d = <<>> -> Answer(o, "Ok")
         [] d # <<>> /\ (~aligned \/ ~InFlash(a, Len(d))) -> Answer(o, "BadArg")
         [] OTHER -> IF PreCheck(a, Len(d)) = "Ok" THEN Enter(o)
                     ELSE Answer(o, PreCheck(a, Len(d)))
    /\ UNCHANGED <<flash, wp, lk, fmcCtl, stat, busy, primask>>

(***************************************************************************)
(* critical, erase_ram, program_ram and wait_ram, one access per action    *)
(***************************************************************************)
Goto(s) == fpc' = s /\ UNCHANGED op

Mask ==
    /\ Fetch("mask") /\ primask' = TRUE /\ Goto("unlock")
    /\ UNCHANGED <<flash, wp, lk, fmcCtl, stat, busy>>

Unlock ==
    /\ fpc = "unlock" /\ Goto(IF lk = "open" THEN "mode" ELSE "key1")
    /\ UNCHANGED <<flash, wp, lk, fmcCtl, stat, busy, primask>>

WriteKey ==
    /\ fpc \in {"key1", "key2"}
    /\ lk' = KeyWrite(IF fpc = "key1" THEN "KEY1" ELSE "KEY2")
    /\ Goto(IF fpc = "key1" THEN "key2" ELSE "mode")
    /\ UNCHANGED <<flash, wp, fmcCtl, stat, busy, primask>>

Mode ==
    /\ fpc = "mode"
    /\ CtlWrite(IF op.kind = "erase" THEN {"PER"} ELSE {"PG"})
    /\ Goto(IF op.kind = "erase" THEN "start" ELSE "store")
    /\ UNCHANGED <<flash, wp, lk, stat, busy, primask>>

Wait == fpc' = "wait" /\ op' = [op EXCEPT !.left = BusyTimeout]

\* The page address and CTL_PER | CTL_START.
Start ==
    /\ fpc = "start"
    /\ IF "PER" \in fmcCtl /\ lk = "open"
       THEN Begin([a \in PageSet(PageOf(op.addr)) |-> ERASED], FALSE)
       ELSE UNCHANGED <<busy, stat>>
    /\ Wait
    /\ UNCHANGED <<flash, wp, lk, fmcCtl, primask>>

\* The halfword store; the bus holds it while an operation runs.
Store ==
    LET a == op.addr + op.k IN
    /\ Fetch("store")
    /\ IF "PG" \in fmcCtl
       THEN Begin([c \in {a} |-> op.data[op.k + 1]], Refuses(a))
       ELSE UNCHANGED <<busy, stat>>
    /\ Wait
    /\ UNCHANGED <<flash, wp, lk, fmcCtl, primask>>

PollBusy ==
    /\ fpc = "wait" /\ busy # Idle /\ op.left > 1
    /\ op' = [op EXCEPT !.left = @ - 1]
    /\ UNCHANGED <<flash, wp, lk, fmcCtl, stat, busy, primask, fpc>>

\* The last poll, with BUSY clear or the budget spent: the flags are cleared.
PollEnd ==
    LET late == busy # Idle
        more == op.kind = "program" /\ op.k + 1 < Len(op.data) IN
    /\ fpc = "wait" /\ (late => op.left = 1)
    /\ op' = [op EXCEPT !.worst = @ \cup stat \cup (IF late THEN {"TIMEOUT"} ELSE {}),
                        !.k = @ + 1]
    /\ fpc' = IF more THEN "store" ELSE "end"
    /\ stat' = {}
    /\ UNCHANGED <<flash, wp, lk, fmcCtl, busy, primask>>

End ==
    /\ fpc = "end" /\ CtlWrite({}) /\ Goto("unmask")
    /\ UNCHANGED <<flash, wp, lk, stat, busy, primask>>

Unmask ==
    /\ fpc = "unmask" /\ primask' = op.mask /\ Goto("return")
    /\ UNCHANGED <<flash, wp, lk, fmcCtl, stat, busy>>

Decode(w) == CASE "TIMEOUT" \in w -> "Timeout"
               [] "WPERR" \in w /\ "TIMEOUT" \notin w -> "WriteProtect"
               [] "PGERR" \in w /\ {"TIMEOUT", "WPERR"} \cap w = {} -> "ProgramError"
               [] OTHER -> "Ok"

FmcReturn ==
    /\ Fetch("return") /\ Answer(op, Decode(op.worst))
    /\ UNCHANGED <<flash, wp, lk, fmcCtl, stat, busy, primask>>

\* Power fails at any moment: the flash keeps what it has, with or without
\* the operation in flight.
PowerLoss ==
    /\ flash' \in {flash, [a \in Cells |-> IF a \in DOMAIN busy THEN busy[a] ELSE flash[a]]}
    /\ lk' = "locked" /\ fmcCtl' = {} /\ stat' = {} /\ busy' = Idle
    /\ primask' = FALSE
    /\ op' = (IF fpc = "idle" THEN op ELSE Done(op, "Lost")) /\ fpc' = "idle"
    /\ UNCHANGED wp

FmcStep == Mask \/ Unlock \/ WriteKey \/ Mode \/ Start \/ Store \/ PollBusy
           \/ PollEnd \/ End \/ Unmask \/ FmcReturn

FmcNext ==
    \/ \E a \in CallAddrs : \/ ErasePage(a, TRUE)
                            \/ \E d \in Payloads : Program(a, d, TRUE)
    \/ ErasePage(0, FALSE) \/ \E d \in Payloads : Program(0, d, FALSE)
    \/ FmcStep \/ FmcFinish \/ PowerLoss

FmcSpec == FmcInit /\ [][FmcNext]_FmcVars

(***************************************************************************)
(* Properties                                                              *)
(***************************************************************************)
\* Every variable keeps its type.
FmcTypeOK ==
    /\ flash \in [Cells -> Words] /\ wp \subseteq 0 .. FlashPages - 1
    /\ lk \in {"locked", "half", "open", "jammed"}
    /\ fmcCtl \in {{}, {"PG"}, {"PER"}} /\ stat \subseteq FmcFlags
    /\ DOMAIN busy \subseteq Cells /\ busy \in [DOMAIN busy -> Words]
    /\ primask \in BOOLEAN
    /\ op \in [kind : {"none", "erase", "program"}, addr : CallAddrs \cup {0}, data : Payloads \cup {<<>>},
               k : Nat, left : 0 .. BusyTimeout, worst : SUBSET (FmcFlags \cup {"TIMEOUT"}),
               mask : BOOLEAN, res : Results]
    /\ fpc \in {"idle", "mask", "unlock", "key1", "key2", "mode", "start", "store", "wait",
                "end", "unmask", "return"}

\* The pre-check of program front-runs every refusal of the controller: no
\* halfword it lets through is programmed twice or is closed by its successor,
\* whatever calls, timeouts and power failures came before.
NoPgerr == "PGERR" \notin stat /\ op.res # "ProgramError"

\* What program refuses, the controller would have refused.
RefusalJustified ==
    (fpc = "idle" /\ op.res \in {"NotErased", "Closed"}) => \E a \in Span(op) : Refuses(a)

\* A call that returned Ok did what it was asked: the page is erased, or the
\* span holds the bytes.
OkMeansDone ==
    (fpc = "idle" /\ op.res = "Ok") =>
        /\ op.kind = "erase" => \A a \in PageSet(PageOf(op.addr)) : flash[a] = ERASED
        /\ op.kind = "program" =>
            \A i \in 1 .. Len(op.data) : flash[op.addr + i - 1] = op.data[i]

\* WriteProtect is reported for a page that is protected, never for the flag
\* an earlier call left behind.
ErrorHonest ==
    (fpc = "idle" /\ op.res = "WriteProtect") =>
        \/ PageOf(op.addr) \in wp
        \/ \E a \in Span(op) : PageOf(a) \in wp

\* Outside protected pages what a program call has written is at every moment
\* a prefix of its slice, so that a commit word at the highest address never
\* lands before what it commits.
PrefixLanded ==
    /\ op.kind = "program"
    /\ op.res \in {"Ok", "Timeout", "Lost"}
    /\ \A a \in Span(op) : PageOf(a) \notin wp
    => \A i, j \in 1 .. Len(op.data) :
        (i < j /\ flash[op.addr + j - 1] # ERASED) => flash[op.addr + i - 1] = op.data[i]

\* While the controller works interrupts are off, but for an operation that
\* outlived its poll budget.
FetchSafe ==
    (busy # Idle /\ ~primask) => (fpc = "return" /\ "TIMEOUT" \in op.worst)

\* What erase_page and program promise: no halfword programmed twice, no
\* refusal without a reason, an Ok that was done, an error that was one, a
\* prefix of the payload after a failure, and no fetch from busy flash.
FmcSafe ==
  /\ FmcTypeOK
  /\ NoPgerr
  /\ RefusalJustified
  /\ OkMeansDone
  /\ ErrorHonest
  /\ PrefixLanded
  /\ FetchSafe
=============================================================================
