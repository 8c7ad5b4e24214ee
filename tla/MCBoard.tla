------------------------------- MODULE MCBoard -------------------------------
(***************************************************************************)
(* The components without a liveness property, checked side by side.  They *)
(* share nothing: `part` says which one a behaviour is about, and the      *)
(* others stay in an initial state.                                        *)
(***************************************************************************)
EXTENDS SplitSerial, DmaLap, Fmc, Adc, Commutation, Pins, Probe, ClockTree, Watchdog,
        Spi, Ticks, PwmOut, Ports, BenchLink, PeriodLoop, Coldpath, ImuTilt, Links, Budgets, MotorVerify

CONSTANTS E, W      \* the erased halfword and a written one
CONSTANTS c1, c2    \* ADC channels
CONSTANTS r1, r2    \* receive rings

VARIABLE part

MCWords == {E, W}
MCPayloads == {<<>>, <<E, W>>, <<W, W, W>>}
MCAddrs == {-1, 0, 3, 4, 7}
MCProtected == {{}, {0}, {1}}
MCParts == {[crl |-> TRUE, timers |-> 1], [crl |-> FALSE, timers |-> 1],
            [crl |-> TRUE, timers |-> 2]}
MCBlank == [family |-> "none", kib |-> 64, page |-> 1, units |-> {}]
MCSilicon ==
  {MCBlank, [family |-> "F1x0", kib |-> 64, page |-> 1, units |-> {"I2c1"}],
   [family |-> "F10x", kib |-> 64, page |-> 1, units |-> {"Adc1", "I2c1", "Usart2"}],
   [family |-> "F10x", kib |-> 256, page |-> 2, units |-> {"Timer7", "Adc1", "Adc2", "I2c1", "Usart2"}]}
MCBody == <<4, 2, 2>>   \* ldr.w; mov; bx lr
Mhz(s, source, mul, ahb, apb1, apb2) ==
  [sysclk |-> s * 1000000, source |-> source, mul |-> mul, ahb |-> ahb, apb1 |-> apb1, apb2 |-> apb2]
MCProfiles ==
  {Mhz(72, "Irc8m", 18, 1, 2, 1), Mhz(72, "Hxtal", 9, 1, 2, 1), Mhz(64, "Irc8m", 16, 2, 2, 1),
   Mhz(108, "Irc8m", 27, 1, 4, 2), Mhz(8, "Irc8m", 2, 1, 1, 1), Mhz(68, "Irc8m", 17, 1, 2, 2),
   Mhz(132, "Irc8m", 33, 1, 2, 1), Mhz(72, "Irc8m", 18, 32, 2, 1)}
MCBuses ==
  {[sysclk |-> 72000000, ahb |-> 1, apb2 |-> 1], [sysclk |-> 8000000, ahb |-> 1, apb2 |-> 2]}
MCKinds == {[rx |-> "ring", tx |-> "polled"], [rx |-> "dma", tx |-> "dma"]}
MCGroups == {<< >>, <<<<16, 2>>, <<10, 3>>, <<16, 5>>>>, [i \in 1 .. 5 |-> <<i, 1>>]}
MCClocks == [sysclk : {500000, 1000000, 1999999, 2999999, 8000000, 36000000, 72000000, 108000000},
             ahb : {0, 1, 2}, apb1 : {1, 2}]
MCModes == [speed : {1000, 5000, 99000, 100000, 100001, 400000}, duty : {"Two", "SixteenNine"}]

\* Where a component has several initial states, the others keep one.
Fixed(p, choice) == part # p => choice

MCInit ==
  /\ part \in {"serial", "lap", "flash", "adc", "motor", "pins", "boot", "clock", "watchdog",
              "spi", "ticks", "pwm", "ports", "bench", "period", "cold", "tilt", "links", "budget",
              "verify"}
  /\ SsInit /\ Fixed("serial", ssKind.rx = "ring")
  /\ LapInit
  /\ FmcInit /\ Fixed("flash", wp = {} /\ ~primask)
  /\ AdcInit /\ Fixed("adc", rank0 = c1)
  /\ CmInit
  /\ Fixed("motor", cmStep = CHOOSE s \in [direction : CmDirections, offset : {o % 6 : o \in CmOffsets}] : TRUE)
  /\ PnInit /\ Fixed("pins", pnPart = [crl |-> TRUE, timers |-> 1])
  /\ PrInit
  /\ Fixed("boot", prPart = [is |-> MCBlank, absent |-> "zero", stacks |-> "load"] /\ ~prApp.busfault)
  /\ CkInit /\ Fixed("clock", ckTarget = [path |-> "F1x0", profile |-> Mhz(72, "Irc8m", 18, 1, 2, 1)])
  /\ WdInit /\ Fixed("watchdog", wdReq = 8000)
  /\ SpInit /\ TkInit /\ PwInit
  /\ PtInit /\ Fixed("ports", ptLayout = "F10xSeparate")
  /\ BnInit /\ Fixed("bench", bnImage = "pair" /\ \A b \in BnBoards : bnCpu[b].wait = 0)
  /\ PlInit
  /\ CpInit /\ ImInit
  /\ LkInit /\ Fixed("links", lkImage = "counter")
  /\ BgInit /\ Fixed("budget", bgClock = [sysclk |-> 72000000, ahb |-> 1, apb1 |-> 2])
  /\ MvInit /\ Fixed("verify", mvLayout = "F1x0Grouped" /\ mvTimer = [clocked |-> FALSE, regs |-> Zero])

MCNext ==
  /\ UNCHANGED part
  /\ \/ part = "serial" /\ SsNext
     \/ part = "lap" /\ LapNext
     \/ part = "flash" /\ FmcNext
     \/ part = "adc" /\ AdcNext
     \/ part = "motor" /\ CmNext
     \/ part = "pins" /\ PnNext
     \/ part = "boot" /\ PrNext
     \/ part = "clock" /\ CkNext
     \/ part = "watchdog" /\ WdNext
     \/ part = "spi" /\ SpNext
     \/ part = "ticks" /\ TkNext
     \/ part = "pwm" /\ PwNext
     \/ part = "ports" /\ PtNext
     \/ part = "bench" /\ BnNext
     \/ part = "period" /\ PlNext
     \/ part = "cold" /\ CpNext
     \/ part = "tilt" /\ ImNext
     \/ part = "links" /\ LkNext
     \/ part = "budget" /\ BgNext
     \/ part = "verify" /\ MvNext
  /\ part # "serial" => UNCHANGED ssVars
  /\ part # "lap" => UNCHANGED lapVars
  /\ part # "flash" => UNCHANGED FmcVars
  /\ part # "adc" => UNCHANGED AdcVars
  /\ part # "motor" => UNCHANGED cmVars
  /\ part # "pins" => UNCHANGED pnVars
  /\ part # "boot" => UNCHANGED prVars
  /\ part # "clock" => UNCHANGED ckVars
  /\ part # "watchdog" => UNCHANGED wdVars
  /\ part # "spi" => UNCHANGED spVars
  /\ part # "ticks" => UNCHANGED tkVars
  /\ part # "pwm" => UNCHANGED pwVars
  /\ part # "ports" => UNCHANGED ptVars
  /\ part # "bench" => UNCHANGED bnVars
  /\ part # "period" => UNCHANGED plVars
  /\ part # "cold" => UNCHANGED cpVars
  /\ part # "tilt" => UNCHANGED imVars
  /\ part # "links" => UNCHANGED lkVars
  /\ part # "budget" => UNCHANGED bgVars
  /\ part # "verify" => UNCHANGED mvVars

MCSpec == MCInit /\ [][MCNext]_<<part, ssVars, lapVars, FmcVars, AdcVars, cmVars, pnVars, prVars,
                                ckVars, wdVars, spVars, tkVars, pwVars, ptVars, bnVars, plVars,
                                cpVars, imVars, lkVars, bgVars, mvVars>>
==============================================================================
