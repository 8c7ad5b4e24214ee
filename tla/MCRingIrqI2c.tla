----------------------------- MODULE MCRingIrqI2c -----------------------------
(***************************************************************************)
(* The receive ring, the interrupt routing and the I2C master, checked     *)
(* side by side.  They share nothing; `part` says which one a behaviour is *)
(* about, the others stay in an initial state.                             *)
(***************************************************************************)
EXTENDS RxRing, IrqRoute, MCI2cMaster

VARIABLE part

MCByte == 0 .. 2

MCInit ==
  /\ part \in {"ring", "irq", "i2c"}
  /\ RrInit /\ IrInit /\ I2cInit
  /\ part # "irq" => irLayout = "F1x0Grouped"
  /\ part # "i2c" => held = 0

MCNext ==
  /\ UNCHANGED part
  /\ \/ part = "ring" /\ RrNext /\ UNCHANGED <<irVars, i2cVars>>
     \/ part = "irq" /\ IrNext /\ UNCHANGED <<rrVars, i2cVars>>
     \/ part = "i2c" /\ I2cNext /\ UNCHANGED <<rrVars, irVars>>

\* Each part under the fairness its module states.
MCFairness ==
  /\ WF_rrVars(part = "ring" /\ PushWrite)
  /\ WF_rrVars(part = "ring" /\ PushPublish)
  /\ WF_rrVars(part = "ring" /\ Pop)
  /\ WF_irVars(part = "irq" /\ Cpu)
  /\ WF_i2cVars(part = "i2c" /\ Driver)

MCSpec == MCInit /\ [][MCNext]_<<part, rrVars, irVars, i2cVars>> /\ MCFairness
==============================================================================
