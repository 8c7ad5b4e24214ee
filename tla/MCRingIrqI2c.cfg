SPECIFICATION MCSpec
CONSTANTS
  N = 3
  RrMaxBytes = 5
  Byte <- MCByte
  IrLayouts = {"F1x0Grouped", "F10xSeparate"}
  IrPorts = {"Usart0"}
  Calls <- MCCalls
  PollBudget = 3
  IdleBudget = 2
  MaxPulses = 1
  BusErrors = {"BERR"}
  StopMidModify = FALSE
INVARIANTS
  RrSafe
  IrSafe
  I2cSafe
PROPERTIES
  ImplementsFifo
  EveryByteDelivered
  PeriodServed
  I2cSteps
  CallReturns
CHECK_DEADLOCK FALSE
