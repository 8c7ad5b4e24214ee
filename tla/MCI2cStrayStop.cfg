SPECIFICATION I2cSpec
CONSTANTS
  Calls <- MCCalls
  PollBudget = 3
  IdleBudget = 2
  MaxPulses = 1
  BusErrors = {"BERR"}
  StopMidModify = TRUE
PROPERTIES
  FreshStart
