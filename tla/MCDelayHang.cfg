SPECIFICATION TkSpec
CONSTANTS
  TkReloadMax = 3
  TkHz = 6
  TkUnit = 5
  TkDurations = {0, 1, 2, 3, 4}
  TkRates = {0, 1, 2, 4, 6, 7}
  TkCalls = 6
PROPERTIES
  DelayReturns
CHECK_DEADLOCK FALSE
