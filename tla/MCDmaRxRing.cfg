SPECIFICATION FairSpec
CONSTANTS
  L = 3
  MaxBytes = 6
  ReadSizes <- MCReadSizes
INVARIANTS
  DmaRxSafe
PROPERTIES
  OverrunExact
  EveryByteAccounted
