SPECIFICATION Spec
CONSTANTS
  L = 3
  MaxBytes = 5
  ReadSizes <- MCReadSizes
INVARIANTS
  DeliveredIntact
