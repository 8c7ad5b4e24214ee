SPECIFICATION UrSpec
CONSTANTS
  Families <- F1x0Only
  Drivers <- RingOnly
  Capacity = 1
  MaxBytes = 3
INVARIANTS
  NoDeadEntry
