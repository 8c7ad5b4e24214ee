SPECIFICATION UrSpec
CONSTANTS
  Families <- F10xOnly
  Drivers <- BufferedOnly
  Capacity = 2
  MaxBytes = 3
INVARIANTS
  NoSilentLoss
