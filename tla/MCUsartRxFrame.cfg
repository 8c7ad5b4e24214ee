SPECIFICATION UrSpec
CONSTANTS
  Families <- F1x0Only
  Drivers <- BufferedOnly
  Capacity = 2
  MaxBytes = 3
PROPERTIES
  FrameComplete
