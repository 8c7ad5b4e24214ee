SPECIFICATION MCSpec
CONSTANTS
  Families = {"F1x0", "F10x"}
  Drivers = {"buffered", "ring"}
  Capacity = 2
  MaxBytes = 3
  PsFamilies = {"F10x", "F1x0"}
  PsChars = 3
  PsBytes = 2
  PsBufs = {1, 2}
  PsBudget = 1
  PsCounterMax = 2
  p1 = p1
  p2 = p2
  a = a
  b = b
  Port <- OnePort
  Frame <- Frames
  BufLen = 2
  PerByte = 1
  W = 4
  MaxTimeouts = 2
  MaxNew = 2
  LateBringUp = FALSE
INVARIANTS
  UrSafe
  PsSafe
  DmaTxSafe
PROPERTIES
  LineReleased
  PsNeverStrands
  DmaTxSteps
  PortNeverSilent
CHECK_DEADLOCK FALSE
