SPECIFICATION MCSpec
CONSTANTS
  E = E
  W = W
  c1 = c1
  c2 = c2
  SsKinds <- MCKinds
  SsChars = 2
  SsFaults = 4
  SsEvents = 5
  SsCap = 1
  SsBytes = 2
  SsBufs = {1, 2}
  SsDmaBuf = 2
  SsBudget = 1
  LapLen = 2
  LapWords = 3
  LapSlices = {1, 3}
  LapBytes = 7
  ERASED = E
  FlashPages = 2
  PageCells = 4
  CallAddrs <- MCAddrs
  BusyTimeout = 2
  Words <- MCWords
  Payloads <- MCPayloads
  Protected <- MCProtected
  Channels = {c1, c2}
  Ranks = {0, 1}
  AdcPolls = 2
  LateBringUp = FALSE
  CmDirections = {"Forward"}
  CmOffsets = {1}
  CmDuties = {2, 4}
  CmPeriod = 3
  CmMoves = 1
  PnPins = {8, 13, 22, 23}
  PnParts <- MCParts
  PnCalls = 4
  PrParts <- MCSilicon
  PrBody <- MCBody
  PrCalls = 1
  PrUses = {"Adc1"}
  CkProfiles <- MCProfiles
  CkBudget = 1
  CkCalls = 2
  CkBauds = {9600, 115200}
  CkPrograms = 2
  WdRequests = {0, 1, 410, 819, 8000, 26214, 26215, 30000}
  WdStep = 1000
  WdPolls = 2
  WdResets = 2
  SpWords = 3
  SpLengths = {0, 2}
  SpPolls = 2
  SpBringUps = 2
  SpBuses <- MCBuses
  SpTargets = {100000, 36000000}
  TkReloadMax = 3
  TkHz = 6
  TkUnit = 5
  TkDurations = {0, 1, 2, 3, 4}
  TkRates = {0, 1, 2, 4, 6, 7}
  TkCalls = 6
  PwMaxCar = 5
  PwClock = 12
  PwFreqs = {0, 1, 3, 5, 12}
  PwDuties = {0, 1, 2, 9}
  PwCalls = 3
  r1 = r1
  r2 = r2
  PtLayouts = {"F1x0Grouped", "F10xSeparate"}
  PtRings = {r1, r2}
  PtNone = PtNone
  PtCalls = 9
  BnImages = {"pair", "serial", "single", "remap"}
  BnSkew = 8
  BnGap = 12
  BnDrops = 1
  PlPeriod = 2
  PlCompares = {0, 2, 3}
  PlGroups <- MCGroups
  PlCalls = 3
  CpRuns = 2
  ImBits = 3
  ImRaw = {0, 3, 4, 5}
  ImThreshold = 2
  ImCap = 3
  ImSettle = 6
  LkSends = 3
  LkPeriod = 1
  LkFaults = 1
  BgClocks <- MCClocks
  BgModes <- MCModes
  BgBauds = {9600, 115200, 460800}
  BgLens = {0, 1, 27, 100}
  MvLayouts = {"F1x0Grouped", "F10xSeparate"}
PROPERTIES
  ClearsOnlyEoic
CHECK_DEADLOCK FALSE
