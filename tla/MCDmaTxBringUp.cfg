SPECIFICATION Spec
CONSTANTS
  p1 = p1
  p2 = p2
  a = a
  b = b
  Port <- TwoPorts
  Frame <- OneFrame
  BufLen = 2
  PerByte = 1
  W = 4
  MaxTimeouts = 1
  MaxNew = 2
  LateBringUp = TRUE
PROPERTIES
  NoEarlyAbandon
