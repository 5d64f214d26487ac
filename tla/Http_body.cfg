CONSTANTS
  MaxCalls = 2
  Ports = {p1, p2}
  NoPort = none
  Pages <- ThePages
  CRLF2 = "rn"
  LF2 = "n"
  Mod = 16
  ServerISS = {14, 6}
  AsmMax = 5
  Margin = 2
  OutCap = 3
SYMMETRY AnyPort
SPECIFICATION Spec
INVARIANTS RightPage AckedIsKept
CHECK_DEADLOCK FALSE
