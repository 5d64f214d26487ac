CONSTANTS
  Byte <- Bytes256
  Size = 4
  Width = 16
  Height = 8
  Reports <- MCReports
  KeyCodes = {30}
  MaxReports = 2
  MaxStrokes = 1
  MaxCalls = 1
  Ports = {p1}
  NoPort = none
  Pages <- ThePages
  CRLF2 = "rn"
  LF2 = "n"
  Mod = 16
  ServerISS = {14, 6}
  AsmMax = 8
  Margin = 2
  OutCap = 3
SPECIFICATION Spec
PROPERTIES PointerSettles PageArrives
CHECK_DEADLOCK FALSE
