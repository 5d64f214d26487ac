CONSTANTS
  Byte <- Bytes256
  Size = 4
  Width = 16
  Height = 8
  Reports <- MCReports
  KeyCodes = {30}
  MaxReports = 3
  MaxStrokes = 1
SPECIFICATION Spec
INVARIANTS PointerFaithful ResyncsAfterLoss DevicesStayOn
CHECK_DEADLOCK FALSE
