CONSTANTS
  Windows = {w1, w2}
  Docs = {"a"}
  NewNames <- MCNew
  RenNames <- MCRen
  DupNames <- MCDup
  Typed = {"a", "DESKTOP"}
  Texts = {t1, t2}
  Startup = startup
  NoText = none
  Scan = 4
  Size = 5
  MaxDirs = 5
  MaxChanges = 2
SYMMETRY AnyText
SPECIFICATION FilesSpec
INVARIANTS NoOwnStale
PROPERTIES FilesSurvive
CHECK_DEADLOCK FALSE
