CONSTANTS
  NumClusters = 3
  SlotsPerCluster = 2
  NumFats = 2
  Names = {a, b}
  Data = {x, y}
  MaxLen = 2
  DirScanMax = 3
  FreeStepMax = 3
  FsInfo = 2
  CountMax = 5
  Calls = {"mkdir", "write", "copy", "unlink", "rmdir"}
  MaxFaults = 1
  ReadDirMax = 3
  FindMax = 6
  Junk = Junk
  NoName = NoName
SYMMETRY Sym
SPECIFICATION Undisturbed
INVARIANTS ReadersAgree
PROPERTIES ImplementsVolume OnlyCopyMakesTwins
