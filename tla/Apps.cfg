CONSTANTS
  Names <- MCNames
  Cut <- MCCut
  Key <- MCKey
  Slots = {1, 2}
  MaxData = 3
  FolderKey = "SUB"
  Volume <- MCVolume
  Wins = {0, 1}
  BufSize = 5
  UndoSize = 3
  ClipSize = 3
  TokenSize = 3
  DefaultText <- MCDefault
  DefaultName = "notes"
  Chars = {"x", "LF"}
  Terms = {1}
  MaxLines = 3
  LineLen = 3
  ClipLen = 5
  PerLine = 1
  Visible = 2
  Words = {"clear", "echo", "help", "cat", "fatls", "fatmkdir", "fatrm", "fatrmdir", "sub", "A"}
  EditSteps = 6
  ShellSteps = 3
  ShareSteps = 4
SPECIFICATION Spec
CHECK_DEADLOCK FALSE
INVARIANTS EditorSound SavedIsKept TouchedIsFound Scrollback
