CONSTANTS
  Slots = 4
  Frames = 0
  MaxZ = 5
  MaxOpens = 3
SPECIFICATION Spec
PROPERTIES OpensInNotepad
