CONSTANTS
  Slots = 2
  Frames = 2
  MaxZ = 3
  MaxOpens = 3
SPECIFICATION Spec
INVARIANTS DragSound InputLands ScreenCurrent
PROPERTIES ClosingEnds
