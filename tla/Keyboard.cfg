CONSTANTS
  Byte <- Scancodes
  Size = 4
  Keys <- MCKeys
  KeySize = 3
  MaxEvents = 4
SPECIFICATION Spec
INVARIANTS FaithfulTyping NoPhantomKeys ModifiersSettle
PROPERTIES ImplementsQueue KeysGetThrough
CHECK_DEADLOCK FALSE
