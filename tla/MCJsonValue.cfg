CONSTANTS
  x = x
  y = y
  b1 = b1
  b2 = b2
  Slots <- MCSlots
  Buffers = {b1, b2}
  MaxItems = 2
  Doubles <- MCLargeDouble
  Ints = {}
  Strs <- MCCtrlStr
  KeyOrder <- MCQuoteKey
  Narrowed = {"float"}
  AliasingCalls = FALSE
SPECIFICATION Spec
SYMMETRY MCSymmetry
INVARIANTS TypeOK MemorySafe SerializesToDocument
PROPERTIES ValueSemantics
