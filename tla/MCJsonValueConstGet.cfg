CONSTANTS
  x = x
  y = y
  b1 = b1
  b2 = b2
  Slots <- MCSlots
  Buffers = {b1, b2}
  MaxItems = 1
  Doubles <- MCRefusedDoubles
  Ints = {"-1"}
  Strs <- MCCtrlStr
  KeyOrder <- MCQuoteKey
  Narrowed = {"int32"}
  AliasingCalls = FALSE
SPECIFICATION Spec
PROPERTIES ConstGetPreservesEquality
