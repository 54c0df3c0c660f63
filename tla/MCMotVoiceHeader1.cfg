CONSTANTS
  h1 = h1
  h2 = h2
  Objects <- MCObjects
  LENGTH = 30
  HCW_LENGTH = 21
  Frames <- MCFrames
  Garbage <- MCGarbage
  Zero <- MCZero
  MOT_VHDR_1 = MOT_VHDR_1
  DIU = DIU
  INVALID = INVALID
  QUANTAR = QUANTAR
SPECIFICATION Spec
INVARIANTS
  TypeOK
PROPERTIES
  EncodeReproducesDecoded
