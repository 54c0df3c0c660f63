CONSTANTS
  InfoWords <- MCInfoWords
  MaxBitErrors <- MCMaxBitErrors
SPECIFICATION Spec
INVARIANTS CorrectsRatedErrors NoFartherThanSent
