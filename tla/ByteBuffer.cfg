CONSTANTS
  Size = 4
  B = 2
  ShortBytes = 1
  IntBytes = 1
  LongBytes = 2
  Chunks <- MCChunks
  VarInts <- MCVarInts
  Strings <- MCStrings
SPECIFICATION Spec
INVARIANTS WrittenIntsDecode
PROPERTIES ImplementsByteFifo
