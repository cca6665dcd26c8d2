SPECIFICATION Spec
CONSTANTS
  a = a
  b = b
  c = c
  Dir = Dir
  Name <- Names
  TempName = {}
  Byte <- Bytes
  Moves <- SmallMoves
INVARIANTS
  SourceSafe
  RestUntouched
  ReturnsTruth
  MovesAsPatch
CHECK_DEADLOCK FALSE
