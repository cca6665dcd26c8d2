SPECIFICATION Spec
CONSTANTS
  f = f
  g = g
  Dir = Dir
  Name <- Names
  TempName = {}
  Byte <- Bytes
  Rank <- NameRank
  BlockSize = 3
  Worlds <- ScanWorlds
  W <- Width
  Get <- Packed
INVARIANTS
  TypeOK
  RolledIsWritten
  WindowInFile
  EndsAsPatch
PROPERTIES
  ScansAsPatch
  Ends
CHECK_DEADLOCK FALSE
