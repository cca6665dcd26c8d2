SPECIFICATION CrashSpec
CONSTANTS
  a = a
  b = b
  f = f
  g = g
  t1 = t1
  t2 = t2
  t3 = t3
  Dir = Dir
  Name <- Names
  TempName <- TempNames
  Byte <- Bytes
  Rank <- NameRank
  BlockSize = 2
  Weak <- ParityWeak
  Worlds <- CrashWorlds
  MaxRuns = 2
INVARIANT RerunMirrors
PROPERTIES
  CrashKeepsOldOrNew
  CrashKeepsMatched
CHECK_DEADLOCK FALSE
