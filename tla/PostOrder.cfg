SPECIFICATION Spec
CONSTANTS
  a = a
  b = b
  c = c
  Dir = Dir
  Name <- Names
  Byte <- Bytes
  Rank <- NameRank
  Walks <- SmallWalks
INVARIANT InPostOrder
PROPERTY VisitsAll
CHECK_DEADLOCK FALSE
