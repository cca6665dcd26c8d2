SPECIFICATION Spec
CONSTANTS
  a = a
  b = b
  top = top
  Dir = Dir
  Name <- Names
  TempName = {}
  Byte <- Bytes
  Rank <- NameRank
  BlockSize = 2
  Weak <- ParityWeak
  Inputs <- SmallInputs
INVARIANTS
  TypeOK
  ClosedAfterLastError
  NoErrorLost
  NodesInPlace
  StrongsRight
  LookupsByPath
  LookupsAsPlanned
PROPERTIES
  Returns
  KeepsPromise
CHECK_DEADLOCK FALSE
