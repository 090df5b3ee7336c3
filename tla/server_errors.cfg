\* One server is enough: its code is a server error's, its message the code's.
CONSTANTS
  LinesRead <- AllLines
  F64Bits = 3
  U64Bits = 5
  U128Bits = 7
  Hops = 1
  PublicCodes <- SomeCodes
  MaxTasks = 1
SPECIFICATION Spec
INVARIANTS
  ServerErrorsNamed
