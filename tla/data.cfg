\* Widths as small as f64 < u64 < u128 go, a chain of three servers, and tasks
\* enough to fill the vector and to grow it twice
CONSTANTS
  LinesRead <- AllLines
  F64Bits = 4
  U64Bits = 6
  U128Bits = 8
  Hops = 3
  PublicCodes <- SomeCodes
  MaxTasks = 9
SPECIFICATION Spec
INVARIANTS
  OwnMessagesUnderstood
  DispatchedInOrder
  AnswersFindTheirCall
  NoOthersCall
  SameIdSameNumber
  OnlyPublished
  CauseSurvives
  NoneLost
  MemoryBounded
PROPERTIES
  RelayedAsIs
