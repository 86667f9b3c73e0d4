SPECIFICATION AlphabetSpec
CONSTANTS
  Chars <- AllAlphabets
  StringRoot = FALSE
  MayReject <- AllHandlers
  RangeErrors = TRUE
  MaxStack = 5
  MaxChunk = 3
INVARIANTS
  TypeOK
  StackShape
  CompleteExactly
  EscapeKnowsItsText
  ContentAccounted
  NoDanglingView
  ErrorReported
PROPERTIES
  FollowsProtocolButKeyPairs
  ErrorIsFinal
