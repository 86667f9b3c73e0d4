SPECIFICATION Spec
CONSTANTS
  Chars <- RootStringChars
  StringRoot = TRUE
  MayReject <- NoHandler
  RangeErrors = TRUE
  MaxStack = 3
  MaxChunk = 2
INVARIANTS
  ContentAccounted
