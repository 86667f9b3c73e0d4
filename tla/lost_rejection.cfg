SPECIFICATION Spec
CONSTANTS
  Chars <- NumberTextChars
  StringRoot = FALSE
  MayReject <- AllHandlers
  RangeErrors = TRUE
  MaxStack = 4
  MaxChunk = 2
INVARIANTS
  RejectionReported
