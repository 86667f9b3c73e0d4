SPECIFICATION Spec
CONSTANTS
  Chars <- UnicodeKeyChars
  StringRoot = FALSE
  MayReject <- NoHandler
  RangeErrors = TRUE
  MaxStack = 4
  MaxChunk = 1
PROPERTIES
  FollowsProtocol
