SPECIFICATION GrammarSpec
CONSTANTS
  Chars <- EveryChar
  Shapes <- SomeShapes
  StringRoot = TRUE
  MayReject <- NoHandler
  RangeErrors = FALSE
  MaxStack = 9
  MaxChunk = 1
PROPERTIES
  ActsAsSource
INVARIANTS
  AcceptsAllButScalars
  AcceptsOnlyDocuments
