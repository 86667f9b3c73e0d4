SPECIFICATION Spec
CONSTANTS
  Booleans = {"true"}
  Numbers = {"1"}
  Pieces = {"a", "b"}
  MaxCalls = 9
  Width <- Widths
  BufferSize = 3
INVARIANTS
  TypeOK
  ContractsMet
  StackLeadsInwards
  ItemTellsCalls
  PrintsWhatWasGiven
  PrintsItem
