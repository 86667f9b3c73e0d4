SPECIFICATION Spec
CONSTANTS
  Names = {a, b, c}
  Items = {v, w}
  Null = null
  MaxProperties = 4
INVARIANTS
  NamesOnce
PROPERTIES
  IsMapUnlessDuplicated
