SPECIFICATION Spec
CONSTANTS
  Alphabet <- NumberAlphabet
  MaxText = 6
  Ranges <- Boundaries
INVARIANTS
  ClassTellsStrtod
  DecodesBack
  EscapesReadBack
  ControlsReadBack
CHECK_DEADLOCK FALSE
