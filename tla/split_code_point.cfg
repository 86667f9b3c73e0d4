SPECIFICATION Spec
CONSTANTS
  Values <- OneCodePoint
  Rooms <- SomeRooms
PROPERTIES
  IsWriter
