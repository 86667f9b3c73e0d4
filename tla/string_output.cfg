SPECIFICATION FairSpec
CONSTANTS
  Values <- ShortStrings
  Rooms <- SomeRooms
INVARIANTS
  TypeOK
  NeverAborts
  LocatorTellsHowFar
PROPERTIES
  IsWriterUnlessSplit
  EventuallyDone
