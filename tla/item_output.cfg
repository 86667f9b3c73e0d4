SPECIFICATION FairSpec
CONSTANTS
  Items <- SomeItems
  Texts <- SomeTexts
  Rooms <- SomeRooms
INVARIANTS
  TypeOK
  LocatorsFollowItem
  UncheckedSeparatorsFit
  TrueOnlyIfDelivered
PROPERTIES
  IsWriter
  EventuallyReturns
