SPECIFICATION FairSpec
CONSTANTS
  ChunkSize = 2
  MaxSize = 6
INVARIANTS
  TypeOK
  AnswerIsRight
  StopsAfterDocument
  StopsAtError
PROPERTIES
  EventuallyReturns
