SPECIFICATION FairSpec
CONSTANTS
  MaxSize = 4
  Limit = 2
  InitialChunk = 3
  MaxRedirectHops = 3
  StartPositions = {0, 1}
  PartialCreate = FALSE
INVARIANTS
  TypeOK FreshBody ReaderReleased PostWhole TusWhole ResumeWhole
PROPERTIES
  Returns ProducerEnds StoringSpec
CHECK_DEADLOCK FALSE
