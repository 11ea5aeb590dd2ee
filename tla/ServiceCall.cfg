SPECIFICATION FairSpec
CONSTANTS
  Attempts = 3
  Replays = 1
INVARIANT
  TypeOK
  OkMeansDone
  DuplicatesBounded
  CredentialStands
PROPERTY
  RefusedStops
  UnderstoodSucceeds
  RetriesSpent
  ConvertSettles
  CallReturns
