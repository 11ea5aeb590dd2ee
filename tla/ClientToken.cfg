SPECIFICATION FairSpec
CONSTANTS
  Users = {u1, u2}
  Used = {"dag", "pinning", "upload", "download", "meta"}
  MaxToken = 2
  MaxConfig = 1
INVARIANT
  TypeOK
  FreshAfterUpdate
PROPERTY
  UpdateReturns
