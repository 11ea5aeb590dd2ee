SPECIFICATION Spec
CONSTANTS
  Users = {u1}
  Used = {"dns"}
  MaxToken = 1
  MaxConfig = 0
INVARIANT
  HeldServiceFresh
