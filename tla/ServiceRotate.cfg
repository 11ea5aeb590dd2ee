SPECIFICATION Spec
CONSTANTS
  Attempts = 1
  Replays = 1
INVARIANT
  RotatedOnce
