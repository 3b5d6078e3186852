SPECIFICATION MoveSpec
CONSTANTS
  Movers = {"w1", "w2"}
  Folders = {"A"}
  Overrides = {}
  MoveMax = 4
  VerifyMax = 1
  MaxMoves = 3
  MaxUpsets = 1
CHECK_DEADLOCK FALSE
PROPERTIES
  NeverRepeatsBlindly
