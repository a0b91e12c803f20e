\* One renderer; sizes that stay, change, are rounded, round to nothing, are
\* too large together (5 x 5) or are negative as an int (21).
SPECIFICATION Spec
CONSTANTS
  Clients = {c1}
  Dims = {1, 2, 5, 21}
  DefaultWidth = 2
  DefaultHeight = 4
  IntLimit = 16
  MaxDim = 10
  MaxPixels = 15
  MaxMessages = 2
  MaxUnderWay = 1
INVARIANTS TypeOK ViewIsConsistent OnlyUnusableCrashes LeftQuietFramesFit
