\* A frame that a resolution change overtakes.
SPECIFICATION Spec
CONSTANTS
  Clients = {c1}
  Dims = {1, 2, 5}
  DefaultWidth = 2
  DefaultHeight = 4
  IntLimit = 16
  MaxDim = 10
  MaxPixels = 15
  MaxMessages = 2
  MaxUnderWay = 1
INVARIANT LeftFramesFit
