\* Three frames under way at the same time.
SPECIFICATION Spec
CONSTANTS
  f1 = f1
  f2 = f2
  f3 = f3
  Frames = {f1, f2, f3}
  Null = Null
SYMMETRY FrameSymmetry
INVARIANTS PointersAreLive FreedOnce ExactlyWrappersLeak
