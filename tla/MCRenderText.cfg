\* Two threads, frames of six sizes around the edges of the text boxes.
SPECIFICATION Spec
CONSTANTS
  t1 = t1
  t2 = t2
  Threads = {t1, t2}
  Half = 536870912
  Sizes <- EdgeSizes
  Glyphs <- TwoGlyphs
  Extent = 3
  MaxChars = 3
SYMMETRY ThreadSymmetry
INVARIANTS InsideSurface TextIsInPlace
