\* Two renderers that overtake each other; clean-up at every number.
SPECIFICATION Spec
CONSTANTS
  Clients = {c1, c2}
  kFrameQueueMaxSize = 1
  kFrameMapMaxSize = 2
  kFrameMapDropFramesInterval = 1
  MaxFrameIndex = 2
  MaxSendIndex = 2
SYMMETRY ClientSymmetry
INVARIANTS TypeOK EyesAlternate IssuedFirst FrameInOnePlace
PROPERTIES FreshFramesKept ImplementsFrameStream WedgedForever
