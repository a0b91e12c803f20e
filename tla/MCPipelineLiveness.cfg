\* Progress past a lost frame, and shutdown, under fair threads; renderers may
\* be silent.
SPECIFICATION FairSpec
CONSTANTS
  Clients = {c1}
  kFrameQueueMaxSize = 1
  kFrameMapMaxSize = 1
  kFrameMapDropFramesInterval = 2
  MaxFrameIndex = 2
  MaxSendIndex = 2
PROPERTIES LostFrameIsPassed ShutdownUnlessReading
