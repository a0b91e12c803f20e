\* Two clients for a queue of one, a map of two, one sender.
SPECIFICATION FairSpec
CONSTANTS
  c1 = c1
  c2 = c2
  p = p
  s1 = s1
  Pushers = {c1, c2}
  Processor = p
  Senders = {s1}
  kFrameQueueMaxSize = 1
  kFrameMapMaxSize = 2
  kFrameMapDropFramesInterval = 2
  MaxIndex = 2
INVARIANTS TypeOK NoMissedWakeup
PROPERTY ReadyReturns
