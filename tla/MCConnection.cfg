\* Two renderers that go away once between them and share three descriptors.
SPECIFICATION FairSpec
CONSTANTS
  r1 = r1
  r2 = r2
  Renderers = {r1, r2}
  MaxFds = 3
  ErrorLimit = 1
  PrefixSize = 1
  MaxBody = 2
  NumberSpace = 3
  MaxFailures = 1
INVARIANTS TypeOK AnswerIsWhole ResetCostsOne OnlyFailedConnectsLeak
PROPERTIES RendererIsReconnected ShutdownUnlessSilent
