\* A scene encoder that holds more than the depth encoder; one reopening; one frame
\* of delay.
SPECIFICATION FairSpec
CONSTANTS
  SceneCapacity = 3
  DepthCapacity = 2
  Delay = 1
  MaxFrames = 3
  MaxReopens = 1
INVARIANTS TypeOK StreamsInStep NewEncoderStartsWithKey
PROPERTIES ImplementsFrameStream AcceptedIsStreamed ErrorEndsAll
