SPECIFICATION FairSpec
CONSTANTS
  Byte = 8
  UUIDWords = 1
  SYNCMARKER = 42
  Garbage = 77
  BufferSizes = {11, 47}
  InitialDuration = 57
  SilenceLimit = 60
  Sent <- ManyDurations
  StartsAt = {0, 45}
  QueueDepth = 1
  MaxGlitches = 2
  Splices = FALSE
  DropoutsAt = {1}
INVARIANTS OffsetsInBounds FollowsTheSignal SilenceIsNoticed
PROPERTY AddSamplesReturns
