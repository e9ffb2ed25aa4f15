SPECIFICATION Spec
CONSTANTS
  Byte = 10
  UUIDWords = 1
  SYNCMARKER = 42
  Garbage = 77
  BufferSizes = {47}
  InitialDuration = 96
  SilenceLimit = 80
  Sent <- LongFrames
  StartsAt = {0, 45}
  QueueDepth = 1
  MaxGlitches = 1
  Splices = FALSE
  DropoutsAt = {}
INVARIANT HandsOverWhatItValidated
