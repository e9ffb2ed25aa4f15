SPECIFICATION FairSpec
CONSTANTS
  Buffers = {b1, b2}
  NoBuffer = NoBuffer
  BufferSize = 2
  MaxFrameDuration = 3
  FrameDurations = {3}
  FramesWithData = {0, 1}
  MaxDurations = {3}
  ShowLengths = {2}
  Positions = {0}
  PlayoutIDs = {1}
  MaxSessions = 1
  Commands = {"Play", "Pause", "Initialize", "SetProcessorIsReady", "Destroy"}
INVARIANTS NoBufferLost PlaysWithinShow
PROPERTIES DeliversFrames FramesInOrder PlaybackEnds LastFrameHeard DestructorReturns
CHECK_DEADLOCK FALSE
