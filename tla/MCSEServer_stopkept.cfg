SPECIFICATION Spec
CONSTANTS
  Buffers = {b1, b2}
  NoBuffer = NoBuffer
  BufferSize = 2
  MaxFrameDuration = 3
  FrameDurations = {3}
  FramesWithData = {0, 1}
  MaxDurations = {3}
  ShowLengths = {2}
  Positions = {0, 1}
  PlayoutIDs = {0}
  MaxSessions = 1
  Commands = {"Play", "Stop", "Initialize"}
SYMMETRY BufferSymmetry
PROPERTIES StopIsKept
CHECK_DEADLOCK FALSE
