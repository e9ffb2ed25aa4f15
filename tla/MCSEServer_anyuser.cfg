SPECIFICATION Spec
CONSTANTS
  Buffers = {b1, b2, b3}
  NoBuffer = NoBuffer
  BufferSize = 2
  MaxFrameDuration = 3
  FrameDurations = {2, 3}
  FramesWithData = {0}
  MaxDurations = {3, 4}
  ShowLengths = {1}
  Positions = {0}
  PlayoutIDs = {0}
  MaxSessions = 1
  Commands = {"Play", "Pause", "Stop", "SetFrame", "SetPlayoutID", "SetProcessorIsReady", "Initialize", "Reset", "Destroy"}
SYMMETRY BufferSymmetry
INVARIANTS TypeOK OneOwner PushNeverFails CopiesStayInBounds
CHECK_DEADLOCK FALSE
VIEW OwnershipView
