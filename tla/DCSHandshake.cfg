SPECIFICATION FairSpec
CONSTANTS
  Clients = {c1}
  MaxFailures = 1
  MaxNotifications = 1
  MaxStatus = 1
INVARIANTS TypeOK QueueIsBeingWritten HandshakeInOrder ClosedIsDisconnected
PROPERTIES HandshakeEnds BothEndsClose
CHECK_DEADLOCK FALSE
