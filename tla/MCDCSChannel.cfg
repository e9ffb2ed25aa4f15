SPECIFICATION FairSpec
CONSTANTS
  Byte = 128
  Scripts <- TestScripts
  Threads = {"io", "user"}
  Observers = {"o1", "o2"}
  States = {"Disconnected", "Connected"}
  FirstState = "Disconnected"
  MaxCalls = 3
INVARIANTS ArrivesAsSent BuffersHold RemovedIsSilent ChangesAreSeen
PROPERTIES MessagesArrive
CHECK_DEADLOCK FALSE
