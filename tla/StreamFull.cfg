\* More messages than slots, clients that may leave at any moment.
CONSTANTS
  Kinds = {"start", "stop", "snapshot", "build"}
  Slots = 2
  MaxMessages = 4
  MaxBuilds = 3
  Disconnects = TRUE
SPECIFICATION Spec
INVARIANTS VerdictTrue StreamInv
PROPERTIES HandlerReturns WorkerEnds
CHECK_DEADLOCK FALSE
