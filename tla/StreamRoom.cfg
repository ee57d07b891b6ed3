\* statusChan has a slot for every message, in Reset for those of both halves; patient clients.
CONSTANTS
  Kinds = {"start", "stop", "reset", "snapshot", "build"}
  Slots = 6
  MaxMessages = 2
  MaxBuilds = 3
  Disconnects = FALSE
SPECIFICATION Spec
PROPERTIES Implements
CHECK_DEADLOCK FALSE
