CONSTANTS
  Worker = {w1, w2}
  Service = {s1}
  Proc = {i1, i2, i3, i4}
  MaxOps = 3
  Platforms = {"unix", "windows"}
  Faults = TRUE
  MaxRetries = 2
  None = None
SPECIFICATION RecoverySpec
INVARIANTS HostInv StoppedIsDead
PROPERTY ExitAnswered
CHECK_DEADLOCK FALSE
