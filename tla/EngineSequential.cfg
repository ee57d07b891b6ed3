SPECIFICATION Spec
CONSTANTS
  c1 = c1
  c2 = c2
  c3 = c3
  c4 = c4
  app = app
  jobs = jobs
  loop = loop
  db = db
  web = web
  Docker = Docker
  Nil = Nil
  Call = {c1, c2, c3, c4}
  Project = {app}
  Service = {db, web}
  Services <- MCServices
  DependsOn <- MCDependsOn
  NeedsDocker <- MCNeedsDocker
  Kinds = {"Start", "Stop"}
  MaxInFlight = 1
  MaxCrashes = 0
  Disconnects = FALSE
  Faults = FALSE
  Exits = FALSE
INVARIANT StopOrder
PROPERTIES StopStops StartReplaces StatusAfterStart
CHECK_DEADLOCK FALSE
