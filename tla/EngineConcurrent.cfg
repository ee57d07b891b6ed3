SPECIFICATION Spec
CONSTANTS
  c1 = c1
  c2 = c2
  app = app
  jobs = jobs
  loop = loop
  db = db
  web = web
  Docker = Docker
  Nil = Nil
  Call = {c1, c2}
  Project = {app, loop}
  Service = {db, web}
  Services <- MCServices
  DependsOn <- MCDependsOn
  NeedsDocker <- MCNeedsDocker
  Kinds = {"Start", "Stop", "Reset"}
  MaxInFlight = 2
  MaxCrashes = 1
  Disconnects = TRUE
  Faults = TRUE
  Exits = TRUE
INVARIANTS RoutingSound DependencyOrder IInv FailedStartCleansUp
CHECK_DEADLOCK FALSE
