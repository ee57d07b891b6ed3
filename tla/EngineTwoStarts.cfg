SPECIFICATION Spec
CONSTANTS
  c1 = c1
  c2 = c2
  app = app
  jobs = jobs
  loop = loop
  db = db
  web = web
  Docker = Docker
  Nil = Nil
  Call = {c1, c2}
  Project = {jobs}
  Service = {db, web}
  Services <- MCServices
  DependsOn <- MCDependsOn
  NeedsDocker <- AllHost
  Kinds = {"Start"}
  MaxInFlight = 2
  MaxCrashes = 0
  Disconnects = FALSE
  Faults = FALSE
  Exits = FALSE
INVARIANT AtMostOneRunning
CHECK_DEADLOCK FALSE
