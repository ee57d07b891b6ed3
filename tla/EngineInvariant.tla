---------------------------- MODULE EngineInvariant ----------------------------
(***************************************************************************)
(* The inductive invariant of Engine: what each control point of a handler *)
(* knows, in every instance.  MCEngine checks it with TLC, EngineProofs    *)
(* proves it.                                                              *)
(***************************************************************************)
EXTENDS Engine

\* Control points before the call's orchestrator has its runtimes.
Fresh == {"idle", "connect", "readrt", "setup"}
\* Those of the loop over startOrder; at all but the first a service is picked.
Loop == {"pick", "list", "replace", "start", "fork", "register", "collect"}
AtService == Loop \ {"pick"}

Started(c, s) == ctr[<<c, s>>].status \notin {"none", "created"}
Untouched(c, S) == \A s \in S : ctr[<<c, s>>].status = "none"

\* Who is who: the call's project and the orchestrator it works on.
IdentityInv(c) ==
  LET k == call[c] IN
  /\ k.pc = "idle" <=> k.kind = "none"
  /\ k.pc # "idle" => k.proj \in Project
  /\ k.pc \in StopLabels => k.orch \in Call /\ (k.kind # "Stop" => k.orch = c)

\* Runtimes are there when they are needed and stay.
RuntimeInv(c) ==
  LET k == call[c] IN
  /\ k.pc \in Fresh => orc[c].host = Nil
  /\ k.pc \in {"readrt", "setup"} => srv.host # Nil
  /\ k.pc \in Loop \cup CleanupLabels \cup {"network"} => orc[c].host # Nil
  /\ k.pc \in StopLabels => orc[k.orch].host # Nil
  /\ k.pc \in {"stoplist", "stopone", "cleanstop", "cleanremove"} =>
       k.cur \in Service /\ k.target # Nil

\* Services outside todo are started, those inside are untouched but for the
\* current one, whose dependencies are outside.
LoopInv(c) ==
  LET k == call[c] IN
  /\ k.pc \in Fresh \cup StopLabels \cup {"network"} => Untouched(c, Service)
  /\ k.pc \in Loop => /\ k.todo \subseteq Cfg(c)
                      /\ \A s \in Cfg(c) \ k.todo : Started(c, s)
                      /\ Untouched(c, k.todo \ {k.cur})
  /\ k.pc \in Fresh \cup {"network", "pick", "stopnext"} => k.cur = Nil
  /\ k.pc \in AtService => /\ k.cur \in StartReady(c)
                           /\ RuntimeFor(c, k.cur) # Nil
  /\ k.pc \in {"list", "replace"} => Untouched(c, {k.cur})

\* The container of the current service, and those a handler has listed.
ContainerInv(c) ==
  LET k == call[c] IN
  /\ \A i \in k.found : ctr[i].status # "none"
  /\ k.pc \in {"start", "fork", "register"} => ctr[<<c, k.cur>>].rt = RuntimeFor(c, k.cur)
  /\ k.pc = "fork" => ctr[<<c, k.cur>>].status # "none" /\ ctr[<<c, k.cur>>].rt # Docker
  /\ k.pc \in {"register", "collect"} => Started(c, k.cur)

CallInv(c) == IdentityInv(c) /\ RuntimeInv(c) /\ LoopInv(c) /\ ContainerInv(c)

\* The conjunction that every step preserves: the type invariant, the published
\* orchestrator has its host runtime, and each call's control point is right.
IInv ==
  /\ TypeOK
  /\ srv.orch # Nil => orc[srv.orch].host # Nil
  /\ \A c \in Call : CallInv(c)
  /\ RoutingSound
  /\ DependencyOrder
-------------------------------------------------------------------------------
(* What a Start that fails leaves behind (FailedStartCleansUp) *)

\* No Stop was issued: nobody empties the map that cleanup reads.
Quiet == \A c \in Call : call[c].kind # "Stop"

\* A context that is cancelled shows in the answer, an error is the end, and a Start
\* has no container before its loop.
TidyInv(c) ==
  LET k == call[c] IN
  /\ k.cancelled => k.result = "cancelled"
  /\ k.kind = "none" => ~k.cancelled
  /\ k.result = "error" => k.pc = "done"
  /\ k.pc \in Fresh => k.ids = {}
  /\ k.pc \in StopLabels => k.kind # "Start"
  /\ k.pc = "network" /\ k.kind = "Start" => k.ids = {}

\* A Start has an entry in its map for each container it will clean up, those are
\* all that it has running but the one it is about to register, and cleanup asks
\* the runtime of the entry.
CleanInv(c) ==
  LET k == call[c] IN
  k.kind = "Start" /\ k.result # "cancelled" =>
    /\ k.pc \in Loop \cup CleanupLabels =>
         /\ \A i \in k.ids : i[1] = c /\ orc[c].rt[i[2]] # Nil
         /\ \A s \in Service : ctr[<<c, s>>].status = "running" =>
              <<c, s>> \in k.ids \/ (k.pc = "register" /\ s = k.cur)
    /\ k.pc \in {"cleanstop", "cleanremove"} =>
         <<c, k.cur>> \in k.ids /\ k.target = orc[c].rt[k.cur]
    /\ k.result = "error" => \A s \in Service : ctr[<<c, s>>].status # "running"

CleanupInv == Quiet => \A c \in Call : TidyInv(c) /\ CleanInv(c)

\* Only a Start or a Reset removes a container of another call, one of the name it
\* is about to start; a host process that runs without an entry, or is about to,
\* has met one that did.
LostInv(c) ==
  LET k == call[c] IN
  /\ k.pc \in StartLabels => k.kind \in {"Start", "Reset"}
  /\ k.pc = "replace" => \A i \in k.found : i[2] = k.cur
  /\ k.pc = "fork" => /\ ctr[<<c, k.cur>>].status \in {"created", "removed"}
                      /\ ctr[<<c, k.cur>>].status = "removed" => Taken(c, k.cur)
  /\ \A s \in Service : ctr[<<c, s>>].status = "lost" =>
       ctr[<<c, s>>].rt # Docker /\ Taken(c, s)
-------------------------------------------------------------------------------
(* One call at a time, of one project, with nothing that fails (the properties  *)
(* of sequential instances)                                                     *)

OneAtATime ==
  /\ MaxInFlight = 1 /\ MaxCrashes = 0 /\ ~Faults /\ ~Disconnects
  /\ Kinds \subseteq {"Start", "Stop"}

Busy(c) == call[c].pc \notin {"idle", "done"}

\* A call is a Start or a Stop whose client waits for its answer.
Waits(c) ==
  LET k == call[c] IN
  /\ k.kind \in {"none", "Start", "Stop"} /\ ~k.cancelled
  /\ k.pc = "done" <=> k.result # "none"

\* The runtime of a service is the same in every Start.
Home(p, s) == IF s \in NeedsDocker[p] THEN Docker ELSE srv.host

\* The runtimes that there are, and every container on that of its service.
HomeInv(p) ==
  /\ srv.docker <=> srv.host # Nil /\ Services[p] \cap NeedsDocker[p] # {}
  /\ srv.host = Nil => srv.orch = Nil
  /\ \A i \in ContainerId : ctr[i].status # "none" =>
       /\ i[2] \in Services[p] /\ ctr[i].rt = Home(p, i[2])
       /\ srv.host # Nil /\ ~Cyclic(p) /\ ctr[i].status # "lost"

\* What runs of a service is the container of the published orchestrator, which has
\* an entry for it.
Settled(s) ==
  \A i \in ContainerId : i[2] = s /\ ctr[i].status = "running" =>
    i[1] = srv.orch /\ orc[srv.orch].rt[s] # Nil

\* No runtime lists another container of the service than that of call c.
Only(c, s) == \A i \in ContainerId : i[2] = s /\ ctr[i].status \in Present => i[1] = c
Up(c, s) == Only(c, s) /\ orc[c].rt[s] # Nil /\ (~Exits => ctr[<<c, s>>].status = "running")

\* What a Start knows ...
Starting(c) ==
  LET k == call[c] IN
  /\ k.pc \in StartLabels => k.kind = "Start"
  /\ k.pc = "connect" => srv.host = Nil
  /\ k.pc \in Loop \cup {"setup", "network"} => orc[c].docker = srv.docker
  /\ k.pc \in Loop \cup {"network"} => orc[c].host = srv.host /\ srv.orch = c
  /\ k.pc \in Loop => ~Cyclic(k.proj) /\ \A s \in Cfg(c) \ k.todo : Up(c, s)
  /\ k.pc = "replace" =>
       /\ \A i \in k.found : i[2] = k.cur
       /\ \A i \in ContainerId : i[2] = k.cur /\ ctr[i].status \in Present => i \in k.found
  /\ k.pc \in {"start", "fork", "register", "collect"} => Only(c, k.cur)
  /\ k.pc \in {"start", "fork"} => ctr[<<c, k.cur>>].status = "created"
  /\ k.pc \in {"register", "collect"} /\ ~Exits => ctr[<<c, k.cur>>].status = "running"
  /\ k.pc = "collect" => orc[c].rt[k.cur] # Nil

\* ... and what a Stop knows.
Stopping(c) ==
  LET k == call[c] IN
  /\ k.pc \in StopLabels =>
       /\ k.kind = "Stop" /\ k.orch = srv.orch
       /\ \A i \in ContainerId : ctr[i].status = "running" => i[2] \in k.todo
  /\ k.pc \in {"stoplist", "stopone"} => k.cur \in StopReady(c)
  /\ k.pc = "stoplist" =>
       \A i \in ContainerId : i[2] = k.cur /\ ctr[i].status = "running" => ctr[i].rt = k.target
  /\ k.pc = "stopone" =>
       \A i \in ContainerId : i[2] = k.cur /\ ctr[i].status = "running" => i \in k.found

\* Nothing is settled while the services are being replaced.
SequentialInv(p) ==
  /\ \A c \in Call : Waits(c) /\ Starting(c) /\ Stopping(c) /\ call[c].pc \notin CleanupLabels
  /\ \A c, d \in Call : Busy(c) /\ Busy(d) => c = d
  /\ HomeInv(p)
  /\ (\A c \in Call : call[c].pc \notin Loop \cup {"network"}) => \A s \in Service : Settled(s)
===============================================================================
