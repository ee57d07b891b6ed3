-------------------------------- MODULE Engine --------------------------------
(***************************************************************************)
(* The engine daemon's environment lifecycle: the Start, Stop and Reset    *)
(* RPC handlers (engine/cmd/daemon.go), the orchestrator each of them      *)
(* drives (engine/internal/orchestrator/orchestrator.go), the per-service  *)
(* lifecycle (lifecycle.go) and what it does to the host and Docker        *)
(* runtimes.  Handlers run concurrently; each is a process of its own,     *)
(* named by the call that started it, and takes one step per lock section  *)
(* or runtime call.                                                        *)
(*                                                                         *)
(* A call creates at most one orchestrator, one host runtime and one       *)
(* container per service, so the call names the first two and the pair     *)
(* <<call, service>> names the container (in the code: a fresh uuid).      *)
(***************************************************************************)
EXTENDS Naturals, FiniteSets

CONSTANTS
  Call,           \* the RPCs clients may issue, each at most once
  Project,        \* project directories
  Service,        \* service names, possibly shared between projects
  Services,       \* cfg.Services:   [Project -> SUBSET Service]
  DependsOn,      \* svc.DependsOn:  [Project -> [Service -> SUBSET Service]]
  NeedsDocker,    \* NeedsDockerService: [Project -> SUBSET Service]
  Kinds,          \* the RPCs this instance issues
  MaxInFlight,    \* bound: calls whose handler has not returned yet
  MaxCrashes,     \* bound: times the daemon is killed and started again
  Disconnects,    \* may a client give up (deadline, Ctrl-C) during a call?
  Faults,         \* may image pulls, builds, creations and starts fail?
  Exits,          \* may a service process end by itself?
  Docker,         \* the Docker runtime
  Nil

ASSUME ConfigAssumption ==
  /\ Services \in [Project -> SUBSET Service]
  /\ DependsOn \in [Project -> [Service -> SUBSET Service]]
  /\ NeedsDocker \in [Project -> SUBSET Service]

ASSUME ModelAssumption ==
  /\ Kinds \subseteq {"Start", "Stop", "Reset"}
  /\ MaxInFlight \in Nat /\ MaxCrashes \in Nat
  /\ {Disconnects, Faults, Exits} \subseteq BOOLEAN

ASSUME NamesAssumption ==
  /\ Docker \notin Call /\ Nil \notin Call \cup Service \cup Project /\ Docker # Nil

VARIABLES
  srv,      \* the server struct: hostRt, dockerRt (connected?), orchestrator
  orc,      \* per call: the Orchestrator it created
  ctr,      \* per <<call, service>>: the container or host process
  call,     \* per call: the handler's and its goroutine's local state
  crashes   \* how often the daemon was killed

vars == <<srv, orc, ctr, call, crashes>>

-------------------------------------------------------------------------------
(* Types *)

Runtime == Call \cup {Docker}
ContainerId == Call \X Service

StartLabels == { "connect", "readrt", "setup", "network", "pick", "list", "replace",
                 "start", "fork", "register", "collect" }
CleanupLabels == { "cleanup", "cleanstop", "cleanremove" }
StopLabels == { "stopnext", "stoplist", "stopone" }
Labels == StartLabels \cup CleanupLabels \cup StopLabels \cup {"idle", "done"}

\* created/running/exited as the runtimes report them; "killed" is a host
\* process that died of a signal, "removed" a container that is gone, "lost" a
\* host process that runs although its runtime has no entry for it any more.
Present == {"created", "running", "exited", "killed"}

ServerType == [host : Call \cup {Nil}, docker : BOOLEAN, orch : Call \cup {Nil}]
OrchType == [host : Call \cup {Nil}, docker : BOOLEAN,
             rt : [Service -> Runtime \cup {Nil}], collectors : SUBSET Service]
ContainerType == {[rt |-> Nil, status |-> "none"]}
                   \cup [rt : Runtime, status : Present \cup {"removed", "lost"}]
CallType == [kind : {"none", "Start", "Stop", "Reset"},
             proj : Project \cup {Nil},
             pc : Labels,
             orch : Call \cup {Nil},
             todo : SUBSET Service,
             cur : Service \cup {Nil},
             target : Runtime \cup {Nil},
             ids : SUBSET ContainerId,
             found : SUBSET ContainerId,
             cancelled : BOOLEAN,
             result : {"none", "ok", "error", "cancelled", "crashed"}]

TypeOK ==
  /\ srv \in ServerType
  /\ orc \in [Call -> OrchType]
  /\ ctr \in [ContainerId -> ContainerType]
  /\ call \in [Call -> CallType]
  /\ crashes \in Nat

-------------------------------------------------------------------------------
(* Helpers *)

NoServer == [host |-> Nil, docker |-> FALSE, orch |-> Nil]
NoOrch == [host |-> Nil, docker |-> FALSE,
           rt |-> [s \in Service |-> Nil], collectors |-> {}]
NoContainer == [rt |-> Nil, status |-> "none"]
NoCall == [kind |-> "none", proj |-> Nil, pc |-> "idle", orch |-> Nil,
           todo |-> {}, cur |-> Nil, target |-> Nil, ids |-> {}, found |-> {},
           cancelled |-> FALSE, result |-> "none"]

Cfg(c) == Services[call[c].proj]

\* Dependencies that are declared services; the others are skipped (graph
\* nodes without an entry in cfg.Services).
Deps(p, s) == DependsOn[p][s] \cap Services[p]

\* Kahn's algorithm hands out some order with dependencies first, the reverse
\* order has dependents first (module KahnGraph).
StartReady(c) == {s \in call[c].todo : Deps(call[c].proj, s) \cap call[c].todo = {}}
\* Mutant: the start order.
StopReadyForward(c) ==
  {s \in call[c].todo : Deps(call[c].proj, s) \cap call[c].todo = {}}

StopReady(c) ==
  {s \in call[c].todo : \A d \in call[c].todo : s \notin Deps(call[c].proj, d)}

\* A set of services each of which waits for another: graph.Resolve's error.
Cyclic(p) == \E X \in SUBSET Services[p] :
               X # {} /\ \A s \in X : Deps(p, s) \cap X # {}

\* resolveRuntime: nil when a service needs Docker and there is none.
RuntimeFor(c, s) ==
  IF s \notin NeedsDocker[call[c].proj] THEN orc[c].host
  ELSE IF orc[c].docker THEN Docker ELSE Nil

\* Docker calls carry the RPC's context and fail once it is cancelled; the
\* host runtime ignores its context.
Reachable(c, r) == r # Docker \/ ~call[c].cancelled

\* ListContainers with the label devboxos.service = s.
Listed(r, s) == {i \in ContainerId : i[2] = s /\ ctr[i].rt = r /\ ctr[i].status \in Present}

\* A runtime removes what it has an entry for.
Remove(S) == ctr' = [i \in ContainerId |->
                       IF i \in S /\ ctr[i].status \in Present
                       THEN [ctr[i] EXCEPT !.status = "removed"] ELSE ctr[i]]

\* How a running container ends.  A host process may die of a signal, which
\* ProcessState.Exited() denies.
Ends(r) == IF r = Docker THEN {"exited"} ELSE {"exited", "killed"}

\* Mutant: always the host's.
LookupRuntimeHost(o, s) == orc[o].host

\* The runtime Stop finds for a service: that of a container of the
\* orchestrator that still answers and carries the label, else the host's.
LookupRuntime(o, s) ==
  IF orc[o].rt[s] # Nil /\ ctr[<<o, s>>].status \in Present
  THEN orc[o].rt[s] ELSE orc[o].host

\* The Status RPC, computed at one moment.  The host runtime's mapStatus calls
\* a process that died of a signal "running"; containers are counted, not
\* services.
ReportedRunning(p) ==
  {i \in ContainerId : /\ i[2] \in Services[p]
                       /\ ctr[i].rt = LookupRuntime(srv.orch, i[2])
                       /\ ctr[i].status \in {"running", "killed"}}

Status(p) ==
  IF srv.host = Nil THEN "error"
  ELSE IF srv.orch = Nil \/ ReportedRunning(p) = {} THEN "stopped"
  ELSE IF Cardinality(ReportedRunning(p)) = Cardinality(Services[p]) THEN "running"
  ELSE "partial"

\* The handler of call c moves on to local state k.
Becomes(c, k) == call' = [call EXCEPT ![c] = k]

InFlight == {c \in Call : call[c].kind # "none" /\ call[c].result = "none"}

\* The handler returns, unless the client has left before.
Return(c, r) == IF call[c].result = "none" THEN r ELSE call[c].result

-------------------------------------------------------------------------------
Init ==
  /\ srv = NoServer
  /\ orc = [c \in Call |-> NoOrch]
  /\ ctr = [i \in ContainerId |-> NoContainer]
  /\ call = [c \in Call |-> NoCall]
  /\ crashes = 0

\* A client may issue call c for RPC k.
Issue(c, k) ==
  /\ k \in Kinds /\ call[c].kind = "none"
  /\ Cardinality(InFlight) < MaxInFlight

(* server.Start *)

\* Entry: the handler checks s.hostRt under s.mu and lets go of the lock.
StartCall(c, p) ==
  /\ Issue(c, "Start")
  /\ Becomes(c, [call[c] EXCEPT !.kind = "Start", !.proj = p, !.orch = c,
                                !.pc = IF srv.host = Nil THEN "connect" ELSE "readrt"])
  /\ UNCHANGED <<srv, orc, ctr, crashes>>

\* No runtime yet: make a host runtime, connect Docker if this project needs
\* it, then publish both under s.mu.
ConnectRuntimes(c) ==
  LET needed == Cfg(c) \cap NeedsDocker[call[c].proj] # {} IN
  /\ call[c].pc = "connect"
  /\ needed => Reachable(c, Docker)
  /\ srv' = [srv EXCEPT !.host = c, !.docker = needed]
  /\ Becomes(c, [call[c] EXCEPT !.pc = "readrt"])
  /\ UNCHANGED <<orc, ctr, crashes>>

ConnectFails(c) ==
  /\ call[c].pc = "connect"
  /\ Cfg(c) \cap NeedsDocker[call[c].proj] # {}
  /\ Faults \/ ~Reachable(c, Docker)
  /\ Becomes(c, [call[c] EXCEPT !.pc = "done", !.result = Return(c, "error")])
  /\ UNCHANGED <<srv, orc, ctr, crashes>>

\* Mutant: the orchestrator is published before it has its runtimes.
ReadDockerRuntimePublish(c) ==
  /\ call[c].pc = "readrt"
  /\ orc' = [orc EXCEPT ![c] = [NoOrch EXCEPT !.docker = srv.docker]]
  /\ srv' = [srv EXCEPT !.orch = c]
  /\ Becomes(c, [call[c] EXCEPT !.pc = "setup"])
  /\ UNCHANGED <<ctr, crashes>>

\* NewOrchestrator(s.dockerRt, s.hostRt, ...) reads both fields without s.mu:
\* another Start may publish its pair between the two reads.
ReadDockerRuntime(c) ==
  /\ call[c].pc = "readrt"
  /\ orc' = [orc EXCEPT ![c] = [NoOrch EXCEPT !.docker = srv.docker]]
  /\ Becomes(c, [call[c] EXCEPT !.pc = "setup"])
  /\ UNCHANGED <<srv, ctr, crashes>>

\* Mutant: an orchestrator that is there already is kept.
SetupOrchestratorOnce(c) ==
  /\ call[c].pc = "setup"
  /\ orc' = [orc EXCEPT ![c].host = srv.host]
  /\ srv' = [srv EXCEPT !.orch = IF @ = Nil THEN c ELSE @]
  /\ Becomes(c, [call[c] EXCEPT !.pc = "network"])
  /\ UNCHANGED <<ctr, crashes>>

\* The second read, then s.orchestrator = orch and the start of
\* Orchestrator.Start with an empty containerRT.
SetupOrchestrator(c) ==
  /\ call[c].pc = "setup"
  /\ orc' = [orc EXCEPT ![c].host = srv.host]
  /\ srv' = [srv EXCEPT !.orch = c]
  /\ Becomes(c, [call[c] EXCEPT !.pc = "network"])
  /\ UNCHANGED <<ctr, crashes>>

\* NewOrchestrator fails on the secret store; nothing is published.
SetupFails(c) ==
  /\ call[c].pc = "setup" /\ Faults
  /\ Becomes(c, [call[c] EXCEPT !.pc = "done", !.result = Return(c, "error")])
  /\ UNCHANGED <<srv, orc, ctr, crashes>>

(* Orchestrator.Start up to the loop *)

\* The network is made with Docker when there is a Docker runtime, whether or
\* not this project has a service for it.
EnsureNetwork(c) ==
  /\ call[c].pc = "network"
  /\ ~Cyclic(call[c].proj)
  /\ orc[c].docker => Reachable(c, Docker)
  /\ Becomes(c, [call[c] EXCEPT !.pc = "pick", !.todo = Cfg(c)])
  /\ UNCHANGED <<srv, orc, ctr, crashes>>

\* A dependency cycle, or no network: nothing was started yet.
NetworkFails(c) ==
  /\ call[c].pc = "network"
  /\ \/ Cyclic(call[c].proj)
     \/ orc[c].docker /\ (Faults \/ ~Reachable(c, Docker))
  /\ Becomes(c, [call[c] EXCEPT !.pc = "done", !.result = Return(c, "error")])
  /\ UNCHANGED <<srv, orc, ctr, crashes>>

(* The loop over startOrder, and Lifecycle.StartService *)

PickService(c) ==
  /\ call[c].pc = "pick"
  /\ \E s \in StartReady(c) :
       IF RuntimeFor(c, s) = Nil
       THEN Becomes(c, [call[c] EXCEPT !.pc = "cleanup"])
       ELSE Becomes(c, [call[c] EXCEPT !.pc = "list", !.cur = s])
  /\ UNCHANGED <<srv, orc, ctr, crashes>>

\* Secrets, image build or pull may fail, before anything is touched.
PrepareFails(c) ==
  /\ call[c].pc = "list"
  /\ Faults \/ ~Reachable(c, RuntimeFor(c, call[c].cur))
  /\ Becomes(c, [call[c] EXCEPT !.pc = "cleanup"])
  /\ UNCHANGED <<srv, orc, ctr, crashes>>

\* The containers of the same name; an error counts as none.
ListExisting(c) ==
  LET r == RuntimeFor(c, call[c].cur) IN
  /\ call[c].pc = "list"
  /\ Becomes(c, [call[c] EXCEPT !.pc = "replace",
                                !.found = IF Reachable(c, r) THEN Listed(r, call[c].cur) ELSE {}])
  /\ UNCHANGED <<srv, orc, ctr, crashes>>

\* RemoveContainer(force), its error ignored.
RemoveExisting(c) ==
  /\ call[c].pc = "replace"
  /\ \E i \in call[c].found :
       /\ IF Reachable(c, ctr[i].rt) THEN Remove({i}) ELSE UNCHANGED ctr
       /\ Becomes(c, [call[c] EXCEPT !.found = @ \ {i}])
  /\ UNCHANGED <<srv, orc, crashes>>

\* Docker refuses a second container named devbox-<service>.
CreateContainer(c) ==
  LET r == RuntimeFor(c, call[c].cur) IN
  /\ call[c].pc = "replace" /\ call[c].found = {}
  /\ Reachable(c, r)
  /\ r = Docker => Listed(Docker, call[c].cur) = {}
  /\ ctr' = [ctr EXCEPT ![<<c, call[c].cur>>] = [rt |-> r, status |-> "created"]]
  /\ Becomes(c, [call[c] EXCEPT !.pc = "start"])
  /\ UNCHANGED <<srv, orc, crashes>>

\* Creation fails; with Docker the container may exist nevertheless (the
\* network connection that follows its creation failed) and nobody removes it.
CreateFails(c) ==
  LET r == RuntimeFor(c, call[c].cur) IN
  /\ call[c].pc = "replace" /\ call[c].found = {}
  /\ \/ /\ \/ Faults \/ ~Reachable(c, r)
           \/ r = Docker /\ Listed(Docker, call[c].cur) # {}
        /\ UNCHANGED ctr
     \/ /\ Faults /\ r = Docker /\ Listed(Docker, call[c].cur) = {} /\ Reachable(c, r)
        /\ ctr' = [ctr EXCEPT ![<<c, call[c].cur>>] = [rt |-> r, status |-> "created"]]
  /\ Becomes(c, [call[c] EXCEPT !.pc = "cleanup"])
  /\ UNCHANGED <<srv, orc, crashes>>

\* The Docker daemon starts a container in one request.
StartContainer(c) ==
  LET i == <<c, call[c].cur>> IN
  /\ call[c].pc = "start" /\ ctr[i].rt = Docker
  /\ ctr[i].status = "created" /\ Reachable(c, Docker)
  /\ ctr' = [ctr EXCEPT ![i].status = "running"]
  /\ Becomes(c, [call[c] EXCEPT !.pc = "register"])
  /\ UNCHANGED <<srv, orc, crashes>>

\* The host runtime finds the process under h.mu and lets go of the lock ...
LookupProcess(c) ==
  LET i == <<c, call[c].cur>> IN
  /\ call[c].pc = "start" /\ ctr[i].rt # Docker
  /\ ctr[i].status = "created"
  /\ Becomes(c, [call[c] EXCEPT !.pc = "fork"])
  /\ UNCHANGED <<srv, orc, ctr, crashes>>

\* ... and forks it later, without a second look: a RemoveContainer in between
\* saw no process to kill and deleted the entry.
ForkProcess(c) ==
  LET i == <<c, call[c].cur>> IN
  /\ call[c].pc = "fork"
  /\ ctr' = [ctr EXCEPT ![i].status = IF @ = "created" THEN "running" ELSE "lost"]
  /\ Becomes(c, [call[c] EXCEPT !.pc = "register"])
  /\ UNCHANGED <<srv, orc, crashes>>

\* Mutant: the error is a warning and the loop goes on.
StartFailsContinue(c) ==
  LET s == call[c].cur IN
  /\ call[c].pc \in {"start", "fork"}
  /\ \/ Faults \/ ~Reachable(c, ctr[<<c, s>>].rt)
     \/ call[c].pc = "start" /\ ctr[<<c, s>>].status # "created"
  /\ Becomes(c, [call[c] EXCEPT !.pc = "pick", !.cur = Nil, !.todo = @ \ {s}])
  /\ UNCHANGED <<srv, orc, ctr, crashes>>

\* The container stays behind as it is: it is not in containerIDs yet.
StartFails(c) ==
  LET i == <<c, call[c].cur>> IN
  /\ call[c].pc \in {"start", "fork"}
  /\ \/ Faults \/ ~Reachable(c, ctr[i].rt)
     \/ call[c].pc = "start" /\ ctr[i].status # "created"
  /\ Becomes(c, [call[c] EXCEPT !.pc = "cleanup"])
  /\ UNCHANGED <<srv, orc, ctr, crashes>>

\* Mutants: the entry names the host runtime; the entry is forgotten.
RegisterOnHost(c) ==
  LET s == call[c].cur IN
  /\ call[c].pc = "register"
  /\ orc' = [orc EXCEPT ![c].rt[s] = orc[c].host]
  /\ Becomes(c, [call[c] EXCEPT !.pc = "collect", !.ids = @ \cup {<<c, s>>}])
  /\ UNCHANGED <<srv, ctr, crashes>>

RegisterIdOnly(c) ==
  LET s == call[c].cur IN
  /\ call[c].pc = "register"
  /\ Becomes(c, [call[c] EXCEPT !.pc = "collect", !.ids = @ \cup {<<c, s>>}])
  /\ UNCHANGED <<srv, orc, ctr, crashes>>

\* containerIDs[name] = id and, under o.mu, containerRT[id] = rt.
Register(c) ==
  LET s == call[c].cur IN
  /\ call[c].pc = "register"
  /\ orc' = [orc EXCEPT ![c].rt[s] = RuntimeFor(c, s)]
  /\ Becomes(c, [call[c] EXCEPT !.pc = "collect", !.ids = @ \cup {<<c, s>>}])
  /\ UNCHANGED <<srv, ctr, crashes>>

\* After the health wait, whose verdict is only a warning: the collector.
StartCollector(c) ==
  LET s == call[c].cur IN
  /\ call[c].pc = "collect"
  /\ orc' = [orc EXCEPT ![c].collectors = @ \cup {s}]
  /\ Becomes(c, [call[c] EXCEPT !.pc = "pick", !.cur = Nil, !.todo = @ \ {s}])
  /\ UNCHANGED <<srv, ctr, crashes>>

StartDone(c) ==
  /\ call[c].pc = "pick" /\ call[c].todo = {}
  /\ Becomes(c, [call[c] EXCEPT !.pc = "done", !.ids = {},
                                !.result = Return(c, "ok")])
  /\ UNCHANGED <<srv, orc, ctr, crashes>>

(* Orchestrator.cleanup, over containerIDs *)

\* Mutant: always the host's.
CleanupLookupHost(c) ==
  /\ call[c].pc = "cleanup"
  /\ \E i \in call[c].ids :
       Becomes(c, [call[c] EXCEPT !.pc = "cleanstop", !.cur = i[2],
                                  !.target = orc[c].host])
  /\ UNCHANGED <<srv, orc, ctr, crashes>>

\* The runtime containerRT names at this moment, else the host's.
CleanupLookup(c) ==
  /\ call[c].pc = "cleanup"
  /\ \E i \in call[c].ids :
       Becomes(c, [call[c] EXCEPT !.pc = "cleanstop", !.cur = i[2],
                                  !.target = IF orc[c].rt[i[2]] # Nil
                                          THEN orc[c].rt[i[2]] ELSE orc[c].host])
  /\ UNCHANGED <<srv, orc, ctr, crashes>>

\* StopService, its error ignored (not found on that runtime, or cancelled).
CleanupStop(c) ==
  LET i == <<c, call[c].cur>> IN
  /\ call[c].pc = "cleanstop"
  /\ IF ctr[i].rt = call[c].target /\ ctr[i].status = "running" /\ Reachable(c, ctr[i].rt)
     THEN \E end \in Ends(ctr[i].rt) : ctr' = [ctr EXCEPT ![i].status = end]
     ELSE UNCHANGED ctr
  /\ Becomes(c, [call[c] EXCEPT !.pc = "cleanremove"])
  /\ UNCHANGED <<srv, orc, crashes>>

\* RemoveService, its error ignored.
CleanupRemove(c) ==
  LET i == <<c, call[c].cur>> IN
  /\ call[c].pc = "cleanremove"
  /\ IF ctr[i].rt = call[c].target /\ Reachable(c, ctr[i].rt)
     THEN Remove({i}) ELSE UNCHANGED ctr
  /\ Becomes(c, [call[c] EXCEPT !.pc = "cleanup", !.ids = @ \ {i}])
  /\ UNCHANGED <<srv, orc, crashes>>

CleanupDone(c) ==
  /\ call[c].pc = "cleanup" /\ call[c].ids = {}
  /\ Becomes(c, [call[c] EXCEPT !.pc = "done", !.cur = Nil, !.todo = {},
                                !.target = Nil, !.result = Return(c, "error")])
  /\ UNCHANGED <<srv, orc, ctr, crashes>>

(* server.Stop, server.Reset and Orchestrator.Stop *)

\* Stop works on the published orchestrator, whatever project it was made for.
StopCall(c, p) ==
  /\ Issue(c, "Stop")
  /\ \/ /\ srv.host = Nil \/ srv.orch = Nil \/ Cyclic(p)
        /\ Becomes(c, [call[c] EXCEPT !.kind = "Stop", !.proj = p, !.pc = "done",
                                      !.result = "error"])
     \/ /\ srv.host # Nil /\ srv.orch # Nil /\ ~Cyclic(p)
        /\ Becomes(c, [call[c] EXCEPT !.kind = "Stop", !.proj = p, !.pc = "stopnext",
                                      !.orch = srv.orch, !.todo = Services[p]])
  /\ UNCHANGED <<srv, orc, ctr, crashes>>

\* Reset makes an orchestrator of its own, which it never publishes.
ResetCall(c, p) ==
  /\ Issue(c, "Reset")
  /\ \/ /\ srv.host = Nil \/ Cyclic(p) \/ Faults
        /\ Becomes(c, [call[c] EXCEPT !.kind = "Reset", !.proj = p, !.pc = "done",
                                      !.result = "error"])
        /\ UNCHANGED orc
     \/ /\ srv.host # Nil /\ ~Cyclic(p)
        /\ orc' = [orc EXCEPT ![c] = [NoOrch EXCEPT !.host = srv.host,
                                                    !.docker = srv.docker]]
        /\ Becomes(c, [call[c] EXCEPT !.kind = "Reset", !.proj = p, !.orch = c,
                                      !.pc = "stopnext", !.todo = Services[p]])
  /\ UNCHANGED <<srv, ctr, crashes>>

\* Under o.mu: the runtime of the next service, dependents first.
StopLookup(c) ==
  /\ call[c].pc = "stopnext"
  /\ \E s \in StopReady(c) :
       Becomes(c, [call[c] EXCEPT !.pc = "stoplist", !.cur = s,
                                  !.target = LookupRuntime(call[c].orch, s)])
  /\ UNCHANGED <<srv, orc, ctr, crashes>>

\* When the list cannot be had the service is skipped, its collector included.
StopList(c) ==
  LET s == call[c].cur IN
  /\ call[c].pc = "stoplist"
  /\ IF Reachable(c, call[c].target)
     THEN Becomes(c, [call[c] EXCEPT !.pc = "stopone",
                                     !.found = Listed(call[c].target, s)])
     ELSE Becomes(c, [call[c] EXCEPT !.pc = "stopnext", !.cur = Nil, !.target = Nil,
                                     !.todo = @ \ {s}])
  /\ UNCHANGED <<srv, orc, ctr, crashes>>

\* StopService on one container of the list; an error is only a warning.
StopOne(c) ==
  /\ call[c].pc = "stopone"
  /\ \E i \in call[c].found :
       /\ IF ctr[i].status = "running" /\ Reachable(c, call[c].target)
          THEN \E end \in Ends(ctr[i].rt) : ctr' = [ctr EXCEPT ![i].status = end]
          ELSE UNCHANGED ctr
       /\ Becomes(c, [call[c] EXCEPT !.found = @ \ {i}])
  /\ UNCHANGED <<srv, orc, crashes>>

\* "Service stopped": the collector of this orchestrator is dropped.
ServiceStopped(c) ==
  LET s == call[c].cur IN
  /\ call[c].pc = "stopone" /\ call[c].found = {}
  /\ orc' = [orc EXCEPT ![call[c].orch].collectors = @ \ {s}]
  /\ Becomes(c, [call[c] EXCEPT !.pc = "stopnext", !.cur = Nil, !.target = Nil,
                                !.todo = @ \ {s}])
  /\ UNCHANGED <<srv, ctr, crashes>>

\* containerRT is emptied.  Stop returns; Reset goes on to Start on the same
\* orchestrator unless its handler already saw the client leave.
StopDone(c) ==
  /\ call[c].pc = "stopnext" /\ call[c].todo = {}
  /\ orc' = [orc EXCEPT ![call[c].orch].rt = NoOrch.rt]
  /\ \/ /\ call[c].kind = "Stop" \/ call[c].cancelled
        /\ Becomes(c, [call[c] EXCEPT !.pc = "done", !.result = Return(c, "ok")])
     \/ /\ call[c].kind = "Reset"
        /\ Becomes(c, [call[c] EXCEPT !.pc = "network"])
  /\ UNCHANGED <<srv, ctr, crashes>>

(* The environment *)

\* The client's deadline passes or it is interrupted: this is the answer it
\* sees.  The context is cancelled, but the work goes on.
Disconnect(c) ==
  /\ Disconnects /\ c \in InFlight
  /\ Becomes(c, [call[c] EXCEPT !.cancelled = TRUE, !.result = "cancelled"])
  /\ UNCHANGED <<srv, orc, ctr, crashes>>

\* A service ends by itself, normally or by a signal.
ServiceExit(i) ==
  /\ Exits
  /\ \/ /\ ctr[i].status = "running"
        /\ \E end \in Ends(ctr[i].rt) : ctr' = [ctr EXCEPT ![i].status = end]
     \/ ctr[i].status = "lost" /\ ctr' = [ctr EXCEPT ![i].status = "removed"]
  /\ UNCHANGED <<srv, orc, call, crashes>>

\* The daemon is killed and started again: its memory is lost, containers and
\* host processes live on.
Crash ==
  /\ crashes < MaxCrashes
  /\ crashes' = crashes + 1
  /\ srv' = NoServer
  /\ orc' = [c \in Call |-> NoOrch]
  /\ call' = [c \in Call |->
       IF call[c].kind = "none" THEN NoCall
       ELSE [NoCall EXCEPT !.kind = call[c].kind, !.proj = call[c].proj, !.pc = "done",
                           !.result = Return(c, "crashed")]]
  /\ UNCHANGED ctr

-------------------------------------------------------------------------------
StartStep(c) ==
  \/ ConnectRuntimes(c) \/ ConnectFails(c)
  \/ ReadDockerRuntime(c) \/ SetupOrchestrator(c) \/ SetupFails(c)
  \/ EnsureNetwork(c) \/ NetworkFails(c)
  \/ PickService(c) \/ PrepareFails(c) \/ ListExisting(c) \/ RemoveExisting(c)
  \/ CreateContainer(c) \/ CreateFails(c)
  \/ StartContainer(c) \/ LookupProcess(c) \/ ForkProcess(c) \/ StartFails(c)
  \/ Register(c) \/ StartCollector(c) \/ StartDone(c)

CleanupStep(c) ==
  CleanupLookup(c) \/ CleanupStop(c) \/ CleanupRemove(c) \/ CleanupDone(c)

StopStep(c) ==
  StopLookup(c) \/ StopList(c) \/ StopOne(c) \/ ServiceStopped(c) \/ StopDone(c)

Handler(c) == StartStep(c) \/ CleanupStep(c) \/ StopStep(c)

Client(c, p) == StartCall(c, p) \/ StopCall(c, p) \/ ResetCall(c, p)

Next ==
  \/ \E c \in Call, p \in Project : Client(c, p)
  \/ \E c \in Call : Handler(c) \/ Disconnect(c)
  \/ \E i \in ContainerId : ServiceExit(i)
  \/ Crash

Spec == Init /\ [][Next]_vars

-------------------------------------------------------------------------------
(* Properties of every instance *)

Runs(i) == ctr[i].status \in {"running", "lost"}

Running(S) == {i \in ContainerId : i[2] \in S /\ Runs(i)}

\* What containerRT says of a container is the runtime that runs it: Stop, Logs
\* and cleanup address containers through this map (orchestrator.go:338, 505),
\* which Stop empties and Start fills while other handlers read it.
RoutingSound ==
  \A c \in Call, s \in Service :
    orc[c].rt[s] # Nil =>
      /\ ctr[<<c, s>>].rt = orc[c].rt[s]
      /\ ctr[<<c, s>>].status \notin {"none", "created"}

\* No container exists unless the same call has started every service it
\* depends on before, whatever failed, was cancelled or was removed meanwhile
\* by another call (orchestrator.go:84 "starts all services in dependency order").
DependencyOrder ==
  \A c \in Call, s \in Service :
    ctr[<<c, s>>].status # "none" =>
      \A d \in Deps(call[c].proj, s) : ctr[<<c, d>>].status \notin {"none", "created"}

(* Properties of instances that serve one call at a time, without faults *)

\* Call c of RPC k answers its client "ok" in this step.
Answers(c, k) == call[c].kind = k /\ call[c].result = "none" /\ call'[c].result = "ok"

\* When Stop answers "stopped" no container or process of the project runs any
\* more, whichever calls came before and whichever runtime has them
\* (orchestrator.go:335 "find containers for this service across all runtimes").
StopStops == [][\A c \in Call : Answers(c, "Stop") => Running(Cfg(c)) = {}]_vars

\* When Start answers, each service of the project runs, exactly once, as the
\* container this Start made, and the published orchestrator routes to it:
\* earlier incarnations were replaced (lifecycle.go:139 "remove existing
\* container if present").
StartReplaces ==
  [][\A c \in Call : Answers(c, "Start") =>
       /\ Running(Cfg(c)) = {<<c, s>> : s \in Cfg(c)}
       /\ \A s \in Cfg(c) : LookupRuntime(srv.orch, s) = ctr[<<c, s>>].rt]_vars

\* A Status right after a Start that answered says "running".
StatusAfterStart ==
  [][\A c \in Call : Answers(c, "Start") => Status(call[c].proj)' = "running"]_vars

\* While Stop stops a service nothing that depends on it still runs
\* (orchestrator.go:299 "stops all services in reverse dependency order").
StopOrder ==
  \A c \in Call : call[c].pc = "stopone" =>
    Running({t \in Cfg(c) : call[c].cur \in Deps(call[c].proj, t)}) = {}

(* Properties about failures *)

\* No Stop was issued and no client has left.
Undisturbed == \A c \in Call : call[c].kind # "Stop" /\ ~call[c].cancelled

\* Another Start or Reset, of a service of that name, was issued.
Taken(c, s) == \E d \in Call \ {c} : call[d].kind \in {"Start", "Reset"} /\ s \in Cfg(d)

\* As long as no Stop is about and no client leaves, a Start that failed leaves
\* none of the services it had started running (orchestrator.go:502 "cleanup
\* stops and removes started containers on failure").  With Docker this is so
\* whatever else overlaps; a host process may be left if another Start removed
\* its entry between lookup and fork (process.go:250, 260), and only then.
\* Stop empties containerRT, by which cleanup finds the runtime of a container,
\* and a client that leaves cancels the context cleanup works with.
FailedStartCleansUp ==
  Undisturbed =>
    \A c \in Call : call[c].kind = "Start" /\ call[c].result = "error" =>
      \A s \in Service :
        Runs(<<c, s>>) => /\ ctr[<<c, s>>].status = "lost" /\ ctr[<<c, s>>].rt # Docker
                          /\ Taken(c, s)

(* What the repository says and the code does not do *)

\* A Status right after a Stop that answered says "stopped" (the end-to-end
\* workflow of DevBoxOS_Testing_Strategy.md; daemon.go Status, process.go mapStatus).
StatusAfterStop ==
  [][\A c \in Call : Answers(c, "Stop") => Status(call[c].proj)' = "stopped"]_vars

\* No service runs twice, however Starts overlap (lifecycle.go:139; the testing
\* strategy has the second Start blocked by a lock file).
AtMostOneRunning == \A s \in Service : Cardinality(Running({s})) <= 1

\* A Start that failed leaves nothing running that it had started, whatever
\* overlaps it (orchestrator.go:502).
FailedStartLeavesNothing ==
  Undisturbed =>
    \A c \in Call : call[c].kind = "Start" /\ call[c].result = "error" =>
      \A s \in Service : ~Runs(<<c, s>>)

\* When the work of a Start whose client left is over, nothing it started runs
\* (daemon.go:165 returns; the goroutine and its cleanup use the same context).
DisconnectCleansUp ==
  \A c \in Call : call[c].kind = "Start" /\ call[c].result = "cancelled" /\ call[c].pc = "done"
    => \A s \in Service : ~Runs(<<c, s>>)

\* With every dependency, image and port in order, one Start at a time never
\* fails, whichever projects were started before (daemon.go:98 keeps the
\* runtimes of the first Start).
StartSucceeds ==
  \A c \in Call : call[c].kind = "Start" /\ ~Cyclic(call[c].proj) => call[c].result # "error"
===============================================================================
