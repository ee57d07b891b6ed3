---------------------------- MODULE StartPorts -----------------------------
(***************************************************************************)
(* The host ports of `devbox start` (engine/internal/orchestrator, Start   *)
(* and resolvePortConflicts, engine/internal/networking/egress.go).  A     *)
(* Start looks at every port twice, for all the services before any is     *)
(* started and for each before it is started, by binding the port and      *)
(* letting it go; a port that is taken is replaced by the next free one,   *)
(* which nobody reserves; if there is none, the plan only warns and the    *)
(* launch fails.  Docker binds a port when the container starts; a host    *)
(* process binds its own some time after it was forked.  A service that is *)
(* running keeps its port until its successor is created.                  *)
(***************************************************************************)
EXTENDS ProjectScan

CONSTANTS
  OutsidePorts,  \* the ports that programs outside the project may bind
  PortsTried,    \* how many ports FindFreePort tries: 1000 in the code
  MaxPort,       \* the greatest port there is: 65535
  MaxOutside,    \* bound on how often other programs bind a port
  MaxStarts      \* bound on the Starts

ASSUME PortsAssumption ==
  PortsTried \in Nat /\ MaxPort \in Nat /\ MaxOutside \in Nat /\ MaxStarts \in Nat

VARIABLES
  phase,      \* of the Start: off, plan, launch, up or failed
  ports,      \* the configuration of this Start in memory: service -> port
  pending,       \* the services this phase has still to see
  now,        \* the service whose port was seen taken, or found free
  listens,    \* the port each service's instance has bound, 0 if none
  binding,    \* the host processes that have not bound their port yet
  outside,    \* the ports that other programs have bound
  disturbed,  \* another program bound a port during this Start
  moves,      \* how often other programs bound a port
  starts      \* Starts so far

portVars == <<phase, ports, pending, now, listens, binding, outside, disturbed,
              moves, starts>>
projectVars == <<scanVars, portVars>>

Services == DOMAIN yml
Nobody == [service |-> 0, step |-> "none"]

\* Services with a build, and those without a command, run on Docker.
OnDocker(n) == yml[n].build \/ ~yml[n].command

PortTypeOK ==
  /\ ScanTypeOK
  /\ phase \in {"off", "plan", "launch", "up", "failed"}
  /\ phase # "off" => ports \in [Services -> Nat]
  /\ pending \subseteq Services
  /\ now.service \in Services \cup {0} /\ now.step \in {"none", "find", "create"}
  /\ phase # "off" => listens \in [Services -> Nat]
  /\ binding \subseteq Services
  /\ outside \subseteq OutsidePorts
  /\ disturbed \in BOOLEAN
  /\ moves \in 0..MaxOutside /\ starts \in 0..MaxStarts

ProjectInit ==
  /\ ScanInit
  /\ phase = "off" /\ ports = Absent /\ pending = {} /\ now = Nobody
  /\ listens = Absent /\ binding = {} /\ outside = {} /\ disturbed = FALSE
  /\ moves = 0 /\ starts = 0

-----------------------------------------------------------------------------
Taken(p) == p \in outside \/ \E n \in DOMAIN listens : listens[n] = p

\* CheckPortAvailability: net.Listen knows no port above MaxPort.
CanBind(p) == p <= MaxPort /\ ~Taken(p)

\* FindFreePort: the first of the next ports that can be bound; none is its error.
FreePorts(p) == {q \in p..(p + PortsTried - 1) : CanBind(q)}
FindFreePort(p) == CHOOSE q \in FreePorts(p) : \A r \in FreePorts(p) : q <= r

Starting == phase \in {"plan", "launch"}

\* A Start reads devbox.yml.  Bound: only the projects a user begins with are
\* started, not those to which files were added.
StartProject ==
  /\ yml # Absent /\ added = 0
  /\ ~Starting /\ starts < MaxStarts
  /\ phase' = "plan"
  /\ ports' = [n \in Services |-> yml[n].port]
  /\ pending' = {n \in Services : yml[n].port # 0}
  /\ listens' = IF phase = "off" THEN [n \in Services |-> 0] ELSE listens
  /\ disturbed' = FALSE
  /\ starts' = starts + 1
  /\ UNCHANGED <<now, binding, outside, moves>>

\* resolvePortConflicts, in the order of a Go map: is the port taken?
PlanCheck(n) ==
  /\ phase = "plan" /\ now = Nobody /\ n \in pending
  /\ pending' = pending \ {n}
  /\ now' = IF CanBind(ports[n]) THEN Nobody ELSE [service |-> n, step |-> "find"]
  /\ UNCHANGED <<phase, ports, listens, binding, outside, disturbed, moves, starts>>

PlanDone ==
  /\ phase = "plan" /\ now = Nobody /\ pending = {}
  /\ phase' = "launch"
  /\ pending' = Services
  /\ UNCHANGED <<ports, now, listens, binding, outside, disturbed, moves, starts>>

\* A Start that trusts the plan and does not look again.
LaunchCheckNot(n) ==
  /\ phase = "launch" /\ now = Nobody /\ n \in pending
  /\ pending' = pending \ {n}
  /\ now' = [service |-> n, step |-> "create"]
  /\ UNCHANGED <<phase, ports, listens, binding, outside, disturbed, moves, starts>>

\* Step 7 of Start, in the start order (no service depends on another): the port
\* of the next service is looked at again.
LaunchCheck(n) ==
  /\ phase = "launch" /\ now = Nobody /\ n \in pending
  /\ pending' = pending \ {n}
  /\ now' = [service |-> n,
             step |-> IF ports[n] = 0 \/ CanBind(ports[n]) THEN "create" ELSE "find"]
  /\ UNCHANGED <<phase, ports, listens, binding, outside, disturbed, moves, starts>>

\* cleanup: the Start failed, and what it started is stopped and removed; the old
\* instances it has not come to run on.
Cleanup(old) ==
  /\ listens' = [m \in Services |-> IF m \in old THEN listens[m] ELSE 0]
  /\ binding' = binding \cap old
  /\ pending' = {}
  /\ phase' = "failed"

\* The next free port takes the place of one that is taken.
Find ==
  LET n == now.service
      free == FreePorts(ports[n])
  IN /\ now.step = "find"
     /\ now' = IF phase = "launch" /\ free # {} THEN [now EXCEPT !.step = "create"] ELSE Nobody
     /\ ports' = IF free = {} THEN ports ELSE [ports EXCEPT ![n] = FindFreePort(@)]
     /\ IF phase = "launch" /\ free = {}
          THEN Cleanup(pending \cup {n})
          ELSE UNCHANGED <<phase, pending, listens, binding>>
     /\ UNCHANGED <<outside, disturbed, moves, starts>>

\* StartService: the old instance is removed, the new one created and started.
Create ==
  LET n == now.service
      p == ports[n]
      other == [listens EXCEPT ![n] = 0]
      busy == p > MaxPort \/ p \in outside \/ \E m \in Services : other[m] = p
  IN /\ now.step = "create"
     /\ IF p = 0 \/ ~OnDocker(n)
          THEN /\ listens' = other
               /\ binding' = IF p = 0 THEN binding \ {n} ELSE binding \cup {n}
               /\ UNCHANGED <<phase, pending>>
          ELSE IF busy
          THEN Cleanup(pending)
          ELSE /\ listens' = [listens EXCEPT ![n] = p]
               /\ binding' = binding \ {n}
               /\ UNCHANGED <<phase, pending>>
     /\ now' = Nobody
     /\ UNCHANGED <<ports, outside, disturbed, moves, starts>>

StartDone ==
  /\ phase = "launch" /\ now = Nobody /\ pending = {}
  /\ phase' = "up"
  /\ UNCHANGED <<ports, pending, now, listens, binding, outside, disturbed, moves, starts>>

-----------------------------------------------------------------------------
\* A host process binds the port it was given, or ends because it is taken.
Bind(n) ==
  /\ n \in binding
  /\ listens' = IF CanBind(ports[n]) THEN [listens EXCEPT ![n] = ports[n]] ELSE listens
  /\ binding' = binding \ {n}
  /\ UNCHANGED <<phase, ports, pending, now, outside, disturbed, moves, starts>>

\* Another program binds a port, or lets one go.
OutsideBinds(p) ==
  /\ starts < MaxStarts \/ phase # "up"
  /\ yml # Absent /\ added = 0
  /\ moves < MaxOutside /\ ~Taken(p)
  /\ outside' = outside \cup {p}
  /\ disturbed' = (disturbed \/ Starting)
  /\ moves' = moves + 1
  /\ UNCHANGED <<phase, ports, pending, now, listens, binding, starts>>

OutsideFrees(p) ==
  /\ p \in outside
  /\ outside' = outside \ {p}
  /\ UNCHANGED <<phase, ports, pending, now, listens, binding, disturbed, moves, starts>>

ProjectNext ==
  \/ ScanNext /\ UNCHANGED portVars
  \/ /\ \/ StartProject \/ Find \/ PlanDone \/ Create \/ StartDone
        \/ \E n \in Services : PlanCheck(n) \/ LaunchCheck(n) \/ Bind(n)
        \/ \E p \in OutsidePorts : OutsideBinds(p) \/ OutsideFrees(p)
     /\ UNCHANGED scanVars

ProjectSpec == ProjectInit /\ [][ProjectNext]_projectVars

-----------------------------------------------------------------------------
\* Two services of one Start may be planned for the same free port, and a port
\* that was free may be taken when its container starts; yet a Start fails for a
\* port only if none of the next PortsTried could be bound, if another program
\* took one meanwhile, or if a service is a host process, which may not have bound
\* its port when it was looked at (FindFreePort, resolvePortConflicts, Start).
StartGetsPorts ==
  [][phase # "failed" /\ phase' = "failed" =>
       \/ disturbed
       \/ \E n \in Services : ~OnDocker(n)
       \/ FreePorts(ports[now.service]) = {}]_projectVars

\* A Start whose port is in use ends with an error (DevBoxOS_Testing_Strategy.md:
\* "Port already in use"), and so every service that came up has the port of
\* devbox.yml.  Start takes the next free port instead.
ConfiguredPorts == phase = "up" => \A n \in Services : ports[n] = yml[n].port

\* The state is of its type, and two services of a generated configuration never
\* have the same port, however many asked for it and however far up the
\* conflicts of others pushed them (ResolveConflicts).
ProjectInv ==
  PortTypeOK /\ PortsDistinct
=============================================================================
