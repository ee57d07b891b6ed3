---------------------------- MODULE HostRuntime ----------------------------
(***************************************************************************)
(* The host runtime: services as operating system processes, in the steps  *)
(* in which goroutines of the engine see them.  The table of processes is  *)
(* under a mutex, the processes behind its entries are not.  A worker is a *)
(* goroutine that starts, stops or cleans up one service through the       *)
(* lifecycle.  A process may have a child that outlives it: the command of *)
(* a service is a line for a shell.                                        *)
(***************************************************************************)
EXTENDS Naturals, FiniteSets

CONSTANTS
  Worker,      \* goroutines, each with one operation at a time
  Service,
  Proc,        \* bound: container ids handed out
  MaxOps,      \* bound: operations begun
  Platforms,   \* "unix", "windows": one is chosen for a behaviour
  Faults,      \* may forks fail?
  None

ASSUME HostAssumption ==
  /\ Platforms \subseteq {"unix", "windows"} /\ MaxOps \in Nat /\ Faults \in BOOLEAN
  /\ None \notin Service \cup Proc

VARIABLES
  platform,
  proc,        \* per id: in the table?, its service, its life
  child,       \* ids with a live descendant process
  worker,      \* per worker: operation and control point
  ops,         \* operations begun
  overlapped   \* history: services that two workers were creating at once

hostVars == <<platform, proc, child, worker, ops, overlapped>>

\* life: not started, running, ended with an exit status, ended by a signal;
\* reaped: Wait has returned, ProcessState is set and done is closed.
ProcType == [listed : BOOLEAN, service : Service \cup {None},
             life : {"new", "alive", "exit", "signal"}, reaped : BOOLEAN]

WorkerType == [op : {"none", "start", "stop", "cleanup", "restart"},
               service : Service \cup {None},
               pc : {"idle", "list", "remove", "lookup", "fork", "stop", "grace", "kill",
                     "discard", "ok", "failed", "watch", "backoff", "health", "retry"},
               id : Proc \cup {None}, found : SUBSET Proc, stopped : SUBSET Proc]

HostTypeOK ==
  /\ platform \in Platforms
  /\ proc \in [Proc -> ProcType]
  /\ child \subseteq Proc
  /\ worker \in [Worker -> WorkerType]
  /\ ops \in 0..MaxOps
  /\ overlapped \subseteq Service

NoProc == [listed |-> FALSE, service |-> None, life |-> "new", reaped |-> FALSE]
NoWorker == [op |-> "none", service |-> None, pc |-> "idle", id |-> None,
             found |-> {}, stopped |-> {}]

HostInit ==
  /\ platform \in Platforms
  /\ proc = [i \in Proc |-> NoProc]
  /\ child = {}
  /\ worker = [w \in Worker |-> NoWorker]
  /\ ops = 0 /\ overlapped = {}

At(w, pc) == worker[w].pc = pc
Becomes(w, k) == worker' = [worker EXCEPT ![w] = k]
Goto(w, pc) == Becomes(w, [worker[w] EXCEPT !.pc = pc])

Alive(i) == proc[i].life = "alive"
Fresh == {i \in Proc : proc[i].service = None}

\* mapStatus: ProcessState.Exited() is false of a process a signal ended.
MapStatus(i) ==
  IF proc[i].life = "new" THEN "created"
  ELSE IF proc[i].reaped /\ proc[i].life = "exit" THEN "exited"
  ELSE "running"

\* ListContainers with the label of a service; GetContainerInfo finds the same.
ListContainers(s) == {i \in Proc : proc[i].listed /\ proc[i].service = s}

Creating(w) == worker[w].pc \in {"list", "remove", "lookup", "fork"}

\* SIGKILL; a child is not told.
Killed(p) == IF p.life = "alive" THEN [p EXCEPT !.life = "signal"] ELSE p

\* killProcessTree does something on Windows only, and finds the tree of a process
\* only as long as that lives.
KillTree(i) ==
  IF platform = "windows" /\ Alive(i)
  THEN proc' = [proc EXCEPT ![i] = Killed(@)] /\ child' = child \ {i}
  ELSE UNCHANGED <<proc, child>>

-----------------------------------------------------------------------------
(* Lifecycle.StartService *)

Begin(w, op, s, pc, found) ==
  /\ worker[w].op = "none" /\ ops < MaxOps
  /\ ops' = ops + 1
  /\ Becomes(w, [NoWorker EXCEPT !.op = op, !.service = s, !.pc = pc, !.found = found])
  /\ overlapped' = overlapped \cup
       (IF pc = "list" /\ \E v \in Worker \ {w} : Creating(v) /\ worker[v].service = s
        THEN {s} ELSE {})
  /\ UNCHANGED <<platform, proc, child>>

StartService(w, s) == Begin(w, "start", s, "list", {})

\* Mutant: what runs is left alone.
ListExistingEnded(w) ==
  /\ At(w, "list")
  /\ Becomes(w, [worker[w] EXCEPT !.pc = "remove",
       !.found = {i \in ListContainers(worker[w].service) : MapStatus(i) # "running"}])
  /\ UNCHANGED <<platform, proc, child, ops, overlapped>>

ListExisting(w) ==
  /\ At(w, "list")
  /\ Becomes(w, [worker[w] EXCEPT !.pc = "remove", !.found = ListContainers(worker[w].service)])
  /\ UNCHANGED <<platform, proc, child, ops, overlapped>>

\* RemoveContainer(force), under h.mu: kill and forget.
RemoveContainer(i) == proc' = [proc EXCEPT ![i] = [Killed(@) EXCEPT !.listed = FALSE]]

RemoveExisting(w) ==
  /\ At(w, "remove")
  /\ \E i \in worker[w].found :
       RemoveContainer(i) /\ Becomes(w, [worker[w] EXCEPT !.found = @ \ {i}])
  /\ UNCHANGED <<platform, child, ops, overlapped>>

\* CreateContainer registers a process nobody has started.
CreateContainer(w) ==
  /\ At(w, "remove") /\ worker[w].found = {}
  /\ Fresh # {}
  /\ LET i == CHOOSE j \in Fresh : TRUE IN
       /\ proc' = [proc EXCEPT ![i].listed = TRUE, ![i].service = worker[w].service]
       /\ Becomes(w, [worker[w] EXCEPT !.pc = "lookup", !.id = i])
  /\ UNCHANGED <<platform, child, ops, overlapped>>

\* How StartService ends: an operation ends, a restart goes on (module Recovery).
StartEnds(w, ok) ==
  IF worker[w].op = "restart"
  THEN Goto(w, IF ok THEN "health" ELSE "retry")
  ELSE Becomes(w, [NoWorker EXCEPT !.pc = IF ok THEN "ok" ELSE "failed",
                                   !.service = worker[w].service, !.id = worker[w].id])

\* StartContainer looks the process up under h.mu, then forks without it.
LookupProcess(w) ==
  /\ At(w, "lookup")
  /\ IF proc[worker[w].id].listed THEN Goto(w, "fork") ELSE StartEnds(w, FALSE)
  /\ UNCHANGED <<platform, proc, child, ops, overlapped>>

StartContainer(w) ==
  /\ At(w, "fork")
  /\ \/ /\ proc' = [proc EXCEPT ![worker[w].id].life = "alive"]
        \* The shell or what it runs.  Bound: one process has a child at a time.
        /\ child' = child \/ (child = {} /\ child' = {worker[w].id})
        /\ StartEnds(w, TRUE)
     \/ /\ Faults /\ StartEnds(w, FALSE) /\ UNCHANGED <<proc, child>>
  /\ UNCHANGED <<platform, ops, overlapped>>

-----------------------------------------------------------------------------
(* Orchestrator.Stop of one service, and cleanup of one container *)

StopService(w, s) == Begin(w, "stop", s, "stop", ListContainers(s))

\* A Start that fails takes back what it had started itself.
Cleanup(w, s) ==
  \E i \in Proc :
    /\ proc[i].service = s /\ proc[i].life # "new"
    /\ Begin(w, "cleanup", s, "stop", {i})

\* One container is done: the next one, or with cleanup its removal.
ThenNext(w, i, stopped) ==
  Becomes(w, [worker[w] EXCEPT !.id = i, !.found = @ \ {i}, !.stopped = @ \cup stopped,
                !.pc = IF worker[w].op = "cleanup" THEN "discard" ELSE "stop"])

\* StopContainer: unknown is an error, not started or exited is fine; otherwise
\* the process tree first, where that works.
StopContainer(w) ==
  /\ At(w, "stop")
  /\ \E i \in worker[w].found :
       IF proc[i].listed /\ proc[i].life # "new" /\ MapStatus(i) # "exited"
       THEN /\ KillTree(i)
            /\ Becomes(w, [worker[w] EXCEPT !.pc = "grace", !.id = i])
       ELSE /\ ThenNext(w, i, IF proc[i].listed /\ proc[i].life # "new" THEN {i} ELSE {})
            /\ UNCHANGED <<proc, child>>
  /\ UNCHANGED <<platform, ops, overlapped>>

\* Interrupt, then wait for done ...
Obeyed(w) ==
  /\ At(w, "grace") /\ proc[worker[w].id].reaped
  /\ ThenNext(w, worker[w].id, {worker[w].id})
  /\ UNCHANGED <<platform, proc, child, ops, overlapped>>

\* ... or for the grace period.
GraceOver(w) ==
  /\ At(w, "grace") /\ ~proc[worker[w].id].reaped
  /\ Goto(w, "kill")
  /\ UNCHANGED <<platform, proc, child, ops, overlapped>>

\* Mutant: the tree is killed, which on Unix nothing does.
KillContainerTreeOnly(w) ==
  /\ At(w, "kill")
  /\ KillTree(worker[w].id)
  /\ ThenNext(w, worker[w].id, {worker[w].id})
  /\ UNCHANGED <<platform, ops, overlapped>>

\* The process, and then its tree, if Windows still has the process.
KillContainer(w) ==
  /\ At(w, "kill")
  /\ LET i == worker[w].id IN
       /\ proc' = [proc EXCEPT ![i] = Killed(@)]
       /\ \/ UNCHANGED child
          \/ platform = "windows" /\ Alive(i) /\ child' = child \ {i}
       /\ ThenNext(w, i, {i})
  /\ UNCHANGED <<platform, ops, overlapped>>

\* Stop leaves the containers in the table, cleanup removes them.
StopEnds(w) ==
  /\ At(w, "stop") /\ worker[w].found = {}
  /\ Becomes(w, [NoWorker EXCEPT !.pc = "ok", !.service = worker[w].service,
                                 !.stopped = worker[w].stopped])
  /\ UNCHANGED <<platform, proc, child, ops, overlapped>>

Discard(w) ==
  /\ At(w, "discard")
  /\ IF proc[worker[w].id].listed THEN RemoveContainer(worker[w].id) ELSE UNCHANGED proc
  /\ Becomes(w, [NoWorker EXCEPT !.pc = "ok", !.service = worker[w].service,
                                 !.stopped = worker[w].stopped])
  /\ UNCHANGED <<platform, child, ops, overlapped>>

-----------------------------------------------------------------------------
(* The processes, and the goroutine in Wait *)

ProcessEnds(i) ==
  /\ Alive(i)
  /\ \E life \in {"exit", "signal"} : proc' = [proc EXCEPT ![i].life = life]
  /\ UNCHANGED <<platform, child, worker, ops, overlapped>>

ChildEnds(i) ==
  /\ i \in child
  /\ child' = child \ {i}
  /\ UNCHANGED <<platform, proc, worker, ops, overlapped>>

Reap(i) ==
  /\ proc[i].life \in {"exit", "signal"} /\ ~proc[i].reaped
  /\ proc' = [proc EXCEPT ![i].reaped = TRUE]
  /\ UNCHANGED <<platform, child, worker, ops, overlapped>>

Run(w) ==
  \/ ListExisting(w) \/ RemoveExisting(w) \/ CreateContainer(w)
  \/ LookupProcess(w) \/ StartContainer(w)
  \/ StopContainer(w) \/ Obeyed(w) \/ GraceOver(w) \/ KillContainer(w)
  \/ StopEnds(w) \/ Discard(w)

Processes == \E i \in Proc : ProcessEnds(i) \/ ChildEnds(i) \/ Reap(i)

-----------------------------------------------------------------------------
\* A service has at most one process alive, and the table knows it, as long as no
\* two goroutines were creating it at once: nothing that stops, cleans up,
\* restarts or ends meanwhile leaves a stray one (StartService removes what it
\* lists, StartContainer finds what CreateContainer registered, RemoveContainer
\* kills before it forgets).
NoStray ==
  \A s \in Service \ overlapped :
    LET alive == {i \in Proc : proc[i].service = s /\ Alive(i)}
    IN  Cardinality(alive) <= 1 /\ alive \subseteq ListContainers(s)

\* Each process that a Stop found started is dead when it returns, whether it
\* obeyed the interrupt, was killed after the grace period or had ended before
\* (StopContainer).  Its children are another matter: NoSurvivors.
StoppedIsDead ==
  \A w \in Worker :
    At(w, "ok") => \A i \in worker[w].stopped : ~Alive(i)

\* "Kill child processes again to catch any survivors" (process.go:314): nothing
\* of a process that a Stop had to kill survives it (StopContainer, killProcessTree).
NoSurvivors ==
  [][\A w \in Worker : At(w, "kill") /\ ~At(w, "kill")' => worker[w].id \notin child']_hostVars
=============================================================================
