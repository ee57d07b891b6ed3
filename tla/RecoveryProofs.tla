--------------------------- MODULE RecoveryProofs ---------------------------
(***************************************************************************)
(* HostInv and StoppedIsDead of Recovery and HostRuntime, for every number *)
(* of goroutines, services, processes, operations and retries.             *)
(***************************************************************************)
EXTENDS Recovery, FiniteSetTheorems, TLAPS

Dead(i) == proc[i].life \in {"exit", "signal"}
Started(i) == proc[i].life # "new"

\* What is known of a process: a reaped one has ended, and an id that was not
\* handed out is not in the table and was not started.
ProcOK(i) ==
  /\ proc[i].reaped => Dead(i)
  /\ proc[i].service = None => ~Started(i) /\ ~proc[i].listed

\* What is known at the control points of a goroutine.
WorkerOK(w) ==
  LET k == worker[w]
  IN  /\ Creating(w) => k.service \in Service /\ k.op \in {"start", "restart"}
      /\ k.pc = "remove" => \A i \in k.found : proc[i].service = k.service
      /\ k.pc \in {"lookup", "fork"} =>
           k.id \in Proc /\ ~Started(k.id) /\ proc[k.id].service = k.service
      /\ k.pc \in {"grace", "kill", "discard", "health"} => k.id \in Proc /\ Started(k.id)
      /\ k.pc = "stop" /\ k.op = "cleanup" => \A i \in k.found : Started(i)
      /\ \A i \in k.stopped : Dead(i)
      /\ k.pc \in {"watch", "backoff", "health", "retry"} =>
           k.op = "restart" /\ k.service \in Service
      /\ mon[w].watched # None => Started(mon[w].watched)
      /\ k.op = "restart" /\ k.pc # "watch" =>
           mon[w].current \in Proc /\ Started(mon[w].current)

\* No two goroutines are about to start the same process.
ForkOnce ==
  \A v, w \in Worker :
    /\ worker[v].pc \in {"lookup", "fork"} /\ worker[w].pc \in {"lookup", "fork"}
    /\ worker[v].id = worker[w].id
    => v = w

\* What is known of a service that no two goroutines were creating at once: the
\* one goroutine that does has in hand all that the table knows, until it has
\* removed it; then the table knows nothing but the process it registered.
ServiceOK(s) ==
  /\ \A v, w \in Worker :
       Creating(v) /\ Creating(w) /\ worker[v].service = s /\ worker[w].service = s => v = w
  /\ \A i \in Proc : proc[i].service = s /\ Alive(i) => proc[i].listed
  /\ \A i, j \in Proc :
       proc[i].service = s /\ Alive(i) /\ proc[j].service = s /\ Alive(j) => i = j
  /\ \A w \in Worker : worker[w].service = s =>
       /\ At(w, "remove") => \A i \in Proc :
            proc[i].listed /\ proc[i].service = s => i \in worker[w].found
       /\ worker[w].pc \in {"lookup", "fork"} => \A i \in Proc :
            proc[i].listed /\ proc[i].service = s => i = worker[w].id
       /\ At(w, "fork") => proc[worker[w].id].listed

\* The inductive invariant.
Facts ==
  /\ \A i \in Proc : ProcOK(i)
  /\ \A w \in Worker : WorkerOK(w)
  /\ ForkOnce
  /\ \A s \in Service \ overlapped : ServiceOK(s)

IInv == RecoveryTypeOK /\ Facts

-----------------------------------------------------------------------------
(* What steps do to the parts of the state *)

MonitorType == [watched : Proc \cup {None}, current : Proc \cup {None},
                attempt : 0..MaxRetries, check : BOOLEAN,
                outcome : {"none", "restarted", "gave up"}]

\* Another goroutine, or the monitoring of another, does not move.
Others(w) == \A v \in Worker \ {w} : worker'[v] = worker[v] /\ mon'[v] = mon[v]

\* A process keeps its service, and does not become new or live again.
Aged ==
  /\ \A i \in Proc : proc[i].service # None => proc'[i].service = proc[i].service
  /\ \A i \in Proc : Started(i) => Started(i)'
  /\ \A i \in Proc : Dead(i) => Dead(i)'

\* Nothing of a service is started, listed or forgotten while it lives or is new,
\* and no goroutine begins or goes on to create it.
Quiet(s) ==
  /\ \A i \in Proc : proc'[i].service = s <=> proc[i].service = s
  /\ \A i \in Proc : proc[i].service = s /\ Alive(i)' => Alive(i)
  /\ \A i \in Proc : proc[i].service = s /\ proc'[i].listed => proc[i].listed
  /\ \A i \in Proc : proc[i].service = s /\ proc[i].listed /\ (Alive(i)' \/ ~Started(i))
       => proc'[i].listed
  /\ \A v \in Worker : Creating(v)' /\ worker'[v].service = s => worker'[v] = worker[v]

\* A goroutine that is given a state is in it, and the others are where they were.
LEMMA BecomesFacts ==
  ASSUME worker \in [Worker -> WorkerType], NEW w \in Worker, NEW k, Becomes(w, k)
  PROVE  /\ worker'[w] = k
         /\ \A v \in Worker \ {w} : worker'[v] = worker[v]
         /\ k \in WorkerType => worker' \in [Worker -> WorkerType]
BY DEF Becomes

\* A goroutine that does not move stays consistent when processes only age and
\* nobody starts the process it is about to start.
LEMMA OtherOK ==
  ASSUME HostAssumption, IInv, NEW v \in Worker, worker'[v] = worker[v], mon'[v] = mon[v], Aged,
         worker[v].pc \in {"lookup", "fork"} => ~Started(worker[v].id)'
  PROVE  WorkerOK(v)'
<1>1. WorkerOK(v) /\ worker[v] \in WorkerType
  BY DEF IInv, Facts, RecoveryTypeOK, HostTypeOK
<1>2. mon[v].watched \in Proc \cup {None}
  BY DEF IInv, RecoveryTypeOK
<1>3. worker[v].found \subseteq Proc /\ worker[v].stopped \subseteq Proc
  BY <1>1 DEF WorkerType
<1>4. None \notin Service
  BY DEF HostAssumption
<1> QED
  BY <1>1, <1>2, <1>3, <1>4 DEF WorkerOK, Aged, Creating, Started, Dead

\* The processes to be started stay distinct.
LEMMA ForkOnceKept ==
  ASSUME ForkOnce, NEW w \in Worker, \A v \in Worker \ {w} : worker'[v] = worker[v],
         worker'[w].pc \in {"lookup", "fork"} =>
           \/ worker[w].pc \in {"lookup", "fork"} /\ worker'[w].id = worker[w].id
           \/ \A v \in Worker \ {w} : worker[v].pc \in {"lookup", "fork"} =>
                                          worker[v].id # worker'[w].id
  PROVE  ForkOnce'
BY DEF ForkOnce

\* A step that is quiet about a service keeps what is known of it.
LEMMA QuietKeeps ==
  ASSUME IInv, NEW s \in Service \ overlapped, Quiet(s)
  PROVE  ServiceOK(s)'
<1>1. ServiceOK(s) /\ \A v \in Worker : WorkerOK(v)
  BY DEF IInv, Facts
<1>2. \A v \in Worker : Creating(v)' /\ worker'[v].service = s
                        => worker'[v] = worker[v] /\ Creating(v) /\ worker[v].service = s
  BY DEF Quiet, Creating
<1>3. \A v, w \in Worker :
        Creating(v)' /\ Creating(w)' /\ worker'[v].service = s /\ worker'[w].service = s => v = w
  BY <1>1, <1>2 DEF ServiceOK
<1>4. \A i \in Proc : proc'[i].service = s /\ Alive(i)' => proc'[i].listed
  BY <1>1 DEF ServiceOK, Quiet
<1>5. \A i, j \in Proc :
        proc'[i].service = s /\ Alive(i)' /\ proc'[j].service = s /\ Alive(j)' => i = j
  BY <1>1 DEF ServiceOK, Quiet
<1>6. ASSUME NEW w \in Worker, worker'[w].service = s
      PROVE  /\ At(w, "remove")' => \A i \in Proc :
                   proc'[i].listed /\ proc'[i].service = s => i \in worker'[w].found
             /\ worker'[w].pc \in {"lookup", "fork"} => \A i \in Proc :
                   proc'[i].listed /\ proc'[i].service = s => i = worker'[w].id
             /\ At(w, "fork")' => proc'[worker'[w].id].listed
  <2>1. Creating(w)' => worker'[w] = worker[w] /\ worker[w].service = s
    BY <1>2, <1>6
  <2>2. At(w, "remove")' => \A i \in Proc :
                   proc'[i].listed /\ proc'[i].service = s => i \in worker'[w].found
    BY <1>1, <2>1 DEF ServiceOK, Quiet, Creating, At
  <2>3. worker'[w].pc \in {"lookup", "fork"} => \A i \in Proc :
                   proc'[i].listed /\ proc'[i].service = s => i = worker'[w].id
    BY <1>1, <2>1 DEF ServiceOK, Quiet, Creating, At
  <2>4. At(w, "fork")' => proc'[worker'[w].id].listed
    BY <1>1, <2>1 DEF ServiceOK, Quiet, Creating, At, WorkerOK
  <2> QED
    BY <2>2, <2>3, <2>4
<1> QED
  BY <1>3, <1>4, <1>5, <1>6 DEF ServiceOK

\* The step of one goroutine, put together from its parts.
LEMMA StepKeeps ==
  ASSUME HostAssumption, IInv, NEW w \in Worker, RecoveryTypeOK', Others(w), Aged,
         \A i \in Proc : Started(i)' => Started(i) \/ (At(w, "fork") /\ i = worker[w].id),
         \A i \in Proc : ProcOK(i)',
         WorkerOK(w)',
         worker'[w].pc \in {"lookup", "fork"} =>
           \/ worker[w].pc \in {"lookup", "fork"} /\ worker'[w].id = worker[w].id
           \/ \A v \in Worker \ {w} : worker[v].pc \in {"lookup", "fork"} =>
                                          worker[v].id # worker'[w].id,
         overlapped \subseteq overlapped',
         \A s \in Service \ overlapped' : Quiet(s) \/ ServiceOK(s)'
  PROVE  IInv'
<1>1. ForkOnce'
  BY ForkOnceKept DEF IInv, Facts, Others
<1>2. ASSUME NEW v \in Worker PROVE WorkerOK(v)'
  <2>1. CASE v = w
    BY <2>1
  <2>2. CASE v # w
    <3>1. worker'[v] = worker[v] /\ mon'[v] = mon[v]
      BY <2>2 DEF Others
    <3>2. worker[v].pc \in {"lookup", "fork"} => worker[v].id \in Proc /\ ~Started(worker[v].id)
      BY DEF IInv, Facts, WorkerOK
    <3>3. worker[v].pc \in {"lookup", "fork"} /\ At(w, "fork") => worker[v].id # worker[w].id
      BY <2>2 DEF IInv, Facts, ForkOnce, At
    <3> QED
      BY <3>1, <3>2, <3>3, OtherOK
  <2> QED
    BY <2>1, <2>2
<1>3. ASSUME NEW s \in Service \ overlapped' PROVE ServiceOK(s)'
  BY QuietKeeps
<1> QED
  BY <1>1, <1>2, <1>3 DEF IInv, Facts

-----------------------------------------------------------------------------
(* The processes *)

\* Steps of processes leave every goroutine and what is known of it.
LEMMA ProcessKeeps ==
  ASSUME HostAssumption, IInv, Processes, UNCHANGED mon
  PROVE  IInv'
<1> USE DEF IInv, Facts, RecoveryTypeOK, HostTypeOK
<1>1. PICK i \in Proc : ProcessEnds(i) \/ ChildEnds(i) \/ Reap(i)
  BY DEF Processes
<1>2. UNCHANGED <<platform, worker, ops, overlapped, mon>>
  BY <1>1 DEF ProcessEnds, ChildEnds, Reap
<1>3. /\ proc' \in [Proc -> ProcType] /\ child' \subseteq Proc
      /\ \A j \in Proc : proc'[j].service = proc[j].service
      /\ \A j \in Proc : proc'[j].listed = proc[j].listed
      /\ \A j \in Proc : proc'[j].life = proc[j].life \/ (Alive(j) /\ Dead(j)')
      /\ \A j \in Proc : proc'[j].reaped = proc[j].reaped \/ Dead(j)
  <2>1. CASE ProcessEnds(i)
    <3>1. PICK life \in {"exit", "signal"} : proc' = [proc EXCEPT ![i].life = life]
      BY <2>1 DEF ProcessEnds
    <3>2. Alive(i) /\ UNCHANGED child
      BY <2>1 DEF ProcessEnds
    <3> DEFINE p == [proc[i] EXCEPT !.life = life]
    <3>3. proc[i] \in ProcType
      OBVIOUS
    <3>4. proc' \in [Proc -> ProcType]
      <4>1. p \in ProcType
        BY <3>3 DEF ProcType
      <4>2. proc' = [proc EXCEPT ![i] = p]
        BY <3>1
      <4> QED
        BY <4>1, <4>2
    <3> QED
      BY <3>1, <3>2, <3>4 DEF Alive, Dead, ProcType
  <2>2. CASE ChildEnds(i)
    BY <2>2 DEF ChildEnds
  <2>3. CASE Reap(i)
    <3>1. proc' = [proc EXCEPT ![i].reaped = TRUE] /\ Dead(i) /\ UNCHANGED child
      BY <2>3 DEF Reap, Dead
    <3> DEFINE p == [proc[i] EXCEPT !.reaped = TRUE]
    <3>2. proc[i] \in ProcType
      OBVIOUS
    <3>3. proc' \in [Proc -> ProcType]
      <4>1. p \in ProcType
        BY <3>2 DEF ProcType
      <4>2. proc' = [proc EXCEPT ![i] = p]
        BY <3>1
      <4> QED
        BY <4>1, <4>2
    <3>4. ASSUME NEW j \in Proc
          PROVE  /\ proc'[j].service = proc[j].service /\ proc'[j].listed = proc[j].listed
                 /\ proc'[j].life = proc[j].life
                 /\ proc'[j].reaped = proc[j].reaped \/ j = i
      <4>1. CASE j = i
        BY <3>1, <3>2, <4>1 DEF ProcType
      <4>2. CASE j # i
        BY <3>1, <4>2
      <4> QED
        BY <4>1, <4>2
    <3> HIDE DEF p
    <3> QED
      BY <3>1, <3>3, <3>4
  <2> QED
    BY <1>1, <2>1, <2>2, <2>3
<1>4. \A j \in Proc : proc'[j].reaped => proc[j].reaped \/ Dead(j)
  BY <1>3
<1>5. RecoveryTypeOK'
  BY <1>2, <1>3
<1>6. Aged /\ \A j \in Proc : Started(j)' => Started(j)
  BY <1>3 DEF Aged, Started, Dead, Alive
<1>7. ASSUME NEW j \in Proc PROVE ProcOK(j)'
  <2>1. proc'[j].reaped => Dead(j)'
    BY <1>4, <1>6 DEF ProcOK, Aged
  <2>2. proc'[j].service = None => ~Started(j)' /\ ~proc'[j].listed
    BY <1>3, <1>6 DEF ProcOK
  <2> QED
    BY <2>1, <2>2 DEF ProcOK
<1>8. ASSUME NEW v \in Worker PROVE WorkerOK(v)'
  <2>1. worker[v].pc \in {"lookup", "fork"} => worker[v].id \in Proc /\ ~Started(worker[v].id)
    BY DEF WorkerOK
  <2>2. worker[v].pc \in {"lookup", "fork"} => ~Started(worker[v].id)'
    BY <1>2, <1>6, <2>1 DEF Started
  <2> QED
    BY <1>2, <1>6, <2>2, OtherOK
<1>9. ForkOnce'
  BY <1>2 DEF ForkOnce
<1>10. ASSUME NEW s \in Service \ overlapped' PROVE ServiceOK(s)'
  <2>1. Quiet(s)
    BY <1>2, <1>3 DEF Quiet, Alive, Dead
  <2> QED
    BY <1>2, <2>1, QuietKeeps
<1> QED
  BY <1>5, <1>7, <1>8, <1>9, <1>10

-----------------------------------------------------------------------------
(* Operations begin *)

\* What an operation is when it begins.
LEMMA BeginFacts ==
  ASSUME HostAssumption, IInv, NEW w \in Worker, NEW s \in Service,
         NEW op \in {"start", "stop", "cleanup", "restart"},
         NEW pc \in {"list", "stop", "watch"}, NEW found \in SUBSET Proc,
         Begin(w, op, s, pc, found)
  PROVE  /\ HostTypeOK'
         /\ worker[w].op = "none"
         /\ worker'[w].op = op /\ worker'[w].service = s /\ worker'[w].pc = pc
         /\ worker'[w].found = found /\ worker'[w].stopped = {} /\ worker'[w].id = None
         /\ \A v \in Worker \ {w} : worker'[v] = worker[v]
         /\ overlapped \subseteq overlapped'
         /\ UNCHANGED <<platform, proc, child>>
<1> DEFINE k == [NoWorker EXCEPT !.op = op, !.service = s, !.pc = pc, !.found = found]
<1>1. Becomes(w, k)
  BY DEF Begin
<1>2. /\ k \in WorkerType
      /\ k.op = op /\ k.service = s /\ k.pc = pc
      /\ k.found = found /\ k.stopped = {} /\ k.id = None
  BY DEF NoWorker, WorkerType
<1> HIDE DEF k
<1>3. /\ worker'[w] = k
      /\ \A v \in Worker \ {w} : worker'[v] = worker[v]
      /\ worker' \in [Worker -> WorkerType]
  BY <1>1, <1>2, BecomesFacts DEF IInv, RecoveryTypeOK, HostTypeOK
<1>4. ops' \in 0..MaxOps
  <2>1. ops' = ops + 1 /\ ops < MaxOps
    BY DEF Begin
  <2>2. ops \in 0..MaxOps /\ MaxOps \in Nat
    BY DEF HostAssumption, IInv, RecoveryTypeOK, HostTypeOK
  <2> QED
    BY <2>1, <2>2
<1>5. overlapped \subseteq overlapped' /\ overlapped' \subseteq Service
  BY DEF Begin, IInv, RecoveryTypeOK, HostTypeOK
<1>6. UNCHANGED <<platform, proc, child>> /\ worker[w].op = "none"
  BY DEF Begin
<1> QED
  BY <1>2, <1>3, <1>4, <1>5, <1>6 DEF IInv, RecoveryTypeOK, HostTypeOK

\* A step that changes no process leaves what is known of them.
LEMMA SameProcesses ==
  ASSUME IInv, UNCHANGED proc
  PROVE  /\ Aged
         /\ \A i \in Proc : Started(i)' => Started(i)
         /\ \A i \in Proc : ProcOK(i)'
BY DEF Aged, Started, Dead, ProcOK, IInv, Facts

\* A start: if it is the second that creates the service, the service has overlapped.
LEMMA StartKeeps ==
  ASSUME HostAssumption, IInv, NEW w \in Worker, NEW s \in Service, StartService(w, s), UNCHANGED mon
  PROVE  IInv'
<1>1. Begin(w, "start", s, "list", {})
  BY DEF StartService
<1>2. /\ HostTypeOK'
      /\ worker[w].op = "none"
      /\ worker'[w].op = "start" /\ worker'[w].service = s /\ worker'[w].pc = "list"
      /\ worker'[w].found = {} /\ worker'[w].stopped = {} /\ worker'[w].id = None
      /\ \A v \in Worker \ {w} : worker'[v] = worker[v]
      /\ overlapped \subseteq overlapped'
      /\ UNCHANGED <<platform, proc, child>>
  BY <1>1, BeginFacts
<1>3. WorkerOK(w)'
  BY <1>2 DEF WorkerOK, Creating, IInv, Facts, Started
<1>4. ASSUME NEW t \in Service \ overlapped' PROVE Quiet(t) \/ ServiceOK(t)'
  <2>1. CASE t # s
    BY <1>2, <2>1 DEF Quiet, Creating, Alive
  <2>2. CASE t = s
    <3>1. \A v \in Worker \ {w} : ~(Creating(v) /\ worker[v].service = s)
      BY <1>1, <2>2 DEF Begin
    <3>2. ServiceOK(s)
      BY <1>2, <2>2 DEF IInv, Facts
    <3> QED
      BY <1>2, <2>2, <3>1, <3>2 DEF ServiceOK, Creating, Alive, At
  <2> QED
    BY <2>1, <2>2
<1> QED
  BY <1>2, <1>3, <1>4, StepKeeps, SameProcesses DEF Others, RecoveryTypeOK, IInv

\* A goroutine moves and creates nothing, and no process changes.
LEMMA IdleKeeps ==
  ASSUME HostAssumption, IInv, NEW w \in Worker, RecoveryTypeOK', Others(w), UNCHANGED proc,
         ~Creating(w)', WorkerOK(w)', overlapped \subseteq overlapped'
  PROVE  IInv'
<1>1. \A t \in Service : Quiet(t)
  BY DEF Quiet, Creating, Alive, Others
<1>2. worker'[w].pc \notin {"lookup", "fork"}
  BY DEF Creating
<1> QED
  BY <1>1, <1>2, StepKeeps, SameProcesses

LEMMA StopKeeps ==
  ASSUME HostAssumption, IInv, NEW w \in Worker, NEW s \in Service,
         StopService(w, s) \/ Cleanup(w, s), UNCHANGED mon
  PROVE  IInv'
<1>1. PICK op \in {"stop", "cleanup"}, found \in SUBSET Proc :
        /\ Begin(w, op, s, "stop", found)
        /\ op = "cleanup" => \A i \in found : Started(i)
  <2>1. CASE StopService(w, s)
    BY <2>1 DEF StopService, ListContainers
  <2>2. CASE Cleanup(w, s)
    <3>1. PICK i \in Proc : proc[i].life # "new" /\ Begin(w, "cleanup", s, "stop", {i})
      BY <2>2 DEF Cleanup
    <3> QED
      BY <3>1 DEF Started
  <2> QED
    BY <2>1, <2>2
<1>2. /\ HostTypeOK'
      /\ worker[w].op = "none"
      /\ worker'[w].op = op /\ worker'[w].service = s /\ worker'[w].pc = "stop"
      /\ worker'[w].found = found /\ worker'[w].stopped = {} /\ worker'[w].id = None
      /\ \A v \in Worker \ {w} : worker'[v] = worker[v]
      /\ overlapped \subseteq overlapped'
      /\ UNCHANGED <<platform, proc, child>>
  BY <1>1, BeginFacts
<1>3. WorkerOK(w)'
  BY <1>1, <1>2 DEF WorkerOK, Creating, IInv, Facts, Started
<1> QED
  BY <1>2, <1>3, IdleKeeps DEF Creating, Others, RecoveryTypeOK, IInv

LEMMA MonitorKeeps ==
  ASSUME HostAssumption, RecoveryAssumption, IInv, NEW w \in Worker, NEW s \in Service, Monitor(w, s)
  PROVE  IInv'
<1>1. Begin(w, "restart", s, "watch", {})
  BY DEF Monitor
<1>2. /\ HostTypeOK'
      /\ worker[w].op = "none"
      /\ worker'[w].op = "restart" /\ worker'[w].service = s /\ worker'[w].pc = "watch"
      /\ worker'[w].found = {} /\ worker'[w].stopped = {} /\ worker'[w].id = None
      /\ \A v \in Worker \ {w} : worker'[v] = worker[v]
      /\ overlapped \subseteq overlapped'
      /\ UNCHANGED <<platform, proc, child>>
  BY <1>1, BeginFacts
<1>3. PICK i \in Proc, check \in BOOLEAN :
        /\ Started(i)
        /\ mon' = [mon EXCEPT ![w] = [NoMonitor EXCEPT !.watched = i, !.check = check]]
  BY DEF Monitor, ListContainers, Started
<1> DEFINE m == [NoMonitor EXCEPT !.watched = i, !.check = check]
<1>4. m \in MonitorType /\ m.watched = i
  <2>1. 0 \in 0..MaxRetries
    BY RecoveryAssumption DEF RecoveryAssumption
  <2>2. NoMonitor \in MonitorType
    BY <2>1 DEF NoMonitor, MonitorType
  <2> QED
    BY <2>2 DEF MonitorType
<1>5. mon' = [mon EXCEPT ![w] = m]
  BY <1>3
<1> HIDE DEF m
<1>6. mon'[w] = m /\ \A v \in Worker \ {w} : mon'[v] = mon[v]
  BY <1>5 DEF IInv, RecoveryTypeOK
<1>7. RecoveryTypeOK'
  BY <1>2, <1>4, <1>5 DEF IInv, RecoveryTypeOK, MonitorType
<1>8. WorkerOK(w)'
  BY <1>2, <1>3, <1>4, <1>6 DEF WorkerOK, Creating, Started
<1> QED
  BY <1>2, <1>6, <1>7, <1>8, IdleKeeps DEF Creating, Others

-----------------------------------------------------------------------------
(* The monitor's own steps *)

Points == {"idle", "list", "remove", "lookup", "fork", "stop", "grace", "kill",
           "discard", "ok", "failed", "watch", "backoff", "health", "retry"}

\* A goroutine that goes to another point takes what it has with it.
LEMMA GotoFacts ==
  ASSUME worker \in [Worker -> WorkerType], NEW w \in Worker, NEW pc \in Points, Goto(w, pc)
  PROVE  /\ worker' \in [Worker -> WorkerType]
         /\ \A v \in Worker \ {w} : worker'[v] = worker[v]
         /\ worker'[w].pc = pc /\ worker'[w].op = worker[w].op
         /\ worker'[w].service = worker[w].service /\ worker'[w].id = worker[w].id
         /\ worker'[w].found = worker[w].found /\ worker'[w].stopped = worker[w].stopped
<1> DEFINE k == [worker[w] EXCEPT !.pc = pc]
<1>1. Becomes(w, k)
  BY DEF Goto
<1>2. worker[w] \in WorkerType
  OBVIOUS
<1>3. /\ k \in WorkerType
      /\ k.pc = pc /\ k.op = worker[w].op
      /\ k.service = worker[w].service /\ k.id = worker[w].id
      /\ k.found = worker[w].found /\ k.stopped = worker[w].stopped
  BY <1>2 DEF WorkerType, Points
<1> HIDE DEF k
<1> QED
  BY <1>1, <1>3, BecomesFacts

\* What a monitor knows is changed for itself only.
LEMMA MonFacts ==
  ASSUME mon \in [Worker -> MonitorType], NEW w \in Worker, NEW m \in MonitorType,
         mon' = [mon EXCEPT ![w] = m]
  PROVE  /\ mon' \in [Worker -> MonitorType]
         /\ mon'[w] = m
         /\ \A v \in Worker \ {w} : mon'[v] = mon[v]
OBVIOUS

\* The monitor goes to another point outside the creation of its service.
LEMMA MonitorMoves ==
  ASSUME HostAssumption, IInv, NEW w \in Worker, Monitors(w), worker[w].service \in Service,
         NEW pc \in {"watch", "backoff", "retry"}, Goto(w, pc),
         NEW m \in MonitorType, mon' = [mon EXCEPT ![w] = m],
         m.watched # None => Started(m.watched),
         pc # "watch" => m.current \in Proc /\ Started(m.current),
         UNCHANGED <<platform, proc, child, ops, overlapped>>
  PROVE  IInv'
<1>1. /\ worker \in [Worker -> WorkerType] /\ mon \in [Worker -> MonitorType]
      /\ pc \in Points
  BY DEF IInv, RecoveryTypeOK, HostTypeOK, MonitorType, Points
<1>2. /\ worker' \in [Worker -> WorkerType]
      /\ \A v \in Worker \ {w} : worker'[v] = worker[v]
      /\ worker'[w].pc = pc /\ worker'[w].op = worker[w].op
      /\ worker'[w].service = worker[w].service /\ worker'[w].stopped = worker[w].stopped
  BY <1>1, GotoFacts
<1>3. /\ mon' \in [Worker -> MonitorType]
      /\ mon'[w] = m
      /\ \A v \in Worker \ {w} : mon'[v] = mon[v]
  BY <1>1, MonFacts
<1>4. RecoveryTypeOK'
  BY <1>2, <1>3 DEF IInv, RecoveryTypeOK, HostTypeOK, MonitorType
<1>5. WorkerOK(w)'
  <2>1. \A i \in worker[w].stopped : Dead(i)
    BY DEF IInv, Facts, WorkerOK
  <2>2. worker[w].op = "restart"
    BY DEF Monitors
  <2> QED
    BY <1>2, <1>3, <2>1, <2>2 DEF WorkerOK, Creating, Started, Dead
<1> QED
  BY <1>2, <1>3, <1>4, <1>5, IdleKeeps DEF Creating, Others

LEMMA TickKeeps ==
  ASSUME HostAssumption, RecoveryAssumption, IInv, NEW w \in Worker, Tick(w)
  PROVE  IInv'
<1> DEFINE m == [mon[w] EXCEPT !.attempt = 1, !.current = mon[w].watched]
<1>1. At(w, "watch") /\ mon[w].watched \in Proc
  BY DEF Tick, Noticed
<1>2. mon[w] \in MonitorType
  BY DEF IInv, RecoveryTypeOK, MonitorType
<1>3. 1 \in 0..MaxRetries
  BY DEF RecoveryAssumption
<1>4. m \in MonitorType /\ m.watched = mon[w].watched /\ m.current = mon[w].watched
  BY <1>1, <1>2, <1>3 DEF MonitorType
<1>5. mon' = [mon EXCEPT ![w] = m]
  BY DEF Tick
<1> HIDE DEF m
<1>6. Monitors(w) /\ worker[w].service \in Service /\ Started(mon[w].watched)
  BY <1>1 DEF IInv, Facts, WorkerOK, Monitors, At, HostAssumption
<1> QED
  BY <1>1, <1>4, <1>5, <1>6, MonitorMoves DEF Tick

LEMMA HealthKeeps ==
  ASSUME HostAssumption, RecoveryAssumption, IInv, NEW w \in Worker, Healthy(w) \/ Unhealthy(w)
  PROVE  IInv'
<1>1. At(w, "health") /\ mon[w] \in MonitorType
  BY DEF Healthy, Unhealthy, IInv, RecoveryTypeOK, MonitorType
<1>2. /\ Monitors(w) /\ worker[w].service \in Service /\ worker[w].id \in Proc /\ Started(worker[w].id)
      /\ mon[w].watched # None => Started(mon[w].watched)
  BY <1>1 DEF IInv, Facts, WorkerOK, Monitors, At
<1>3. CASE Healthy(w)
  <2> DEFINE m == [mon[w] EXCEPT !.outcome = "restarted"]
  <2>1. m \in MonitorType /\ m.watched = mon[w].watched
    BY <1>1 DEF MonitorType
  <2>2. mon' = [mon EXCEPT ![w] = m] /\ Goto(w, "watch")
        /\ UNCHANGED <<platform, proc, child, ops, overlapped>>
    BY <1>3 DEF Healthy
  <2> HIDE DEF m
  <2> QED
    BY <1>2, <2>1, <2>2, MonitorMoves
<1>4. CASE Unhealthy(w)
  <2> DEFINE m == [mon[w] EXCEPT !.current = worker[w].id]
  <2>1. m \in MonitorType /\ m.watched = mon[w].watched /\ m.current = worker[w].id
    BY <1>1, <1>2 DEF MonitorType
  <2>2. mon' = [mon EXCEPT ![w] = m] /\ Goto(w, "retry")
        /\ UNCHANGED <<platform, proc, child, ops, overlapped>>
    BY <1>4 DEF Unhealthy
  <2> HIDE DEF m
  <2> QED
    BY <1>2, <2>1, <2>2, MonitorMoves
<1> QED
  BY <1>3, <1>4

LEMMA RetryKeeps ==
  ASSUME HostAssumption, RecoveryAssumption, IInv, NEW w \in Worker, Retry(w)
  PROVE  IInv'
<1>1. At(w, "retry") /\ mon[w] \in MonitorType
  BY DEF Retry, IInv, RecoveryTypeOK, MonitorType
<1>2. /\ Monitors(w) /\ worker[w].service \in Service /\ mon[w].current \in Proc /\ Started(mon[w].current)
      /\ mon[w].watched # None => Started(mon[w].watched)
  BY <1>1 DEF IInv, Facts, WorkerOK, Monitors, At
<1>3. UNCHANGED <<platform, proc, child, ops, overlapped>>
  BY DEF Retry
<1>4. CASE mon[w].attempt = MaxRetries
  <2> DEFINE m == [mon[w] EXCEPT !.watched = None, !.outcome = "gave up"]
  <2>1. m \in MonitorType /\ m.watched = None
    BY <1>1 DEF MonitorType
  <2>2. mon' = [mon EXCEPT ![w] = m] /\ Goto(w, "watch")
    BY <1>4 DEF Retry
  <2> HIDE DEF m
  <2> QED
    BY <1>2, <1>3, <2>1, <2>2, MonitorMoves
<1>5. CASE mon[w].attempt # MaxRetries
  <2> DEFINE m == [mon[w] EXCEPT !.attempt = @ + 1]
  <2>1. mon[w].attempt + 1 \in 0..MaxRetries
    <3>1. mon[w].attempt \in 0..MaxRetries
      BY <1>1 DEF MonitorType
    <3> QED
      BY <1>5, <3>1 DEF RecoveryAssumption
  <2>2. m \in MonitorType /\ m.watched = mon[w].watched /\ m.current = mon[w].current
    BY <1>1, <2>1 DEF MonitorType
  <2>3. mon' = [mon EXCEPT ![w] = m] /\ Goto(w, "backoff")
    BY <1>5 DEF Retry
  <2> HIDE DEF m
  <2> QED
    BY <1>2, <1>3, <2>2, <2>3, MonitorMoves
<1> QED
  BY <1>4, <1>5

\* A cancelled monitor is no operation any more.
LEMMA CancelKeeps ==
  ASSUME HostAssumption, RecoveryAssumption, IInv, NEW w \in Worker, Cancel(w)
  PROVE  IInv'
<1>1. /\ worker \in [Worker -> WorkerType] /\ mon \in [Worker -> MonitorType]
  BY DEF IInv, RecoveryTypeOK, HostTypeOK, MonitorType
<1>0. 0 \in 0..MaxRetries
  BY DEF RecoveryAssumption
<1>2. NoWorker \in WorkerType /\ NoMonitor \in MonitorType
  BY <1>0 DEF NoWorker, WorkerType, NoMonitor, MonitorType
<1>3. /\ worker' \in [Worker -> WorkerType] /\ worker'[w] = NoWorker
      /\ \A v \in Worker \ {w} : worker'[v] = worker[v]
  BY <1>1, <1>2, BecomesFacts DEF Cancel
<1>4. /\ mon' \in [Worker -> MonitorType] /\ mon'[w] = NoMonitor
      /\ \A v \in Worker \ {w} : mon'[v] = mon[v]
  BY <1>1, <1>2, MonFacts DEF Cancel
<1>5. UNCHANGED <<platform, proc, child, ops, overlapped>>
  BY DEF Cancel
<1>6. RecoveryTypeOK'
  BY <1>3, <1>4, <1>5 DEF IInv, RecoveryTypeOK, HostTypeOK, MonitorType
<1>7. WorkerOK(w)' /\ ~Creating(w)'
  BY <1>3, <1>4 DEF WorkerOK, Creating, NoWorker, NoMonitor
<1> QED
  BY <1>3, <1>4, <1>5, <1>6, <1>7, IdleKeeps DEF Others

-----------------------------------------------------------------------------
(* Killing and forgetting processes *)

\* At most the live ones are signalled and the listed ones forgotten.
Softly ==
  /\ proc' \in [Proc -> ProcType]
  /\ \A i \in Proc : proc'[i].service = proc[i].service
  /\ \A i \in Proc : proc'[i].reaped => proc[i].reaped
  /\ \A i \in Proc : proc'[i].listed => proc[i].listed
  /\ \A i \in Proc : proc'[i].life = proc[i].life \/ (Alive(i) /\ proc'[i].life = "signal")

LEMMA SoftlyKeeps ==
  ASSUME IInv, Softly
  PROVE  /\ Aged
         /\ \A i \in Proc : Started(i)' => Started(i)
         /\ \A i \in Proc : Alive(i)' => Alive(i)
         /\ \A i \in Proc : ProcOK(i)'
<1>1. \A i \in Proc : proc[i].reaped => Dead(i)
  BY DEF IInv, Facts, ProcOK
<1>2. \A i \in Proc : proc[i].service = None => ~Started(i) /\ ~proc[i].listed
  BY DEF IInv, Facts, ProcOK
<1>3. Aged /\ \A i \in Proc : Started(i)' => Started(i)
  BY DEF Softly, Aged, Started, Dead, Alive
<1>4. \A i \in Proc : Alive(i)' => Alive(i)
  BY DEF Softly, Alive
<1>5. \A i \in Proc : proc'[i].reaped => Dead(i)'
  BY <1>1, <1>3 DEF Softly, Aged
<1>6. \A i \in Proc : proc'[i].service = None => ~Started(i)' /\ ~proc'[i].listed
  BY <1>2, <1>3 DEF Softly
<1> QED
  BY <1>3, <1>4, <1>5, <1>6 DEF ProcOK

\* What a kill does to the record of a process.
LEMMA KilledFacts ==
  ASSUME NEW i, proc[i] \in ProcType
  PROVE  /\ Killed(proc[i]) \in ProcType
         /\ Killed(proc[i]).service = proc[i].service
         /\ Killed(proc[i]).reaped = proc[i].reaped
         /\ Killed(proc[i]).listed = proc[i].listed
         /\ Killed(proc[i]).life = proc[i].life
              \/ (Alive(i) /\ Killed(proc[i]).life = "signal")
         /\ Killed(proc[i]).life # "alive"
<1> DEFINE p == Killed(proc[i])
<1>1. CASE Alive(i)
  <2>1. p = [proc[i] EXCEPT !.life = "signal"]
    BY <1>1 DEF Killed, Alive
  <2> QED
    BY <1>1, <2>1 DEF ProcType
<1>2. CASE ~Alive(i)
  <2>1. p = proc[i]
    BY <1>2 DEF Killed, Alive
  <2> QED
    BY <1>2, <2>1 DEF Alive
<1> QED
  BY <1>1, <1>2

\* A killed process stays in the table.
LEMMA KillFacts ==
  ASSUME proc \in [Proc -> ProcType], NEW i \in Proc, proc' = [proc EXCEPT ![i] = Killed(@)]
  PROVE  /\ Softly
         /\ ~Alive(i)'
         /\ \A j \in Proc : proc'[j].listed = proc[j].listed
<1> DEFINE p == Killed(proc[i])
<1>1. proc[i] \in ProcType
  OBVIOUS
<1>2. /\ p \in ProcType
      /\ p.service = proc[i].service /\ p.reaped = proc[i].reaped /\ p.listed = proc[i].listed
      /\ p.life = proc[i].life \/ (Alive(i) /\ p.life = "signal")
      /\ p.life # "alive"
  BY <1>1, KilledFacts
<1> HIDE DEF p
<1>3. proc' = [proc EXCEPT ![i] = p]
  BY DEF p
<1>4. proc' \in [Proc -> ProcType] /\ proc'[i] = p /\ \A j \in Proc \ {i} : proc'[j] = proc[j]
  BY <1>2, <1>3
<1>5. Softly
  BY <1>2, <1>4 DEF Softly
<1>6. ~Alive(i)' /\ \A j \in Proc : proc'[j].listed = proc[j].listed
  BY <1>2, <1>4 DEF Alive
<1> QED
  BY <1>5, <1>6

\* A removed one is dead, or was never started, and is not in the table.
LEMMA RemoveFacts ==
  ASSUME proc \in [Proc -> ProcType], NEW i \in Proc, RemoveContainer(i)
  PROVE  /\ Softly
         /\ ~Alive(i)' /\ ~proc'[i].listed
         /\ \A j \in Proc \ {i} : proc'[j] = proc[j]
<1> DEFINE p == Killed(proc[i])
           q == [p EXCEPT !.listed = FALSE]
<1>1. proc[i] \in ProcType
  OBVIOUS
<1>2. /\ p \in ProcType
      /\ p.service = proc[i].service /\ p.reaped = proc[i].reaped
      /\ p.life = proc[i].life \/ (Alive(i) /\ p.life = "signal")
      /\ p.life # "alive"
  BY <1>1, KilledFacts
<1>3. proc' = [proc EXCEPT ![i] = q]
  BY DEF RemoveContainer
<1> HIDE DEF p
<1>4. /\ q \in ProcType
      /\ q.service = p.service /\ q.reaped = p.reaped /\ q.life = p.life /\ ~q.listed
  BY <1>2 DEF ProcType
<1> HIDE DEF q
<1>5. proc' \in [Proc -> ProcType] /\ proc'[i] = q /\ \A j \in Proc \ {i} : proc'[j] = proc[j]
  BY <1>3, <1>4
<1>6. Softly
  BY <1>2, <1>4, <1>5 DEF Softly
<1> QED
  BY <1>2, <1>4, <1>5, <1>6 DEF Alive

-----------------------------------------------------------------------------
(* The steps that stop and clean up *)

\* A goroutine moves and creates nothing, and what happens to processes is that
\* some die, and that started ones that are dead may be forgotten.
LEMMA StoppingKeeps ==
  ASSUME HostAssumption, IInv, NEW w \in Worker, RecoveryTypeOK', Others(w), Softly,
         \A i \in Proc : proc[i].listed /\ ~proc'[i].listed => Started(i) /\ ~Alive(i)',
         ~Creating(w)', WorkerOK(w)', overlapped \subseteq overlapped'
  PROVE  IInv'
<1>1. \A i \in Proc : Alive(i)' => Alive(i)
  BY SoftlyKeeps
<1>2. \A t \in Service : Quiet(t)
  BY <1>1 DEF Quiet, Creating, Others, Softly
<1>3. worker'[w].pc \notin {"lookup", "fork"}
  BY DEF Creating
<1> QED
  BY <1>2, <1>3, StepKeeps, SoftlyKeeps

LEMMA ThenNextFacts ==
  ASSUME worker \in [Worker -> WorkerType], NEW w \in Worker, NEW i \in Proc,
         NEW stopped \in SUBSET Proc, ThenNext(w, i, stopped)
  PROVE  /\ worker' \in [Worker -> WorkerType]
         /\ \A v \in Worker \ {w} : worker'[v] = worker[v]
         /\ worker'[w].pc = IF worker[w].op = "cleanup" THEN "discard" ELSE "stop"
         /\ worker'[w].op = worker[w].op /\ worker'[w].id = i
         /\ worker'[w].stopped = worker[w].stopped \cup stopped
<1> DEFINE pc == IF worker[w].op = "cleanup" THEN "discard" ELSE "stop"
           k == [worker[w] EXCEPT !.id = i, !.found = @ \ {i}, !.stopped = @ \cup stopped, !.pc = pc]
<1>1. Becomes(w, k)
  BY DEF ThenNext
<1>2. worker[w] \in WorkerType
  OBVIOUS
<1>3. pc \in {"discard", "stop"}
  OBVIOUS
<1> HIDE DEF pc
<1>4. /\ k \in WorkerType
      /\ k.pc = pc /\ k.op = worker[w].op /\ k.id = i
      /\ k.stopped = worker[w].stopped \cup stopped
  BY <1>2, <1>3 DEF WorkerType
<1> HIDE DEF k
<1> QED
  BY <1>1, <1>4, BecomesFacts DEF pc

\* One container is done: it is dead if it counts as stopped.
LEMMA NextKeeps ==
  ASSUME HostAssumption, IInv, NEW w \in Worker, worker[w].pc \in {"stop", "grace", "kill"},
         NEW i \in Proc, NEW stopped \in SUBSET {i}, ThenNext(w, i, stopped),
         Softly, \A j \in Proc : proc'[j].listed = proc[j].listed, child' \subseteq Proc,
         stopped # {} => Dead(i)',
         worker[w].op = "cleanup" => Started(i),
         UNCHANGED <<platform, ops, overlapped, mon>>
  PROVE  IInv'
<1>1. worker \in [Worker -> WorkerType] /\ stopped \in SUBSET Proc
  BY DEF IInv, RecoveryTypeOK, HostTypeOK
<1>2. /\ worker' \in [Worker -> WorkerType]
      /\ \A v \in Worker \ {w} : worker'[v] = worker[v]
      /\ worker'[w].pc = IF worker[w].op = "cleanup" THEN "discard" ELSE "stop"
      /\ worker'[w].op = worker[w].op /\ worker'[w].id = i
      /\ worker'[w].stopped = worker[w].stopped \cup stopped
  BY <1>1, ThenNextFacts
<1>3. RecoveryTypeOK'
  BY <1>2 DEF IInv, RecoveryTypeOK, HostTypeOK, Softly
<1>4. Aged
  BY SoftlyKeeps
<1>5. WorkerOK(w)'
  <2>1. WorkerOK(w) /\ worker[w] \in WorkerType /\ mon[w] \in MonitorType
    BY <1>1 DEF IInv, Facts, RecoveryTypeOK, MonitorType
  <2>2. \A j \in worker'[w].stopped : Dead(j)'
    <3>1. \A j \in worker[w].stopped : j \in Proc /\ Dead(j)
      BY <2>1 DEF WorkerOK, WorkerType
    <3> QED
      BY <1>2, <1>4, <3>1 DEF Aged
  <2>3. worker'[w].pc = "discard" => Started(i)'
    BY <1>2, <1>4 DEF Aged
  <2>4. mon[w].watched # None => Started(mon[w].watched)'
    BY <1>4, <2>1 DEF WorkerOK, Aged, MonitorType
  <2>5. worker[w].op = "restart" => mon[w].current \in Proc /\ Started(mon[w].current)'
    BY <1>4, <2>1 DEF WorkerOK, Aged
  <2>6. worker'[w].pc \in {"discard", "stop"} /\ ~(worker'[w].pc = "stop" /\ worker'[w].op = "cleanup")
    BY <1>2
  <2>7. ~Creating(w)'
    BY <2>6 DEF Creating
  <2> QED
    BY <1>2, <2>2, <2>3, <2>4, <2>5, <2>6, <2>7 DEF WorkerOK
<1>6. ~Creating(w)'
  BY <1>2 DEF Creating
<1> QED
  BY <1>2, <1>3, <1>5, <1>6, StoppingKeeps DEF Others

\* Killing the process tree kills the process, or does nothing.
LEMMA KillTreeFacts ==
  ASSUME IInv, NEW i \in Proc, KillTree(i)
  PROVE  /\ Softly /\ child' \subseteq Proc
         /\ \A j \in Proc : proc'[j].listed = proc[j].listed
<1>1. proc \in [Proc -> ProcType] /\ child \subseteq Proc
  BY DEF IInv, RecoveryTypeOK, HostTypeOK
<1>2. CASE platform = "windows" /\ Alive(i)
  BY <1>1, <1>2, KillFacts DEF KillTree
<1>3. CASE ~(platform = "windows" /\ Alive(i))
  BY <1>1, <1>3 DEF KillTree, Softly
<1> QED
  BY <1>2, <1>3

LEMMA StopContainerKeeps ==
  ASSUME HostAssumption, IInv, NEW w \in Worker, StopContainer(w), UNCHANGED mon
  PROVE  IInv'
<1>1. /\ worker \in [Worker -> WorkerType] /\ worker[w] \in WorkerType
      /\ proc \in [Proc -> ProcType] /\ child \subseteq Proc
      /\ WorkerOK(w) /\ worker[w].pc = "stop" /\ mon[w] \in MonitorType
  BY DEF IInv, Facts, RecoveryTypeOK, HostTypeOK, StopContainer, At, MonitorType
<1>2. PICK i \in worker[w].found :
       IF proc[i].listed /\ proc[i].life # "new" /\ MapStatus(i) # "exited"
       THEN /\ KillTree(i)
            /\ Becomes(w, [worker[w] EXCEPT !.pc = "grace", !.id = i])
       ELSE /\ ThenNext(w, i, IF proc[i].listed /\ proc[i].life # "new" THEN {i} ELSE {})
            /\ UNCHANGED <<proc, child>>
  BY DEF StopContainer
<1>3. i \in Proc
  BY <1>1 DEF WorkerType
<1>4. UNCHANGED <<platform, ops, overlapped>>
  BY DEF StopContainer
<1>5. CASE proc[i].listed /\ proc[i].life # "new" /\ MapStatus(i) # "exited"
  <2> DEFINE k == [worker[w] EXCEPT !.pc = "grace", !.id = i]
  <2>1. /\ k \in WorkerType
        /\ k.pc = "grace" /\ k.id = i /\ k.op = worker[w].op /\ k.stopped = worker[w].stopped
    BY <1>1, <1>3 DEF WorkerType
  <2>2. Becomes(w, k)
    BY <1>2, <1>5
  <2> HIDE DEF k
  <2>3. /\ worker' \in [Worker -> WorkerType] /\ worker'[w] = k
        /\ \A v \in Worker \ {w} : worker'[v] = worker[v]
    BY <1>1, <2>1, <2>2, BecomesFacts
  <2>4. /\ Softly /\ child' \subseteq Proc
        /\ \A j \in Proc : proc'[j].listed = proc[j].listed
    BY <1>2, <1>3, <1>5, KillTreeFacts
  <2>5. RecoveryTypeOK'
    BY <1>4, <2>3, <2>4 DEF IInv, RecoveryTypeOK, HostTypeOK, Softly
  <2>6. Aged
    BY <2>4, SoftlyKeeps
  <2>7. ~Creating(w)'
    BY <2>1, <2>3 DEF Creating
  <2>8. WorkerOK(w)'
    <3>1. \A j \in worker[w].stopped : Dead(j)'
      BY <1>1, <2>6 DEF WorkerOK, WorkerType, Aged
    <3>2. Started(i)'
      BY <1>3, <1>5, <2>6 DEF Aged, Started
    <3>3. mon[w].watched # None => Started(mon[w].watched)'
      BY <1>1, <2>6 DEF WorkerOK, Aged, MonitorType
    <3>4. worker[w].op = "restart" => mon[w].current \in Proc /\ Started(mon[w].current)'
      BY <1>1, <2>6 DEF WorkerOK, Aged
    <3> QED
      BY <1>3, <2>1, <2>3, <2>7, <3>1, <3>2, <3>3, <3>4 DEF WorkerOK
  <2> QED
    BY <1>4, <2>3, <2>4, <2>5, <2>7, <2>8, StoppingKeeps DEF Others
<1>6. CASE ~(proc[i].listed /\ proc[i].life # "new" /\ MapStatus(i) # "exited")
  <2> DEFINE stopped == IF proc[i].listed /\ proc[i].life # "new" THEN {i} ELSE {}
  <2>1. stopped \in SUBSET {i}
    OBVIOUS
  <2>2. ThenNext(w, i, stopped) /\ UNCHANGED <<proc, child>>
    BY <1>2, <1>6
  <2>3. stopped # {} => Dead(i)
    BY <1>6 DEF MapStatus, Dead
  <2>4. worker[w].op = "cleanup" => Started(i)
    BY <1>1 DEF WorkerOK
  <2> HIDE DEF stopped
  <2>5. Softly /\ (stopped # {} => Dead(i)')
    BY <1>1, <2>2, <2>3 DEF Softly, Dead
  <2> QED
    BY <1>1, <1>3, <1>4, <2>1, <2>2, <2>4, <2>5, NextKeeps
<1> QED
  BY <1>5, <1>6

LEMMA ObeyedKeeps ==
  ASSUME HostAssumption, IInv, NEW w \in Worker, Obeyed(w), UNCHANGED mon
  PROVE  IInv'
<1>1. /\ proc \in [Proc -> ProcType] /\ child \subseteq Proc
      /\ worker[w].pc = "grace" /\ worker[w].id \in Proc /\ Started(worker[w].id)
  BY DEF IInv, Facts, RecoveryTypeOK, HostTypeOK, Obeyed, At, WorkerOK
<1>0. PICK i \in Proc : i = worker[w].id
  BY <1>1
<1>2. ThenNext(w, i, {i}) /\ UNCHANGED <<platform, proc, child, ops, overlapped>>
  BY <1>0 DEF Obeyed
<1>3. Dead(i)'
  BY <1>0, <1>1, <1>2 DEF IInv, Facts, ProcOK, Obeyed, Dead
<1>4. Softly
  BY <1>1, <1>2 DEF Softly
<1> QED
  BY <1>0, <1>1, <1>2, <1>3, <1>4, NextKeeps

LEMMA KillContainerKeeps ==
  ASSUME HostAssumption, IInv, NEW w \in Worker, KillContainer(w), UNCHANGED mon
  PROVE  IInv'
<1>1. /\ proc \in [Proc -> ProcType] /\ child \subseteq Proc
      /\ worker[w].pc = "kill" /\ worker[w].id \in Proc /\ Started(worker[w].id)
  BY DEF IInv, Facts, RecoveryTypeOK, HostTypeOK, KillContainer, At, WorkerOK
<1>0. PICK i \in Proc : i = worker[w].id
  BY <1>1
<1>2. /\ proc' = [proc EXCEPT ![i] = Killed(@)] /\ child' \subseteq Proc
      /\ ThenNext(w, i, {i}) /\ UNCHANGED <<platform, ops, overlapped>>
  BY <1>0, <1>1 DEF KillContainer
<1>3. Softly /\ ~Alive(i)' /\ \A j \in Proc : proc'[j].listed = proc[j].listed
  BY <1>1, <1>2, KillFacts
<1>4. Started(i)'
  BY <1>0, <1>1, <1>3, SoftlyKeeps DEF Aged
<1>5. Dead(i)'
  BY <1>1, <1>3, <1>4 DEF Softly, ProcType, Dead, Started, Alive
<1> QED
  BY <1>0, <1>1, <1>2, <1>3, <1>5, NextKeeps

LEMMA GraceOverKeeps ==
  ASSUME HostAssumption, IInv, NEW w \in Worker, GraceOver(w), UNCHANGED mon
  PROVE  IInv'
<1>1. /\ worker \in [Worker -> WorkerType] /\ worker[w].pc = "grace" /\ "kill" \in Points
      /\ WorkerOK(w)
  BY DEF IInv, Facts, RecoveryTypeOK, HostTypeOK, GraceOver, At, Points
<1>2. Goto(w, "kill") /\ UNCHANGED <<platform, proc, child, ops, overlapped>>
  BY DEF GraceOver
<1>3. /\ worker' \in [Worker -> WorkerType]
      /\ \A v \in Worker \ {w} : worker'[v] = worker[v]
      /\ worker'[w].pc = "kill" /\ worker'[w].op = worker[w].op /\ worker'[w].id = worker[w].id
      /\ worker'[w].stopped = worker[w].stopped
  BY <1>1, <1>2, GotoFacts
<1>4. WorkerOK(w)'
  BY <1>1, <1>2, <1>3 DEF WorkerOK, Creating, Started, Dead
<1>5. ~Creating(w)' /\ RecoveryTypeOK'
  BY <1>2, <1>3 DEF Creating, IInv, RecoveryTypeOK, HostTypeOK
<1> QED
  BY <1>2, <1>3, <1>4, <1>5, IdleKeeps DEF Others

\* An operation that is over has what it stopped to show.
LEMMA EndFacts ==
  ASSUME IInv, NEW w \in Worker,
         Becomes(w, [NoWorker EXCEPT !.pc = "ok", !.service = worker[w].service,
                                     !.stopped = worker[w].stopped])
  PROVE  /\ worker' \in [Worker -> WorkerType]
         /\ \A v \in Worker \ {w} : worker'[v] = worker[v]
         /\ worker'[w].pc = "ok" /\ worker'[w].op = "none"
         /\ worker'[w].stopped = worker[w].stopped
<1> DEFINE k == [NoWorker EXCEPT !.pc = "ok", !.service = worker[w].service,
                                 !.stopped = worker[w].stopped]
<1>1. worker \in [Worker -> WorkerType] /\ worker[w] \in WorkerType
  BY DEF IInv, RecoveryTypeOK, HostTypeOK
<1>2. /\ k \in WorkerType
      /\ k.pc = "ok" /\ k.op = "none" /\ k.stopped = worker[w].stopped
  BY <1>1 DEF NoWorker, WorkerType
<1>3. Becomes(w, k)
  OBVIOUS
<1> HIDE DEF k
<1> QED
  BY <1>1, <1>2, <1>3, BecomesFacts

LEMMA EndKeeps ==
  ASSUME HostAssumption, IInv, NEW w \in Worker, StopEnds(w) \/ Discard(w), UNCHANGED mon
  PROVE  IInv'
<1>1. /\ proc \in [Proc -> ProcType] /\ WorkerOK(w) /\ worker[w] \in WorkerType
      /\ mon[w] \in MonitorType
  BY DEF IInv, Facts, RecoveryTypeOK, HostTypeOK, MonitorType
<1>2. /\ worker' \in [Worker -> WorkerType]
      /\ \A v \in Worker \ {w} : worker'[v] = worker[v]
      /\ worker'[w].pc = "ok" /\ worker'[w].op = "none"
      /\ worker'[w].stopped = worker[w].stopped
  BY EndFacts DEF StopEnds, Discard
<1>3. UNCHANGED <<platform, child, ops, overlapped>>
  BY DEF StopEnds, Discard
<1>4. Softly /\ \A i \in Proc : proc[i].listed /\ ~proc'[i].listed => Started(i) /\ ~Alive(i)'
  <2>1. CASE proc' = proc
    BY <1>1, <2>1 DEF Softly
  <2>2. CASE Discard(w) /\ proc[worker[w].id].listed
    <3>1. worker[w].id \in Proc /\ Started(worker[w].id)
      BY <1>1, <2>2 DEF WorkerOK, Discard, At
    <3>2. PICK i \in Proc : i = worker[w].id
      BY <3>1
    <3>3. RemoveContainer(i)
      BY <2>2, <3>2 DEF Discard
    <3>4. Softly /\ ~Alive(i)' /\ \A j \in Proc \ {i} : proc'[j] = proc[j]
      BY <1>1, <3>3, RemoveFacts
    <3> QED
      BY <3>1, <3>2, <3>4
  <2> QED
    BY <2>1, <2>2 DEF StopEnds, Discard
<1>5. RecoveryTypeOK'
  BY <1>2, <1>3, <1>4 DEF IInv, RecoveryTypeOK, HostTypeOK, Softly
<1>6. ~Creating(w)'
  BY <1>2 DEF Creating
<1>7. WorkerOK(w)'
  <2>1. Aged
    BY <1>4, SoftlyKeeps
  <2>2. \A j \in worker[w].stopped : Dead(j)'
    BY <1>1, <2>1 DEF WorkerOK, WorkerType, Aged
  <2>3. mon[w].watched # None => Started(mon[w].watched)'
    BY <1>1, <2>1 DEF WorkerOK, Aged, MonitorType
  <2> QED
    BY <1>2, <1>6, <2>2, <2>3 DEF WorkerOK
<1> QED
  BY <1>2, <1>3, <1>4, <1>5, <1>6, <1>7, StoppingKeeps DEF Others

-----------------------------------------------------------------------------
(* The steps that create a service *)

\* The wait is over: what ended is removed, and the service is created again.
LEMMA BackoffKeeps ==
  ASSUME HostAssumption, IInv, NEW w \in Worker, BackoffOver(w)
  PROVE  IInv'
<1>1. /\ worker \in [Worker -> WorkerType] /\ proc \in [Proc -> ProcType]
      /\ WorkerOK(w) /\ worker[w] \in WorkerType /\ mon[w] \in MonitorType
      /\ worker[w].pc = "backoff" /\ "list" \in Points
  BY DEF IInv, Facts, RecoveryTypeOK, HostTypeOK, BackoffOver, At, Points, MonitorType
<1>2. PICK s \in Service : s = worker[w].service
  BY <1>1 DEF WorkerOK
<1>3. PICK i \in Proc : i = mon[w].current
  BY <1>1 DEF WorkerOK
<1>4. Started(i) /\ worker[w].op = "restart"
  BY <1>1, <1>3 DEF WorkerOK
<1>5. /\ worker' \in [Worker -> WorkerType]
      /\ \A v \in Worker \ {w} : worker'[v] = worker[v]
      /\ worker'[w].pc = "list" /\ worker'[w].op = worker[w].op
      /\ worker'[w].service = worker[w].service /\ worker'[w].stopped = worker[w].stopped
  BY <1>1, GotoFacts DEF BackoffOver
<1>6. Softly /\ \A j \in Proc : proc[j].listed /\ ~proc'[j].listed => Started(j) /\ ~Alive(j)'
  <2>1. CASE proc[i].listed
    <3>1. RemoveContainer(i)
      BY <1>3, <2>1 DEF BackoffOver
    <3>2. Softly /\ ~Alive(i)' /\ \A j \in Proc \ {i} : proc'[j] = proc[j]
      BY <1>1, <3>1, RemoveFacts
    <3> QED
      BY <1>4, <3>2
  <2>2. CASE ~proc[i].listed
    <3>1. UNCHANGED proc
      BY <1>3, <2>2 DEF BackoffOver
    <3> QED
      BY <1>1, <3>1 DEF Softly
  <2> QED
    BY <2>1, <2>2
<1>7. /\ Aged /\ \A j \in Proc : Started(j)' => Started(j)
      /\ \A j \in Proc : Alive(j)' => Alive(j)
      /\ \A j \in Proc : ProcOK(j)'
  BY <1>6, SoftlyKeeps
<1>8. UNCHANGED <<platform, child, ops, mon>>
  BY DEF BackoffOver
<1>9. overlapped \subseteq overlapped' /\ overlapped' \subseteq overlapped \cup {s}
  BY <1>2 DEF BackoffOver
<1>10. s \notin overlapped' => \A v \in Worker \ {w} : ~(Creating(v) /\ worker[v].service = s)
  BY <1>2 DEF BackoffOver
<1>11. RecoveryTypeOK'
  BY <1>2, <1>5, <1>6, <1>8, <1>9 DEF IInv, RecoveryTypeOK, HostTypeOK, Softly
<1>12. WorkerOK(w)'
  <2>1. \A j \in worker[w].stopped : Dead(j)'
    BY <1>1, <1>7 DEF WorkerOK, WorkerType, Aged
  <2>2. mon[w].watched # None => Started(mon[w].watched)'
    BY <1>1, <1>7, <1>8 DEF WorkerOK, Aged, MonitorType
  <2>3. mon[w].current \in Proc /\ Started(mon[w].current)'
    BY <1>3, <1>4, <1>7, <1>8 DEF Aged
  <2> QED
    BY <1>2, <1>4, <1>5, <1>8, <2>1, <2>2, <2>3 DEF WorkerOK
<1>13. ASSUME NEW t \in Service \ overlapped' PROVE Quiet(t) \/ ServiceOK(t)'
  <2>1. CASE t # s
    BY <1>2, <1>5, <1>6, <1>7, <2>1 DEF Quiet, Creating, Softly
  <2>2. CASE t = s
    <3>1. ServiceOK(s)
      BY <1>9, <2>2 DEF IInv, Facts
    <3>2. \A v \in Worker \ {w} : ~(Creating(v)' /\ worker'[v].service = s)
      BY <1>5, <1>10, <2>2 DEF Creating
    <3>3. \A v, u \in Worker :
            Creating(v)' /\ Creating(u)' /\ worker'[v].service = s /\ worker'[u].service = s => v = u
      BY <3>2
    <3>4. \A j \in Proc : proc'[j].service = s /\ Alive(j)' => proc'[j].listed
      BY <1>6, <1>7, <3>1 DEF ServiceOK, Softly
    <3>5. \A j, l \in Proc :
            proc'[j].service = s /\ Alive(j)' /\ proc'[l].service = s /\ Alive(l)' => j = l
      BY <1>6, <1>7, <3>1 DEF ServiceOK, Softly
    <3>6. \A v \in Worker : worker'[v].service = s => worker'[v].pc \notin {"remove", "lookup", "fork"}
      BY <1>5, <3>2 DEF Creating
    <3> QED
      BY <2>2, <3>3, <3>4, <3>5, <3>6 DEF ServiceOK, At
  <2> QED
    BY <2>1, <2>2
<1>14. worker'[w].pc \notin {"lookup", "fork"}
  BY <1>5
<1> QED
  BY <1>5, <1>7, <1>8, <1>11, <1>12, <1>13, <1>9, <1>14, StepKeeps DEF Others

LEMMA ListExistingKeeps ==
  ASSUME HostAssumption, IInv, NEW w \in Worker, ListExisting(w), UNCHANGED mon
  PROVE  IInv'
<1>1. /\ worker \in [Worker -> WorkerType] /\ worker[w] \in WorkerType
      /\ WorkerOK(w) /\ worker[w].pc = "list"
  BY DEF IInv, Facts, RecoveryTypeOK, HostTypeOK, ListExisting, At
<1>2. PICK s \in Service : s = worker[w].service
  BY <1>1 DEF WorkerOK, Creating
<1> DEFINE k == [worker[w] EXCEPT !.pc = "remove", !.found = ListContainers(worker[w].service)]
<1>3. /\ k \in WorkerType
      /\ k.pc = "remove" /\ k.op = worker[w].op /\ k.service = s
      /\ k.stopped = worker[w].stopped /\ k.found = ListContainers(s)
  BY <1>1, <1>2 DEF WorkerType, ListContainers
<1>4. Becomes(w, k) /\ UNCHANGED <<platform, proc, child, ops, overlapped>>
  BY DEF ListExisting
<1> HIDE DEF k
<1>5. /\ worker' \in [Worker -> WorkerType] /\ worker'[w] = k
      /\ \A v \in Worker \ {w} : worker'[v] = worker[v]
  BY <1>1, <1>3, <1>4, BecomesFacts
<1>6. RecoveryTypeOK'
  BY <1>4, <1>5 DEF IInv, RecoveryTypeOK, HostTypeOK
<1>7. WorkerOK(w)'
  BY <1>1, <1>2, <1>3, <1>4, <1>5 DEF WorkerOK, Creating, Started, Dead, ListContainers
<1>8. ASSUME NEW t \in Service \ overlapped' PROVE Quiet(t) \/ ServiceOK(t)'
  <2>1. CASE t # s
    BY <1>3, <1>4, <1>5, <2>1 DEF Quiet, Creating, Alive
  <2>2. CASE t = s
    <3>1. ServiceOK(s)
      BY <1>4, <2>2 DEF IInv, Facts
    <3>2. \A v \in Worker \ {w} : ~(Creating(v) /\ worker[v].service = s)
      BY <1>1, <1>2, <3>1 DEF ServiceOK, Creating
    <3>3. \A v \in Worker \ {w} : worker'[v].service = s => worker'[v].pc \notin {"remove", "lookup", "fork"}
      BY <1>5, <3>2 DEF Creating
    <3>4. \A v, u \in Worker :
            Creating(v)' /\ Creating(u)' /\ worker'[v].service = s /\ worker'[u].service = s => v = u
      BY <1>5, <3>2 DEF Creating
    <3>5. \A i \in Proc : proc'[i].listed /\ proc'[i].service = s => i \in worker'[w].found
      BY <1>3, <1>4, <1>5 DEF ListContainers
    <3> QED
      BY <1>3, <1>4, <1>5, <2>2, <3>1, <3>3, <3>4, <3>5 DEF ServiceOK, At, Alive
  <2> QED
    BY <2>1, <2>2
<1>9. worker'[w].pc \notin {"lookup", "fork"}
  BY <1>3, <1>5
<1> QED
  BY <1>4, <1>5, <1>6, <1>7, <1>8, <1>9, StepKeeps, SameProcesses DEF Others

LEMMA RemoveExistingKeeps ==
  ASSUME HostAssumption, IInv, NEW w \in Worker, RemoveExisting(w), UNCHANGED mon
  PROVE  IInv'
<1>1. /\ worker \in [Worker -> WorkerType] /\ worker[w] \in WorkerType
      /\ proc \in [Proc -> ProcType] /\ mon[w] \in MonitorType
      /\ WorkerOK(w) /\ worker[w].pc = "remove"
  BY DEF IInv, Facts, RecoveryTypeOK, HostTypeOK, RemoveExisting, At, MonitorType
<1>2. PICK s \in Service : s = worker[w].service
  BY <1>1 DEF WorkerOK, Creating
<1>3. PICK i \in worker[w].found :
        RemoveContainer(i) /\ Becomes(w, [worker[w] EXCEPT !.found = @ \ {i}])
  BY DEF RemoveExisting
<1>4. i \in Proc /\ proc[i].service = s
  BY <1>1, <1>2 DEF WorkerOK, WorkerType
<1> DEFINE k == [worker[w] EXCEPT !.found = @ \ {i}]
<1>5. /\ k \in WorkerType
      /\ k.pc = "remove" /\ k.op = worker[w].op /\ k.service = s
      /\ k.stopped = worker[w].stopped /\ k.found = worker[w].found \ {i}
  BY <1>1, <1>2 DEF WorkerType
<1>6. Becomes(w, k)
  BY <1>3
<1> HIDE DEF k
<1>7. /\ worker' \in [Worker -> WorkerType] /\ worker'[w] = k
      /\ \A v \in Worker \ {w} : worker'[v] = worker[v]
  BY <1>1, <1>5, <1>6, BecomesFacts
<1>8. /\ Softly /\ ~Alive(i)' /\ ~proc'[i].listed
      /\ \A j \in Proc \ {i} : proc'[j] = proc[j]
  BY <1>1, <1>3, <1>4, RemoveFacts
<1>9. /\ Aged /\ \A j \in Proc : Started(j)' => Started(j)
      /\ \A j \in Proc : Alive(j)' => Alive(j)
      /\ \A j \in Proc : ProcOK(j)'
  BY <1>8, SoftlyKeeps
<1>10. UNCHANGED <<platform, child, ops, overlapped, mon>>
  BY DEF RemoveExisting
<1>11. RecoveryTypeOK'
  BY <1>7, <1>8, <1>10 DEF IInv, RecoveryTypeOK, HostTypeOK, Softly
<1>12. WorkerOK(w)'
  <2>1. \A j \in worker[w].stopped : Dead(j)'
    BY <1>1, <1>9 DEF WorkerOK, WorkerType, Aged
  <2>2. mon[w].watched # None => Started(mon[w].watched)'
    BY <1>1, <1>9 DEF WorkerOK, Aged, MonitorType
  <2>3. worker[w].op = "restart" => mon[w].current \in Proc /\ Started(mon[w].current)'
    BY <1>1, <1>9 DEF WorkerOK, Aged
  <2>4. \A j \in worker[w].found \ {i} : proc'[j].service = s
    BY <1>1, <1>2, <1>8 DEF WorkerOK, WorkerType, Softly
  <2>5. worker[w].op \in {"start", "restart"}
    BY <1>1 DEF WorkerOK, Creating
  <2> QED
    BY <1>5, <1>7, <1>10, <2>1, <2>2, <2>3, <2>4, <2>5 DEF WorkerOK
<1>13. ASSUME NEW t \in Service \ overlapped' PROVE Quiet(t) \/ ServiceOK(t)'
  <2>1. CASE t # s
    BY <1>4, <1>5, <1>7, <1>8, <1>9, <2>1 DEF Quiet, Creating, Softly
  <2>2. CASE t = s
    <3>1. ServiceOK(s)
      BY <1>10, <2>2 DEF IInv, Facts
    <3>2. \A v \in Worker \ {w} : ~(Creating(v) /\ worker[v].service = s)
      BY <1>1, <1>2, <3>1 DEF ServiceOK, Creating
    <3>3. \A v \in Worker \ {w} : worker'[v].service = s => worker'[v].pc \notin {"remove", "lookup", "fork"}
      BY <1>7, <3>2 DEF Creating
    <3>4. \A v, u \in Worker :
            Creating(v)' /\ Creating(u)' /\ worker'[v].service = s /\ worker'[u].service = s => v = u
      BY <1>7, <3>2 DEF Creating
    <3>5. \A j \in Proc : proc'[j].listed /\ proc'[j].service = s => j \in worker'[w].found
      BY <1>1, <1>2, <1>5, <1>7, <1>8, <3>1 DEF ServiceOK, At, Softly
    <3>6. \A j \in Proc : proc'[j].service = s /\ Alive(j)' => proc'[j].listed
      BY <1>8, <1>9, <3>1 DEF ServiceOK, Softly
    <3>7. \A j, l \in Proc :
            proc'[j].service = s /\ Alive(j)' /\ proc'[l].service = s /\ Alive(l)' => j = l
      BY <1>8, <1>9, <3>1 DEF ServiceOK, Softly
    <3>8. worker'[w].pc = "remove"
      BY <1>5, <1>7
    <3> QED
      BY <2>2, <3>3, <3>4, <3>5, <3>6, <3>7, <3>8 DEF ServiceOK, At
  <2> QED
    BY <2>1, <2>2
<1>14. worker'[w].pc \notin {"lookup", "fork"}
  BY <1>5, <1>7
<1> QED
  BY <1>7, <1>9, <1>10, <1>11, <1>12, <1>13, <1>14, StepKeeps DEF Others

\* How the creation of a service ends.
LEMMA StartEndsFacts ==
  ASSUME IInv, NEW w \in Worker, NEW ok \in BOOLEAN, StartEnds(w, ok)
  PROVE  /\ worker' \in [Worker -> WorkerType]
         /\ \A v \in Worker \ {w} : worker'[v] = worker[v]
         /\ worker'[w].stopped \subseteq worker[w].stopped
         /\ \/ /\ worker'[w].pc \in {"ok", "failed"} /\ worker'[w].op = "none"
            \/ /\ worker[w].op = "restart" /\ worker'[w].op = "restart"
               /\ worker'[w].pc = IF ok THEN "health" ELSE "retry"
               /\ worker'[w].id = worker[w].id /\ worker'[w].service = worker[w].service
<1>1. worker \in [Worker -> WorkerType] /\ worker[w] \in WorkerType
  BY DEF IInv, RecoveryTypeOK, HostTypeOK
<1>2. CASE worker[w].op = "restart"
  <2> DEFINE pc == IF ok THEN "health" ELSE "retry"
  <2>1. pc \in Points
    BY DEF Points
  <2>2. Goto(w, pc)
    BY <1>2 DEF StartEnds
  <2>3. pc = IF ok THEN "health" ELSE "retry"
    OBVIOUS
  <2> HIDE DEF pc
  <2>4. /\ worker' \in [Worker -> WorkerType]
        /\ \A v \in Worker \ {w} : worker'[v] = worker[v]
        /\ worker'[w].pc = pc /\ worker'[w].op = worker[w].op
        /\ worker'[w].service = worker[w].service /\ worker'[w].id = worker[w].id
        /\ worker'[w].stopped = worker[w].stopped
    BY <1>1, <2>1, <2>2, GotoFacts
  <2> QED
    BY <1>2, <2>3, <2>4
<1>3. CASE worker[w].op # "restart"
  <2> DEFINE pc == IF ok THEN "ok" ELSE "failed"
             k == [NoWorker EXCEPT !.pc = pc, !.service = worker[w].service, !.id = worker[w].id]
  <2>1. pc \in {"ok", "failed"}
    OBVIOUS
  <2>2. Becomes(w, k)
    BY <1>3 DEF StartEnds
  <2> HIDE DEF pc
  <2>3. k \in WorkerType /\ k.pc = pc /\ k.op = "none" /\ k.stopped = {}
    BY <1>1, <2>1 DEF NoWorker, WorkerType
  <2> HIDE DEF k
  <2>4. /\ worker' \in [Worker -> WorkerType] /\ worker'[w] = k
        /\ \A v \in Worker \ {w} : worker'[v] = worker[v]
    BY <1>1, <2>2, <2>3, BecomesFacts
  <2> QED
    BY <2>1, <2>3, <2>4
<1> QED
  BY <1>2, <1>3

\* The goroutine keeps what it knows when its creation ends.
LEMMA StartEndsOK ==
  ASSUME IInv, NEW w \in Worker, NEW ok \in BOOLEAN, StartEnds(w, ok), UNCHANGED mon,
         worker[w].service \in Service, worker[w].pc # "watch",
         NEW i \in Proc, i = worker[w].id, Aged,
         ok => Started(i)'
  PROVE  WorkerOK(w)' /\ ~Creating(w)'
<1>1. /\ worker'[w].stopped \subseteq worker[w].stopped
      /\ \/ /\ worker'[w].pc \in {"ok", "failed"} /\ worker'[w].op = "none"
         \/ /\ worker[w].op = "restart" /\ worker'[w].op = "restart"
            /\ worker'[w].pc = IF ok THEN "health" ELSE "retry"
            /\ worker'[w].id = worker[w].id /\ worker'[w].service = worker[w].service
  BY StartEndsFacts
<1>2. WorkerOK(w) /\ worker[w] \in WorkerType /\ mon[w] \in MonitorType
  BY DEF IInv, Facts, RecoveryTypeOK, HostTypeOK, MonitorType
<1>3. \A j \in worker[w].stopped : Dead(j)'
  BY <1>2 DEF WorkerOK, WorkerType, Aged
<1>4. mon[w].watched # None => Started(mon[w].watched)'
  BY <1>2 DEF WorkerOK, Aged, MonitorType
<1>5. worker[w].op = "restart" /\ worker[w].pc # "watch" =>
        mon[w].current \in Proc /\ Started(mon[w].current)'
  BY <1>2 DEF WorkerOK, Aged
<1>6. ~Creating(w)'
  BY <1>1 DEF Creating
<1> QED
  BY <1>1, <1>3, <1>4, <1>5, <1>6 DEF WorkerOK

\* A process is registered that nobody else has: the table knew none of the service.
LEMMA CreateContainerKeeps ==
  ASSUME HostAssumption, IInv, NEW w \in Worker, CreateContainer(w), UNCHANGED mon
  PROVE  IInv'
<1>1. /\ worker \in [Worker -> WorkerType] /\ worker[w] \in WorkerType
      /\ proc \in [Proc -> ProcType] /\ mon[w] \in MonitorType
      /\ WorkerOK(w) /\ worker[w].pc = "remove" /\ worker[w].found = {}
  BY DEF IInv, Facts, RecoveryTypeOK, HostTypeOK, CreateContainer, At, MonitorType
<1>2. PICK s \in Service : s = worker[w].service
  BY <1>1 DEF WorkerOK, Creating
<1>3. PICK i \in Fresh :
        /\ proc' = [proc EXCEPT ![i].listed = TRUE, ![i].service = worker[w].service]
        /\ Becomes(w, [worker[w] EXCEPT !.pc = "lookup", !.id = i])
  BY DEF CreateContainer
<1>4. i \in Proc /\ proc[i].service = None
  BY <1>3 DEF Fresh
<1>5. ~Started(i) /\ ~proc[i].reaped
  BY <1>4 DEF IInv, Facts, ProcOK, Started, Dead
<1> DEFINE k == [worker[w] EXCEPT !.pc = "lookup", !.id = i]
           p == [proc[i] EXCEPT !.listed = TRUE, !.service = s]
<1>6. /\ k \in WorkerType
      /\ k.pc = "lookup" /\ k.op = worker[w].op /\ k.service = s
      /\ k.stopped = worker[w].stopped /\ k.id = i
  BY <1>1, <1>2, <1>4 DEF WorkerType
<1>7. p \in ProcType
  BY <1>1, <1>2, <1>4 DEF ProcType
<1>8. p.service = s /\ p.life = proc[i].life
  BY <1>1, <1>2, <1>4 DEF ProcType
<1>9. p.listed /\ (p.reaped <=> proc[i].reaped)
  BY <1>1, <1>2, <1>4 DEF ProcType
<1>10. proc' = [proc EXCEPT ![i] = p]
  BY <1>1, <1>2, <1>3, <1>4
<1>11. Becomes(w, k)
  BY <1>3
<1> HIDE DEF k, p
<1>12. /\ worker' \in [Worker -> WorkerType] /\ worker'[w] = k
       /\ \A v \in Worker \ {w} : worker'[v] = worker[v]
  BY <1>1, <1>6, <1>11, BecomesFacts
<1>13. /\ proc' \in [Proc -> ProcType] /\ proc'[i] = p
       /\ \A j \in Proc \ {i} : proc'[j] = proc[j]
  BY <1>1, <1>4, <1>7, <1>10
<1>14. UNCHANGED <<platform, child, ops, overlapped, mon>>
  BY DEF CreateContainer
<1>15. RecoveryTypeOK'
  BY <1>12, <1>13, <1>14 DEF IInv, RecoveryTypeOK, HostTypeOK
<1>16. Aged /\ \A j \in Proc : (Started(j)' <=> Started(j)) /\ (Dead(j)' <=> Dead(j))
  BY <1>4, <1>8, <1>13 DEF Aged, Started, Dead
<1>17. ASSUME NEW j \in Proc PROVE ProcOK(j)'
  <2>1. CASE j = i
    <3>1. proc'[j].service # None
      BY <1>2, <1>8, <1>13, <2>1 DEF HostAssumption
    <3>2. ~proc'[j].reaped
      BY <1>5, <1>9, <1>13, <2>1
    <3> QED
      BY <3>1, <3>2 DEF ProcOK
  <2>2. CASE j # i
    BY <1>13, <2>2 DEF ProcOK, IInv, Facts, Dead, Started
  <2> QED
    BY <2>1, <2>2
<1>18. WorkerOK(w)'
  <2>1. \A j \in worker[w].stopped : Dead(j)'
    BY <1>1, <1>16 DEF WorkerOK, WorkerType
  <2>2. mon[w].watched # None => Started(mon[w].watched)'
    BY <1>1, <1>14, <1>16 DEF WorkerOK, MonitorType
  <2>3. worker[w].op = "restart" => mon[w].current \in Proc /\ Started(mon[w].current)'
    BY <1>1, <1>14, <1>16 DEF WorkerOK
  <2>4. ~Started(i)' /\ proc'[i].service = s
    BY <1>4, <1>5, <1>8, <1>13, <1>16
  <2>5. worker[w].op \in {"start", "restart"}
    BY <1>1 DEF WorkerOK, Creating
  <2> QED
    BY <1>4, <1>6, <1>12, <1>14, <2>1, <2>2, <2>3, <2>4, <2>5 DEF WorkerOK
<1>19. \A v \in Worker \ {w} : worker[v].pc \in {"lookup", "fork"} => worker[v].id # worker'[w].id
  <2>1. \A v \in Worker : worker[v].pc \in {"lookup", "fork"} => proc[worker[v].id].service \in Service
    BY DEF IInv, Facts, WorkerOK, Creating
  <2> QED
    BY <1>4, <1>6, <1>12, <2>1 DEF HostAssumption
<1>20. ASSUME NEW t \in Service \ overlapped' PROVE Quiet(t) \/ ServiceOK(t)'
  <2>1. t # None
    BY DEF HostAssumption
  <2>2. CASE t # s
    <3>1. \A j \in Proc : proc'[j].service = t <=> proc[j].service = t
      BY <1>4, <1>8, <1>13, <2>1, <2>2
    <3> QED
      BY <1>4, <1>6, <1>12, <1>13, <2>1, <2>2, <3>1 DEF Quiet, Creating, Alive
  <2>3. CASE t = s
    <3>1. ServiceOK(s)
      BY <1>14, <2>3 DEF IInv, Facts
    <3>2. \A v \in Worker \ {w} : ~(Creating(v) /\ worker[v].service = s)
      BY <1>1, <1>2, <3>1 DEF ServiceOK, Creating
    <3>3. \A v \in Worker \ {w} : worker'[v].service = s => worker'[v].pc \notin {"remove", "lookup", "fork"}
      BY <1>12, <3>2 DEF Creating
    <3>4. \A v, u \in Worker :
            Creating(v)' /\ Creating(u)' /\ worker'[v].service = s /\ worker'[u].service = s => v = u
      BY <1>12, <3>2 DEF Creating
    <3>5. \A j \in Proc : proc[j].service = s => ~proc[j].listed /\ ~Alive(j)
      BY <1>1, <1>2, <3>1 DEF ServiceOK, At
    <3>6. \A j \in Proc : proc'[j].service = s => ~Alive(j)'
      BY <1>5, <1>8, <1>13, <3>5 DEF Alive, Started
    <3>7. \A j \in Proc : proc'[j].listed /\ proc'[j].service = s => j = worker'[w].id
      BY <1>6, <1>12, <1>13, <3>5
    <3>8. worker'[w].pc = "lookup"
      BY <1>6, <1>12
    <3> QED
      BY <2>3, <3>3, <3>4, <3>6, <3>7, <3>8 DEF ServiceOK, At
  <2> QED
    BY <2>2, <2>3
<1> QED
  BY <1>12, <1>14, <1>15, <1>16, <1>17, <1>18, <1>19, <1>20, StepKeeps DEF Others

\* The process is still in the table, or the creation has failed.
LEMMA LookupKeeps ==
  ASSUME HostAssumption, IInv, NEW w \in Worker, LookupProcess(w), UNCHANGED mon
  PROVE  IInv'
<1>1. /\ worker \in [Worker -> WorkerType] /\ worker[w] \in WorkerType
      /\ WorkerOK(w) /\ worker[w].pc = "lookup" /\ "fork" \in Points
  BY DEF IInv, Facts, RecoveryTypeOK, HostTypeOK, LookupProcess, At, Points
<1>2. PICK s \in Service : s = worker[w].service
  BY <1>1 DEF WorkerOK, Creating
<1>3. PICK i \in Proc : i = worker[w].id
  BY <1>1 DEF WorkerOK
<1>4. UNCHANGED <<platform, proc, child, ops, overlapped, mon>>
  BY DEF LookupProcess
<1>5. CASE proc[i].listed
  <2>1. Goto(w, "fork")
    BY <1>3, <1>5 DEF LookupProcess
  <2>2. /\ worker' \in [Worker -> WorkerType]
        /\ \A v \in Worker \ {w} : worker'[v] = worker[v]
        /\ worker'[w].pc = "fork" /\ worker'[w].op = worker[w].op
        /\ worker'[w].service = worker[w].service /\ worker'[w].id = worker[w].id
        /\ worker'[w].stopped = worker[w].stopped
    BY <1>1, <2>1, GotoFacts
  <2>3. RecoveryTypeOK'
    BY <1>4, <2>2 DEF IInv, RecoveryTypeOK, HostTypeOK
  <2>4. WorkerOK(w)'
    BY <1>1, <1>2, <1>4, <2>2 DEF WorkerOK, Creating, Started, Dead
  <2>5. ASSUME NEW t \in Service \ overlapped' PROVE Quiet(t) \/ ServiceOK(t)'
    <3>1. CASE t # s
      BY <1>2, <1>4, <2>2, <3>1 DEF Quiet, Creating, Alive
    <3>2. CASE t = s
      <4>1. ServiceOK(s)
        BY <1>4, <3>2 DEF IInv, Facts
      <4>2. \A v \in Worker \ {w} : ~(Creating(v) /\ worker[v].service = s)
        BY <1>1, <1>2, <4>1 DEF ServiceOK, Creating
      <4>3. \A v \in Worker \ {w} : worker'[v].service = s => worker'[v].pc \notin {"remove", "lookup", "fork"}
        BY <2>2, <4>2 DEF Creating
      <4>4. \A v, u \in Worker :
              Creating(v)' /\ Creating(u)' /\ worker'[v].service = s /\ worker'[u].service = s => v = u
        BY <2>2, <4>2 DEF Creating
      <4>5. \A j \in Proc : proc'[j].listed /\ proc'[j].service = s => j = worker'[w].id
        BY <1>1, <1>2, <1>4, <2>2, <4>1 DEF ServiceOK
      <4>6. proc'[worker'[w].id].listed
        BY <1>3, <1>4, <1>5, <2>2
      <4> QED
        BY <1>4, <2>2, <3>2, <4>1, <4>3, <4>4, <4>5, <4>6 DEF ServiceOK, At, Alive
    <3> QED
      BY <3>1, <3>2
  <2> QED
    BY <1>1, <1>4, <2>2, <2>3, <2>4, <2>5, StepKeeps, SameProcesses DEF Others
<1>6. CASE ~proc[i].listed
  <2>1. StartEnds(w, FALSE)
    BY <1>3, <1>6 DEF LookupProcess
  <2>2. /\ worker' \in [Worker -> WorkerType]
        /\ \A v \in Worker \ {w} : worker'[v] = worker[v]
    BY <2>1, StartEndsFacts
  <2>3. RecoveryTypeOK'
    BY <1>4, <2>2 DEF IInv, RecoveryTypeOK, HostTypeOK
  <2>4. Aged
    BY <1>4, SameProcesses
  <2>5. WorkerOK(w)' /\ ~Creating(w)'
    BY <1>1, <1>2, <1>3, <2>1, <2>4, StartEndsOK
  <2> QED
    BY <1>4, <2>2, <2>3, <2>5, IdleKeeps DEF Others
<1> QED
  BY <1>5, <1>6

\* The process is started, and it is the only one of its service, or that fails.
LEMMA StartContainerKeeps ==
  ASSUME HostAssumption, IInv, NEW w \in Worker, StartContainer(w), UNCHANGED mon
  PROVE  IInv'
<1>1. /\ worker \in [Worker -> WorkerType] /\ worker[w] \in WorkerType
      /\ proc \in [Proc -> ProcType] /\ child \subseteq Proc
      /\ WorkerOK(w) /\ worker[w].pc = "fork"
  BY DEF IInv, Facts, RecoveryTypeOK, HostTypeOK, StartContainer, At
<1>2. PICK s \in Service : s = worker[w].service
  BY <1>1 DEF WorkerOK, Creating
<1>3. PICK i \in Proc : i = worker[w].id
  BY <1>1 DEF WorkerOK
<1>4. UNCHANGED <<platform, ops, overlapped>>
  BY DEF StartContainer
<1>5. CASE StartEnds(w, FALSE) /\ UNCHANGED <<proc, child>>
  <2>1. /\ worker' \in [Worker -> WorkerType]
        /\ \A v \in Worker \ {w} : worker'[v] = worker[v]
    BY <1>5, StartEndsFacts
  <2>2. RecoveryTypeOK'
    BY <1>4, <1>5, <2>1 DEF IInv, RecoveryTypeOK, HostTypeOK
  <2>3. Aged
    BY <1>5, SameProcesses
  <2>4. WorkerOK(w)' /\ ~Creating(w)'
    BY <1>1, <1>2, <1>3, <1>5, <2>3, StartEndsOK
  <2> QED
    BY <1>4, <1>5, <2>1, <2>2, <2>4, IdleKeeps DEF Others
<1>6. CASE /\ proc' = [proc EXCEPT ![i].life = "alive"]
           /\ child' = child \/ (child = {} /\ child' = {i})
           /\ StartEnds(w, TRUE)
  <2> DEFINE p == [proc[i] EXCEPT !.life = "alive"]
  <2>1. proc[i] \in ProcType /\ ~Started(i) /\ proc[i].service = s
    BY <1>1, <1>2, <1>3 DEF WorkerOK
  <2>2. p \in ProcType /\ p.life = "alive" /\ p.service = s
    BY <2>1 DEF ProcType
  <2>3. (p.listed <=> proc[i].listed) /\ (p.reaped <=> proc[i].reaped)
    BY <2>1 DEF ProcType
  <2>4. proc' = [proc EXCEPT ![i] = p]
    BY <1>6
  <2> HIDE DEF p
  <2>5. /\ proc' \in [Proc -> ProcType] /\ proc'[i] = p
        /\ \A j \in Proc \ {i} : proc'[j] = proc[j]
    BY <1>1, <2>2, <2>4
  <2>6. /\ worker' \in [Worker -> WorkerType]
        /\ \A v \in Worker \ {w} : worker'[v] = worker[v]
    BY <1>6, StartEndsFacts
  <2>7. child' \subseteq Proc
    BY <1>1, <1>6
  <2>8. RecoveryTypeOK'
    BY <1>4, <2>5, <2>6, <2>7 DEF IInv, RecoveryTypeOK, HostTypeOK
  <2>9. Aged /\ \A j \in Proc : Started(j)' => Started(j) \/ j = i
    BY <2>1, <2>2, <2>5 DEF Aged, Started, Dead
  <2>10. Started(i)' /\ Alive(i)'
    BY <2>2, <2>5 DEF Started, Alive
  <2>11. ASSUME NEW j \in Proc PROVE ProcOK(j)'
    <3>1. CASE j = i
      <4>1. ~proc[i].reaped
        BY <2>1 DEF IInv, Facts, ProcOK, Started, Dead
      <4>2. ~proc'[j].reaped /\ proc'[j].service # None
        BY <1>2, <2>2, <2>3, <2>5, <3>1, <4>1 DEF HostAssumption
      <4> QED
        BY <4>2 DEF ProcOK
    <3>2. CASE j # i
      BY <2>5, <3>2 DEF ProcOK, IInv, Facts, Dead, Started
    <3> QED
      BY <3>1, <3>2
  <2>12. WorkerOK(w)' /\ ~Creating(w)'
    BY <1>1, <1>2, <1>3, <1>6, <2>9, <2>10, StartEndsOK
  <2>13. ASSUME NEW t \in Service \ overlapped' PROVE Quiet(t) \/ ServiceOK(t)'
    <3>1. \A v \in Worker : Creating(v)' => v # w /\ worker'[v] = worker[v]
      BY <2>6, <2>12
    <3>2. \A j \in Proc : proc'[j].service = proc[j].service
      BY <2>1, <2>2, <2>5
    <3>3. CASE t # s
      BY <2>1, <2>5, <3>1, <3>2, <3>3 DEF Quiet, Alive
    <3>4. CASE t = s
      <4>1. ServiceOK(s)
        BY <1>4, <3>4 DEF IInv, Facts
      <4>2. \A v \in Worker \ {w} : ~(Creating(v) /\ worker[v].service = s)
        BY <1>1, <1>2, <4>1 DEF ServiceOK, Creating
      <4>3. \A v \in Worker : ~(Creating(v)' /\ worker'[v].service = s)
        BY <3>1, <4>2 DEF Creating
      <4>4. \A j \in Proc : proc[j].listed /\ proc[j].service = s => j = i
        BY <1>1, <1>2, <1>3, <4>1 DEF ServiceOK
      <4>5. proc[i].listed
        BY <1>1, <1>2, <1>3, <4>1 DEF ServiceOK, At
      <4>6. \A j \in Proc : proc'[j].service = s /\ Alive(j)' => j = i
        BY <2>5, <4>1, <4>4 DEF ServiceOK, Alive
      <4>7. proc'[i].listed
        BY <2>3, <2>5, <4>5
      <4>8. \A j \in Proc : proc'[j].service = s /\ Alive(j)' => proc'[j].listed
        BY <4>6, <4>7
      <4> QED
        BY <3>4, <4>3, <4>6, <4>8 DEF ServiceOK, Creating, At
    <3> QED
      BY <3>3, <3>4
  <2>14. worker'[w].pc \notin {"lookup", "fork"}
    BY <2>12 DEF Creating
  <2>15. \A j \in Proc : Started(j)' => Started(j) \/ (At(w, "fork") /\ j = worker[w].id)
    BY <1>1, <1>3, <2>9 DEF At
  <2> QED
    BY <1>4, <2>6, <2>8, <2>9, <2>11, <2>12, <2>13, <2>14, <2>15, StepKeeps DEF Others
<1> QED
  BY <1>3, <1>5, <1>6 DEF StartContainer

-----------------------------------------------------------------------------
(* The theorems *)

LEMMA InitOK ==
  ASSUME HostAssumption, RecoveryAssumption, RecoveryInit
  PROVE  IInv
<1>1. 0 \in 0..MaxRetries /\ 0 \in 0..MaxOps
  BY DEF RecoveryAssumption, HostAssumption
<1>2. NoProc \in ProcType /\ NoWorker \in WorkerType
  BY DEF NoProc, ProcType, NoWorker, WorkerType
<1>3. RecoveryTypeOK
  BY <1>1, <1>2 DEF RecoveryInit, HostInit, RecoveryTypeOK, HostTypeOK, NoMonitor
<1>4. \A i \in Proc : ProcOK(i)
  BY DEF RecoveryInit, HostInit, ProcOK, NoProc, Started
<1>5. \A w \in Worker : WorkerOK(w) /\ worker[w].pc = "idle"
  BY DEF RecoveryInit, HostInit, WorkerOK, NoWorker, NoMonitor, Creating
<1>6. ForkOnce
  BY <1>5 DEF ForkOnce
<1>7. \A i \in Proc : ~Alive(i)
  BY DEF RecoveryInit, HostInit, NoProc, Alive
<1>8. \A s \in Service : ServiceOK(s)
  BY <1>5, <1>7 DEF ServiceOK, Creating, At
<1> QED
  BY <1>3, <1>4, <1>5, <1>6, <1>8 DEF IInv, Facts

LEMMA NextOK ==
  ASSUME HostAssumption, RecoveryAssumption, IInv, [RecoveryNext]_recoveryVars
  PROVE  IInv'
<1>1. CASE Processes /\ UNCHANGED mon
  BY <1>1, ProcessKeeps
<1>2. ASSUME NEW w \in Worker, NEW s \in Service, StartService(w, s), UNCHANGED mon PROVE IInv'
  BY <1>2, StartKeeps
<1>3. ASSUME NEW w \in Worker, NEW s \in Service, StopService(w, s) \/ Cleanup(w, s), UNCHANGED mon
      PROVE  IInv'
  BY <1>3, StopKeeps
<1>4. ASSUME NEW w \in Worker, Run(w), UNCHANGED mon PROVE IInv'
  BY <1>4, ListExistingKeeps, RemoveExistingKeeps, CreateContainerKeeps, LookupKeeps,
     StartContainerKeeps, StopContainerKeeps, ObeyedKeeps, GraceOverKeeps, KillContainerKeeps,
     EndKeeps DEF Run
<1>5. ASSUME NEW w \in Worker, NEW s \in Service, Monitor(w, s) PROVE IInv'
  BY <1>5, MonitorKeeps
<1>6. ASSUME NEW w \in Worker, Watch(w) PROVE IInv'
  BY <1>6, TickKeeps, BackoffKeeps, HealthKeeps, RetryKeeps DEF Watch
<1>7. ASSUME NEW w \in Worker, Cancel(w) PROVE IInv'
  BY <1>7, CancelKeeps
<1>8. CASE UNCHANGED recoveryVars
  <2>1. UNCHANGED <<platform, proc, child, worker, ops, overlapped, mon>>
    BY <1>8 DEF recoveryVars, hostVars
  <2>2. RecoveryTypeOK'
    BY <2>1 DEF IInv, RecoveryTypeOK, HostTypeOK
  <2>3. Aged /\ \A i \in Proc : ProcOK(i)'
    BY <2>1, SameProcesses
  <2>4. ASSUME NEW v \in Worker PROVE WorkerOK(v)'
    BY <2>1, <2>3, OtherOK DEF IInv, Facts, WorkerOK, Started
  <2>5. ForkOnce'
    BY <2>1 DEF IInv, Facts, ForkOnce
  <2>6. ASSUME NEW s \in Service \ overlapped' PROVE ServiceOK(s)'
    <3>1. Quiet(s)
      BY <2>1 DEF Quiet, Alive, Started, Creating
    <3> QED
      BY <2>1, <3>1, QuietKeeps
  <2> QED
    BY <2>2, <2>3, <2>4, <2>5, <2>6 DEF IInv, Facts
<1> QED
  BY <1>1, <1>2, <1>3, <1>4, <1>5, <1>6, <1>7, <1>8 DEF RecoveryNext

\* The strengthened invariant holds of every behaviour of the goroutines, the
\* monitor and the processes.
THEOREM InductiveInvariant == RecoverySpec => []IInv
<1>1. RecoveryInit => IInv
  BY HostAssumption, RecoveryAssumption, InitOK
<1>2. IInv /\ [RecoveryNext]_recoveryVars => IInv'
  BY HostAssumption, RecoveryAssumption, NextOK
<1> HIDE DEF RecoveryFairness
<1> QED
  BY <1>1, <1>2, PTL DEF RecoverySpec

\* A service that no two goroutines were creating at once has at most one living
\* process, and the table lists it, however many stops, clean-ups, restarts and
\* exits overlap with the one that creates (StartService, StartContainer, RemoveContainer, ApplyRestartPolicy).
THEOREM NoStrayProcess == RecoverySpec => []HostInv
<1>1. ASSUME IInv, NEW s \in Service \ overlapped
      PROVE  LET alive == {i \in Proc : proc[i].service = s /\ Alive(i)}
             IN  Cardinality(alive) <= 1 /\ alive \subseteq ListContainers(s)
  <2> DEFINE alive == {i \in Proc : proc[i].service = s /\ Alive(i)}
  <2>1. ServiceOK(s)
    BY <1>1 DEF IInv, Facts
  <2>2. alive \subseteq ListContainers(s)
    BY <2>1 DEF ServiceOK, ListContainers
  <2>3. \A i, j \in alive : i = j
    BY <2>1 DEF ServiceOK
  <2>4. Cardinality(alive) <= 1
    <3> HIDE DEF alive
    <3>1. CASE alive = {}
      <4>1. Cardinality(alive) = 0
        BY <3>1, FS_EmptySet
      <4> QED
        BY <4>1
    <3>2. CASE alive # {}
      <4>1. PICK i \in alive : TRUE
        BY <3>2
      <4>2. alive = {i}
        BY <2>3, <4>1
      <4>3. Cardinality(alive) = 1
        BY <4>2, FS_Singleton
      <4> QED
        BY <4>3
    <3> QED
      BY <3>1, <3>2
  <2> QED
    BY <2>2, <2>4
<1>2. IInv => HostInv
  BY <1>1 DEF IInv, HostInv, NoStray
<1> QED
  BY <1>2, InductiveInvariant, PTL

\* Each process that a Stop found started is dead when the Stop is over, whatever
\* else runs meanwhile; nothing is said of its children (StopContainer).
THEOREM StopKills == RecoverySpec => []StoppedIsDead
<1>1. IInv => StoppedIsDead
  BY DEF IInv, Facts, WorkerOK, StoppedIsDead, Dead, Alive
<1> QED
  BY <1>1, InductiveInvariant, PTL
=============================================================================
