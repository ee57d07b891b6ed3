------------------------------ MODULE Recovery ------------------------------
(***************************************************************************)
(* The recovery manager on the host runtime: a goroutine per monitored     *)
(* service polls the container it was given and applies the service's      *)
(* restart policy when it finds it exited.  Restarts go through the same   *)
(* lifecycle as Starts and may meet them, Stops and clean-ups at any step. *)
(***************************************************************************)
EXTENDS HostRuntime

CONSTANT MaxRetries   \* policy.MaxRetries (3 when 0)

ASSUME RecoveryAssumption == MaxRetries \in Nat \ {0}

VARIABLE mon   \* per worker, when it monitors: what it knows

recoveryVars == <<hostVars, mon>>

\* watched: Monitor's containerID, None for the empty string; current: that of
\* ApplyRestartPolicy; check: does the service have a health check?  A service without
\* a restart policy is not monitored in any way that shows.
NoMonitor == [watched |-> None, current |-> None, attempt |-> 0, check |-> FALSE, outcome |-> "none"]

RecoveryTypeOK ==
  /\ HostTypeOK
  /\ mon \in [Worker -> [watched : Proc \cup {None}, current : Proc \cup {None},
                         attempt : 0..MaxRetries, check : BOOLEAN,
                         outcome : {"none", "restarted", "gave up"}]]

RecoveryInit == HostInit /\ mon = [w \in Worker |-> NoMonitor]

Monitors(w) == worker[w].op = "restart"

\* Bound: an id for every start that is under way or may follow.
Room(n) ==
  Cardinality(Fresh) >= n + Cardinality({v \in Worker : worker[v].op = "start" /\ Creating(v)})
                          + MaxRetries * Cardinality({v \in Worker : Monitors(v)})

Monitor(w, s) ==
  /\ \A v \in Worker : ~Monitors(v)
  /\ Room(MaxRetries)
  /\ Begin(w, "restart", s, "watch", {})
  /\ \E i \in ListContainers(s), check \in BOOLEAN :
       /\ proc[i].life # "new"
       /\ mon' = [mon EXCEPT ![w] = [NoMonitor EXCEPT !.watched = i, !.check = check]]

Noticed(w) ==
  /\ At(w, "watch")
  /\ \E i \in Proc : i = mon[w].watched /\ proc[i].listed /\ MapStatus(i) = "exited"

\* Mutant: it waits for a state the host runtime never reports.
TickDead(w) ==
  /\ Noticed(w) /\ MapStatus(mon[w].watched) = "dead"
  /\ Goto(w, "backoff")
  /\ mon' = [mon EXCEPT ![w].attempt = 1, ![w].current = mon[w].watched]
  /\ UNCHANGED <<platform, proc, child, ops, overlapped>>

\* A tick: no such container, or one that has not exited, changes nothing.
Tick(w) ==
  /\ Noticed(w)
  /\ Goto(w, "backoff")
  /\ mon' = [mon EXCEPT ![w].attempt = 1, ![w].current = mon[w].watched]
  /\ UNCHANGED <<platform, proc, child, ops, overlapped>>

\* The wait is over: remove the old container, unless it is gone, and start.
BackoffOver(w) ==
  /\ At(w, "backoff")
  /\ Goto(w, "list")
  /\ IF proc[mon[w].current].listed THEN RemoveContainer(mon[w].current) ELSE UNCHANGED proc
  /\ overlapped' = overlapped \cup
       (IF \E v \in Worker \ {w} : Creating(v) /\ worker[v].service = worker[w].service
        THEN {worker[w].service} ELSE {})
  /\ UNCHANGED <<platform, child, ops, mon>>

\* WaitForHealthy: two seconds without a health check; with one, the host
\* runtime never says "healthy", so it fails in the end.  Monitor goes on with
\* the container it had before.
Healthy(w) ==
  /\ At(w, "health") /\ ~mon[w].check
  /\ Goto(w, "watch")
  /\ mon' = [mon EXCEPT ![w].outcome = "restarted"]
  /\ UNCHANGED <<platform, proc, child, ops, overlapped>>

Unhealthy(w) ==
  /\ At(w, "health") /\ mon[w].check
  /\ Goto(w, "retry")
  /\ mon' = [mon EXCEPT ![w].current = worker[w].id]
  /\ UNCHANGED <<platform, proc, child, ops, overlapped>>

\* The next attempt, or the error after which Monitor watches nothing.
Retry(w) ==
  /\ At(w, "retry")
  /\ IF mon[w].attempt = MaxRetries
     THEN /\ Goto(w, "watch")
          /\ mon' = [mon EXCEPT ![w].watched = None, ![w].outcome = "gave up"]
     ELSE /\ Goto(w, "backoff")
          /\ mon' = [mon EXCEPT ![w].attempt = @ + 1]
  /\ UNCHANGED <<platform, proc, child, ops, overlapped>>

\* ctx is done, which a restart on the host notices only when it waits.
Cancel(w) ==
  /\ Monitors(w) /\ worker[w].pc \in {"watch", "backoff", "health"}
  /\ At(w, "health") => mon[w].check
  /\ Becomes(w, NoWorker)
  /\ mon' = [mon EXCEPT ![w] = NoMonitor]
  /\ UNCHANGED <<platform, proc, child, ops, overlapped>>

Watch(w) == Tick(w) \/ BackoffOver(w) \/ Healthy(w) \/ Unhealthy(w) \/ Retry(w)

RecoveryNext ==
  \/ Processes /\ UNCHANGED mon
  \/ \E w \in Worker :
       \/ (\E s \in Service : StartService(w, s)) /\ Room(1) /\ UNCHANGED mon
       \/ (\E s \in Service : StopService(w, s) \/ Cleanup(w, s)) /\ UNCHANGED mon
       \/ Run(w) /\ UNCHANGED mon
       \/ \E s \in Service : Monitor(w, s)
       \/ Watch(w) \/ Cancel(w)

\* Goroutines run on and tickers tick; ended processes are waited for.
RecoveryFairness ==
  /\ \A w \in Worker : WF_recoveryVars(Watch(w)) /\ WF_recoveryVars(Run(w) /\ UNCHANGED mon)
  /\ \A i \in Proc : WF_recoveryVars(Reap(i) /\ UNCHANGED mon)

RecoverySpec == RecoveryInit /\ [][RecoveryNext]_recoveryVars /\ RecoveryFairness

-----------------------------------------------------------------------------
\* The first exit of a monitored service is answered: it is restarted, or the
\* attempts are used up, unless the monitoring ends or somebody else replaces the
\* container before the next poll; no step of another goroutine makes the
\* recovery stop half-way (Monitor, ApplyRestartPolicy).
ExitAnswered ==
  \A w \in Worker :
    [](Noticed(w) => <>(\/ ~Monitors(w)
                        \/ mon[w].outcome # "none"
                        \/ At(w, "watch") /\ ~proc[mon[w].watched].listed))

\* The state is of its type, and no process of a service runs besides the one the
\* table knows (see NoStray).
HostInv == RecoveryTypeOK /\ NoStray
=============================================================================
