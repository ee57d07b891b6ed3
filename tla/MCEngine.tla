------------------------------- MODULE MCEngine -------------------------------
(***************************************************************************)
(* Instances of Engine for TLC.  Project "app" is the shape of the         *)
(* repository's own examples: a database container that a host process     *)
(* depends on.  "loop" depends on itself; "jobs" needs no Docker.          *)
(***************************************************************************)
EXTENDS EngineInvariant

CONSTANTS app, jobs, loop, db, web

MCServices == [p \in Project |-> CASE p = app -> {db, web}
                                   [] p = jobs -> {web}
                                   [] p = loop -> {web}]

MCDependsOn ==
  [p \in Project |-> [s \in Service |->
     CASE p = app /\ s = web -> {db}
       [] p = loop /\ s = web -> {web}
       [] OTHER -> {}]]

MCNeedsDocker == [p \in Project |-> IF p = app THEN {db} ELSE {}]

\* The same services, all in Docker, and all on the host.
AllDocker == [p \in Project |-> {db, web}]
AllHost == [p \in Project |-> {}]
===============================================================================
