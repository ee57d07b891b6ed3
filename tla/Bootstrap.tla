----------------------------- MODULE Bootstrap -----------------------------
(***************************************************************************)
(* How `devbox` commands find, start, stop and restart the engine daemon   *)
(* (New, startEngineDaemon and Shutdown of cli/internal/client, cli/cmd    *)
(* engine.go, and main and Shutdown of engine/cmd/daemon.go).  A command   *)
(* dials the daemon's address; when nobody answers it starts a daemon and  *)
(* dials again.  No lock says that somebody else is doing the same.        *)
(*                                                                         *)
(* On Unix the address is a path: a starting daemon removes whatever is    *)
(* there and binds its own socket, a closing one unlinks the path, and an  *)
(* exiting one removes it once more, each without looking whose it is.  On *)
(* Windows it is a TCP port, that one process at a time can have.          *)
(***************************************************************************)
EXTENDS CliConfig

CONSTANTS
  Daemon,       \* the daemon processes that may come to exist
  NoDaemon,
  MaxCommands,  \* bound on the commands that are given
  MaxKills      \* bound on the processes killed or told to terminate

ASSUME BootAssumption ==
  MaxCommands \in Nat /\ MaxKills \in Nat /\ NoDaemon \notin Daemon

VARIABLES
  platform,   \* "unix" or "windows"
  address,    \* the daemon the address leads to, dead or alive
  daemon,     \* per daemon: where main() is
  cli,        \* per command: where it is
  raced,      \* a daemon was started while another was alive
  commands,   \* commands given so far
  kills       \* kills so far

engineVars == <<platform, address, daemon, cli, raced, commands, kills>>
vars == <<configVars, engineVars>>

Op == {"use", "start", "stop", "restart"}
DaemonAt == {"none", "booting", "cleared", "serving", "draining", "gone"}
CliAt == {"idle", "dial", "redial", "connected", "refused", "calling", "asked"}

Fresh == [at |-> "none", asked |-> FALSE, killed |-> FALSE]
Idle == [at |-> "idle", op |-> "use", again |-> FALSE, conn |-> NoDaemon,
         alone |-> TRUE, last |-> "none"]

Daemons == [Daemon -> [at : DaemonAt, asked : BOOLEAN, killed : BOOLEAN]]
Clis ==
  [Cli -> [at : CliAt, op : Op, again : BOOLEAN, conn : Daemon \cup {NoDaemon},
           alone : BOOLEAN, last : {"none", "ok", "failed"}]]

EngineTypeOK ==
  /\ platform \in {"unix", "windows"}
  /\ address \in Daemon \cup {NoDaemon}
  /\ daemon \in Daemons
  /\ cli \in Clis
  /\ raced \in BOOLEAN
  /\ commands \in 0..MaxCommands
  /\ kills \in 0..MaxKills

BootTypeOK == ConfigTypeOK /\ EngineTypeOK

Init ==
  /\ ConfigInit
  /\ platform \in {"unix", "windows"}
  /\ address = NoDaemon
  /\ daemon = [d \in Daemon |-> Fresh]
  /\ cli = [c \in Cli |-> Idle]
  /\ raced = FALSE
  /\ commands = 0
  /\ kills = 0

-----------------------------------------------------------------------------
Alive(d) == daemon[d].at \in {"booting", "cleared", "serving", "draining"}
Starting(d) == daemon[d].at \in {"booting", "cleared"}
Serving(d) == daemon[d].at = "serving"
Busy(d) == \E c \in Cli : cli[c].at = "calling" /\ cli[c].conn = d
Active(c) == cli[c].at # "idle"

\* A dial gets through when the address leads to a daemon that accepts.
Reachable == address # NoDaemon /\ Serving(address)

\* The daemon that gets a call made on a connection to d: gRPC dials again when
\* d has closed the connection, and the call fails when nobody answers.
Hears(d) == IF Serving(d) THEN {d} ELSE IF Reachable THEN {address} ELSE {}

\* No daemon is on its way up or down.
Settled ==
  \A d \in Daemon : Alive(d) => Serving(d) /\ ~daemon[d].asked

\* The address of a daemon that closes its listener or whose process ends.
\* On Unix the path is unlinked, whoever has bound it.
Unlinked(d) ==
  IF platform = "unix" \/ address = d THEN NoDaemon ELSE address

\* A command goes on: where it is then, and the daemon it is connected to.
Moved(c, at, conn) == [cli EXCEPT ![c].at = at, ![c].conn = conn]

NobodyAlone == [c \in Cli |-> [cli[c] EXCEPT !.alone = FALSE]]

-----------------------------------------------------------------------------
(* The daemon: main() of engine/cmd/daemon.go.                             *)

\* exec.Command(binPath, "--daemon").Start() of some command.
Spawned(d) ==
  /\ daemon[d].at = "none"
  /\ daemon' = [daemon EXCEPT ![d].at = "booting"]
  /\ raced' = (raced \/ \E e \in Daemon : Alive(e))

\* state.NewManager: two daemons that create the schema of the same database
\* at the same time may find it locked, and then main() ends (log.Fatalf).
SchemaLocked(d) ==
  /\ daemon[d].at = "booting"
  /\ \E e \in Daemon \ {d} : daemon[e].at = "booting"
  /\ daemon' = [daemon EXCEPT ![d].at = "gone"]
  /\ UNCHANGED <<platform, address, cli, raced, commands, kills>>

\* A main() that binds without removing what an earlier daemon left.
ClearPathNot(d) ==
  /\ daemon[d].at = "booting"
  /\ daemon' = [daemon EXCEPT ![d].at = "cleared"]
  /\ UNCHANGED <<platform, address, cli, raced, commands, kills>>

\* os.Remove(socketPath): whatever is there.  Windows has no path to remove.
ClearPath(d) ==
  /\ daemon[d].at = "booting"
  /\ address' = IF platform = "unix" THEN NoDaemon ELSE address
  /\ daemon' = [daemon EXCEPT ![d].at = "cleared"]
  /\ UNCHANGED <<platform, cli, raced, commands, kills>>

\* A main() that takes the address even when it is taken (SO_REUSEPORT).
ListenShared(d) ==
  /\ daemon[d].at = "cleared"
  /\ address' = d
  /\ daemon' = [daemon EXCEPT ![d].at = "serving"]
  /\ UNCHANGED <<platform, cli, raced, commands, kills>>

\* net.Listen and Serve.  An address that is taken ends main().
Listen(d) ==
  /\ daemon[d].at = "cleared"
  /\ \/ /\ address = NoDaemon
        /\ address' = d
        /\ daemon' = [daemon EXCEPT ![d].at = "serving"]
     \/ /\ address # NoDaemon
        /\ daemon' = [daemon EXCEPT ![d].at = "gone"]
        /\ UNCHANGED address
  /\ UNCHANGED <<platform, cli, raced, commands, kills>>

\* GracefulStop closes the listener: no new connection, no new call.
CloseListener(d) ==
  /\ Serving(d) /\ daemon[d].asked
  /\ address' = Unlinked(d)
  /\ daemon' = [daemon EXCEPT ![d].at = "draining"]
  /\ UNCHANGED <<platform, cli, raced, commands, kills>>

\* Stop instead of GracefulStop: the running calls are cut off.
ExitAtOnce(d) ==
  /\ daemon[d].at = "draining"
  /\ address' = Unlinked(d)
  /\ daemon' = [daemon EXCEPT ![d].at = "gone"]
  /\ UNCHANGED <<platform, cli, raced, commands, kills>>

\* GracefulStop has waited for the running calls, Serve returns, and the
\* deferred os.Remove(socketPath) runs before the process ends.
Exit(d) ==
  /\ daemon[d].at = "draining"
  /\ ~Busy(d)
  /\ address' = Unlinked(d)
  /\ daemon' = [daemon EXCEPT ![d].at = "gone"]
  /\ UNCHANGED <<platform, cli, raced, commands, kills>>

\* SIGINT or SIGTERM: the same graceful stop as a Shutdown call.
Terminate(d) ==
  /\ kills < MaxKills /\ Serving(d) /\ ~daemon[d].asked
  /\ daemon' = [daemon EXCEPT ![d].asked = TRUE]
  /\ cli' = NobodyAlone
  /\ kills' = kills + 1
  /\ UNCHANGED <<platform, address, raced, commands>>

\* The daemon is killed: on Unix its socket file stays behind.
KillDaemon(d) ==
  /\ kills < MaxKills /\ Alive(d)
  /\ daemon' = [daemon EXCEPT ![d].at = "gone", ![d].killed = TRUE]
  /\ address' = IF platform = "windows" THEN Unlinked(d) ELSE address
  /\ cli' = NobodyAlone
  /\ kills' = kills + 1
  /\ UNCHANGED <<platform, raced, commands>>

-----------------------------------------------------------------------------
(* The commands.                                                           *)

CliOnly == UNCHANGED <<platform, address, daemon, raced, commands, kills>>

\* A command has the engine to itself while no other command is active and no
\* daemon is coming up or going down.
Begin(c, op) ==
  /\ commands < MaxCommands
  /\ ~Active(c) /\ ~Setting(c)
  /\ LET alone == Settled /\ \A b \in Cli : ~Active(b)
     IN cli' = [NobodyAlone EXCEPT ![c] =
                  [Idle EXCEPT !.at = "dial", !.op = op, !.alone = alone]]
  /\ commands' = commands + 1
  /\ UNCHANGED <<platform, address, daemon, raced, kills>>

Ended(c, result) ==
  cli' = [Moved(c, "idle", NoDaemon) EXCEPT ![c].last = result]

\* New: the first dial (5 s) or the second (10 s) reaches a daemon.
Dialed(c) ==
  /\ cli[c].at \in {"dial", "redial"}
  /\ Reachable
  /\ cli' = Moved(c, "connected", address)
  /\ CliOnly

\* New: nobody answered the first dial; a daemon is started, then 1 s of sleep.
DialTimeout(c) ==
  /\ cli[c].at = "dial" /\ ~Reachable
  /\ \E d \in Daemon : Spawned(d)
  /\ cli' = Moved(c, "redial", NoDaemon)
  /\ UNCHANGED <<platform, address, commands, kills>>

\* New: nobody answered the second dial either.  Its 10 s, and the second of
\* sleep before them, are taken to be enough for a daemon to come up.
RedialTimeout(c) ==
  /\ cli[c].at = "redial" /\ ~Reachable
  /\ \A d \in Daemon : ~Starting(d)
  /\ cli' = Moved(c, "refused", NoDaemon)
  /\ CliOnly

\* A command other than those of `devbox engine` makes its call.
Call(c) ==
  LET hears == Hears(cli[c].conn)
  IN /\ cli[c].at = "connected" /\ cli[c].op = "use"
     /\ \/ \E d \in hears :
             cli' = Moved(c, "calling", d)
        \/ hears = {} /\ Ended(c, "failed")
     /\ CliOnly

\* The handler returns, or the connection breaks with its daemon.
Returned(c) ==
  /\ cli[c].at = "calling"
  /\ Ended(c, IF Alive(cli[c].conn) THEN "ok" ELSE "failed")
  /\ CliOnly

\* `devbox engine start` found an engine: it says so and ends.  The second New
\* of start and restart finds the engine that it, or somebody else, started.
Found(c) ==
  /\ cli[c].at = "connected"
  /\ cli[c].op = "start" \/ (cli[c].op = "restart" /\ cli[c].again)
  /\ Ended(c, "ok")
  /\ CliOnly

\* `devbox engine stop` and the first half of restart: the Shutdown call.
\* Restart ignores its error; stop does not.
AskShutdown(c) ==
  LET hears == Hears(cli[c].conn)
  IN /\ cli[c].at = "connected"
     /\ cli[c].op = "stop" \/ (cli[c].op = "restart" /\ ~cli[c].again)
     /\ \/ \E d \in hears :
             /\ daemon' = [daemon EXCEPT ![d].asked = TRUE]
             /\ cli' = Moved(c, "asked", d)
        \/ /\ hears = {}
           /\ IF cli[c].op = "stop"
                THEN Ended(c, "failed")
                ELSE cli' = Moved(c, "asked", cli[c].conn)
           /\ UNCHANGED daemon
     /\ UNCHANGED <<platform, address, raced, commands, kills>>

\* The two seconds of sleep after a Shutdown are taken to be enough for a
\* daemon to close its listener, and to exit when no call is running on it.
Slept(c) ==
  LET d == cli[c].conn
  IN ~Alive(d) \/ (daemon[d].at = "draining" /\ Busy(d))

StopEnds(c) ==
  /\ cli[c].at = "asked" /\ cli[c].op = "stop"
  /\ Slept(c)
  /\ Ended(c, "ok")
  /\ CliOnly

\* Restart starts a daemon whatever became of the old one; start does after a
\* New that failed.  Both then connect with a second New.
StartAgain(c) ==
  /\ ~cli[c].again
  /\ \/ cli[c].at = "asked" /\ cli[c].op = "restart" /\ Slept(c)
     \/ cli[c].at = "refused" /\ cli[c].op \in {"start", "restart"}
  /\ \E d \in Daemon : Spawned(d)
  /\ cli' = [Moved(c, "dial", NoDaemon) EXCEPT ![c].again = TRUE]
  /\ UNCHANGED <<platform, address, commands, kills>>

\* New failed for good.
Refused(c) ==
  /\ cli[c].at = "refused"
  /\ cli[c].op \in {"use", "stop"} \/ cli[c].again
  /\ Ended(c, "failed")
  /\ CliOnly

\* The command is killed (Ctrl-C): its call, if it has one, is cancelled.
KillCli(c) ==
  /\ kills < MaxKills /\ Active(c)
  /\ cli' = [cli EXCEPT ![c] = Idle]
  /\ kills' = kills + 1
  /\ UNCHANGED <<platform, address, daemon, raced, commands>>

-----------------------------------------------------------------------------
DaemonStep(d) ==
  SchemaLocked(d) \/ ClearPath(d) \/ Listen(d) \/ CloseListener(d) \/ Exit(d)

CliStep(c) ==
  \/ Dialed(c) \/ DialTimeout(c) \/ RedialTimeout(c) \/ Call(c) \/ Returned(c)
  \/ Found(c) \/ AskShutdown(c) \/ StopEnds(c) \/ StartAgain(c) \/ Refused(c)

\* A set of a setting is a command too, one that never talks to the engine.
BeginSet(c) ==
  /\ commands < MaxCommands /\ ~Active(c)
  /\ \E k \in Key, v \in Value : LoadConfig(c, k, v)
  /\ commands' = commands + 1
  /\ UNCHANGED <<platform, address, daemon, cli, raced, kills>>

SetStep(c) ==
  (TruncateConfig(c) \/ WriteConfig(c)) /\ UNCHANGED engineVars

KillSet(c) ==
  /\ kills < MaxKills
  /\ KillSetter(c)
  /\ kills' = kills + 1
  /\ UNCHANGED <<platform, address, daemon, cli, raced, commands>>

Next ==
  \/ \E d \in Daemon :
       (DaemonStep(d) \/ Terminate(d) \/ KillDaemon(d)) /\ UNCHANGED configVars
  \/ \E c \in Cli :
       \/ (CliStep(c) \/ KillCli(c)) /\ UNCHANGED configVars
       \/ (\E op \in Op : Begin(c, op)) /\ UNCHANGED configVars
       \/ BeginSet(c) \/ SetStep(c) \/ KillSet(c)

Spec == Init /\ [][Next]_vars

-----------------------------------------------------------------------------
\* A command that has the engine to itself, from its first dial to its end,
\* gets through, whatever the commands, kills and stops before it left behind:
\* a socket file without a daemon, a daemon without a socket file, no daemon.
AloneConnects ==
  \A c \in Cli : cli[c].alone => cli[c].last # "failed"

\* A daemon that serves can be reached, so a later stop can find it, unless a
\* daemon was started while another was alive, and that costs a daemon its
\* address on Unix only.
Reached ==
  \A d \in Daemon :
    Serving(d) => address = d \/ (platform = "unix" /\ raced)

\* A stop, a restart or a SIGTERM of one user never cuts off a call another
\* user's command is waiting for; only a killed daemon does.
CallsKept ==
  \A c \in Cli : cli[c].at = "calling" =>
    LET d == cli[c].conn IN daemon[d].at \in {"serving", "draining"}
                              \/ daemon[d].killed

\* The state is of its type, and a daemon that serves can be reached (see Reached).
BootInv == BootTypeOK /\ Reached
=============================================================================
