-------------------------- MODULE BootstrapProofs --------------------------
(***************************************************************************)
(* BootInv, AloneConnects, CallsKept and SetKept of Bootstrap, for every   *)
(* number of commands, daemons, settings and kills.                        *)
(***************************************************************************)
EXTENDS Bootstrap, TLAPS

\* What a set knows while no two sets overlapped and none began on a torn
\* file: it is alone, and what it loaded is what the users were told.
SetInv ==
  ~entangled =>
    /\ \A b, c \in Cli : Setting(b) /\ Setting(c) => b = c
    /\ file.is = "whole" => file.has = confirmed
    /\ file.is = "absent" => confirmed = Defaults
    /\ \A c \in Cli : setter[c].at = "loaded" => file.is # "torn"
    /\ \A c \in Cli : Setting(c) => setter[c].mem = confirmed

\* Until a daemon is started beside another, at most one is alive.
OneAlive ==
  ~raced => \A d, e \in Daemon : Alive(d) /\ Alive(e) => d = e

-----------------------------------------------------------------------------
(* The settings file.                                                      *)

\* Every step leaves the settings alone or is one of these four.
ConfigStep ==
  \E c \in Cli :
    \/ \E k \in Key, v \in Value : LoadConfig(c, k, v)
    \/ TruncateConfig(c) \/ WriteConfig(c) \/ KillSetter(c)

LEMMA ConfigTypeKept ==
  ASSUME ConfigTypeOK, ConfigStep \/ UNCHANGED configVars
  PROVE  ConfigTypeOK'
<1>1. Defaults \in Settings /\ NoSet.mem \in Settings
  BY DEF Defaults, Settings, NoSet
<1>2. file \in Files /\ confirmed \in Settings /\ entangled \in BOOLEAN
  BY DEF ConfigTypeOK
<1>3. CASE UNCHANGED configVars
  BY <1>3 DEF ConfigTypeOK, configVars
<1>4. ASSUME NEW c \in Cli, NEW k \in Key, NEW v \in Value, LoadConfig(c, k, v)
      PROVE  ConfigTypeOK'
  <2>1. Loaded \in Settings
    BY <1>1, <1>2 DEF Loaded, Files
  <2>2. QED
    BY <1>2, <1>4, <2>1 DEF ConfigTypeOK, LoadConfig
<1>5. ASSUME NEW c \in Cli, TruncateConfig(c) PROVE ConfigTypeOK'
  BY <1>1, <1>2, <1>5 DEF ConfigTypeOK, TruncateConfig, Files
<1>6. ASSUME NEW c \in Cli, WriteConfig(c) PROVE ConfigTypeOK'
  <2> DEFINE s == setter[c]
             new == [s.mem EXCEPT ![s.key] = s.value]
             told == [confirmed EXCEPT ![s.key] = s.value]
  <2>1. s.mem \in Settings /\ s.value \in Value \cup {Default}
    BY DEF ConfigTypeOK
  <2>2. new \in Settings /\ told \in Settings
    BY <1>2, <2>1 DEF Settings
  <2>3. file' = [is |-> "whole", has |-> new] /\ confirmed' = told
    BY <1>6 DEF WriteConfig
  <2>4. file' \in Files /\ confirmed' \in Settings
    BY <2>2, <2>3 DEF Files
  <2>5. setter' = [setter EXCEPT ![c] = NoSet] /\ entangled' = entangled
    BY <1>6 DEF WriteConfig
  <2>6. QED
    BY <1>1, <1>2, <2>4, <2>5 DEF ConfigTypeOK, NoSet
<1>7. ASSUME NEW c \in Cli, KillSetter(c) PROVE ConfigTypeOK'
  BY <1>1, <1>2, <1>7 DEF ConfigTypeOK, KillSetter, NoSet
<1>8. QED
  BY <1>3, <1>4, <1>5, <1>6, <1>7 DEF ConfigStep

LEMMA SetInvKept ==
  ASSUME ConfigTypeOK, SetInv, ConfigStep \/ UNCHANGED configVars
  PROVE  SetInv'
<1> SUFFICES ASSUME ~entangled' PROVE SetInv'
  BY DEF SetInv
<1>1. CASE UNCHANGED configVars
  BY <1>1 DEF SetInv, configVars, Setting
<1>2. ASSUME NEW c \in Cli, NEW k \in Key, NEW v \in Value, LoadConfig(c, k, v)
      PROVE  SetInv'
  <2>1. ~entangled /\ file.is # "torn" /\ \A b \in Cli : ~Setting(b)
    BY <1>2 DEF LoadConfig
  <2>2. Loaded = confirmed
    BY <2>1 DEF SetInv, Loaded, ConfigTypeOK, Files
  <2>3. setter' = [setter EXCEPT ![c] = [at |-> "loaded", key |-> k,
                                         value |-> v, mem |-> confirmed]]
    BY <1>2, <2>2 DEF LoadConfig
  <2>4. \A b \in Cli : b # c => ~Setting(b)'
    BY <2>1, <2>3 DEF Setting, ConfigTypeOK
  <2>5. setter'[c].mem = confirmed
    BY <2>3 DEF ConfigTypeOK
  <2>6. QED
    BY <1>2, <2>1, <2>4, <2>5 DEF SetInv, LoadConfig, Setting
<1>3. ASSUME NEW c \in Cli, TruncateConfig(c) PROVE SetInv'
  <2>1. ~entangled /\ Setting(c) /\ \A b \in Cli : b # c => ~Setting(b)
    BY <1>3 DEF TruncateConfig, Setting, SetInv
  <2>2. /\ setter'[c].at = "saving" /\ setter'[c].mem = setter[c].mem
        /\ \A b \in Cli : b # c => setter'[b] = setter[b]
    BY <1>3 DEF TruncateConfig, ConfigTypeOK
  <2>3. file'.is = "torn" /\ confirmed' = confirmed
    BY <1>3 DEF TruncateConfig
  <2>4. QED
    BY <2>1, <2>2, <2>3 DEF SetInv, Setting
<1>4. ASSUME NEW c \in Cli, WriteConfig(c) PROVE SetInv'
  <2>1. ~entangled /\ Setting(c) /\ \A b \in Cli : b # c => ~Setting(b)
    BY <1>4 DEF WriteConfig, Setting, SetInv
  <2>2. setter[c].mem = confirmed
    BY <2>1 DEF SetInv
  <2>3. file'.is = "whole" /\ file'.has = confirmed'
    BY <1>4, <2>2 DEF WriteConfig
  <2>4. \A b \in Cli : ~Setting(b)'
    BY <1>4, <2>1 DEF WriteConfig, Setting, ConfigTypeOK, NoSet
  <2>5. QED
    BY <2>3, <2>4 DEF SetInv, Setting
<1>5. ASSUME NEW c \in Cli, KillSetter(c) PROVE SetInv'
  <2>1. /\ setter'[c].at = "idle"
        /\ \A b \in Cli : b # c => setter'[b] = setter[b]
    BY <1>5 DEF KillSetter, ConfigTypeOK, NoSet
  <2>2. UNCHANGED <<file, confirmed, entangled>>
    BY <1>5 DEF KillSetter
  <2>3. QED
    BY <2>1, <2>2 DEF SetInv, Setting
<1>6. QED
  BY <1>1, <1>2, <1>3, <1>4, <1>5 DEF ConfigStep

-----------------------------------------------------------------------------
(* The daemons and the commands.                                           *)

\* A connection is one to a daemon, and so is that of a call.
CallersKnown ==
  \A c \in Cli : cli[c].at \in {"connected", "calling"} => cli[c].conn \in Daemon

\* A daemon that is yet to come was not asked to stop.
Unasked ==
  \A d \in Daemon : daemon[d].at = "none" => ~daemon[d].asked

\* A port on Windows leads to a daemon that accepts, or is free.
PortServed ==
  platform = "windows" /\ address # NoDaemon => Serving(address)

\* What a command that has the engine to itself can rely on: no other command
\* is active; a daemon that has yet to bind will find the address free or the
\* engine served by another; no living daemon is to stop but the one this
\* command asked; its daemon serves; and once it has started a daemon there is
\* one to wait for.
AloneOK(c) ==
  cli[c].alone =>
    /\ cli[c].last # "failed"
    /\ Active(c) =>
         /\ \A b \in Cli : Active(b) => b = c
         /\ cli[c].at # "refused"
         /\ \A d \in Daemon :
              daemon[d].at = "cleared" => address = NoDaemon \/ Serving(address)
         /\ \A d \in Daemon :
              Alive(d) /\ (cli[c].at = "asked" => cli[c].conn # d) =>
                ~daemon[d].asked /\ daemon[d].at # "draining"
         /\ cli[c].at \in {"connected", "calling"} => Serving(cli[c].conn)
         /\ cli[c].at = "redial" => Reachable \/ \E d \in Daemon : Starting(d)

AloneInv == Unasked /\ PortServed /\ \A c \in Cli : AloneOK(c)

EngineInv ==
  EngineTypeOK /\ OneAlive /\ Reached /\ CallersKnown /\ CallsKept

\* A step that leaves the daemons and the address alone, and after which a
\* command is in a call only if it was in that call or a daemon took it.
LEMMA CliOnlyKeeps ==
  ASSUME EngineInv, EngineTypeOK', UNCHANGED <<platform, address, daemon, raced>>,
         \A c \in Cli : cli'[c].at \in {"connected", "calling"} =>
           \/ cli[c].at = cli'[c].at /\ cli[c].conn = cli'[c].conn
           \/ cli'[c].conn \in Daemon /\ Serving(cli'[c].conn)
  PROVE  EngineInv'
  BY DEF EngineInv, OneAlive, Reached, CallersKnown, CallsKept, Alive, Serving

\* One command goes on: where it is then, its connection, and the others.
LEMMA MovedFacts ==
  ASSUME cli \in Clis, NEW c \in Cli, NEW at \in CliAt,
         NEW conn \in Daemon \cup {NoDaemon}
  PROVE  /\ Moved(c, at, conn) \in Clis
         /\ Moved(c, at, conn)[c].at = at /\ Moved(c, at, conn)[c].conn = conn
         /\ Moved(c, at, conn)[c].alone = cli[c].alone
         /\ Moved(c, at, conn)[c].last = cli[c].last
         /\ \A b \in Cli : b # c => Moved(c, at, conn)[b] = cli[b]
<1> DEFINE one == [cli EXCEPT ![c].at = at]
           two == [one EXCEPT ![c].conn = conn]
<1>1. /\ one \in Clis /\ one[c].at = at
      /\ one[c].alone = cli[c].alone /\ one[c].last = cli[c].last
      /\ \A b \in Cli : b # c => one[b] = cli[b]
  BY DEF Clis
<1> HIDE DEF one
<1>2. /\ two \in Clis /\ two[c].at = at /\ two[c].conn = conn
      /\ two[c].alone = cli[c].alone /\ two[c].last = cli[c].last
      /\ \A b \in Cli : b # c => two[b] = cli[b]
  BY <1>1 DEF Clis
<1>3. QED
  BY <1>2 DEF one, Moved

\* The same of the step that makes it go on.
LEMMA MoveFacts ==
  ASSUME cli \in Clis, NEW c \in Cli, NEW at \in CliAt,
         NEW conn \in Daemon \cup {NoDaemon}, cli' = Moved(c, at, conn)
  PROVE  /\ cli'[c].at = at /\ cli'[c].conn = conn
         /\ cli'[c].alone = cli[c].alone
         /\ cli'[c].last = cli[c].last
         /\ \A b \in Cli : b # c => cli'[b] = cli[b]
<1> DEFINE moved == Moved(c, at, conn)
<1>1. /\ moved[c].at = at /\ moved[c].conn = conn
      /\ moved[c].alone = cli[c].alone
      /\ moved[c].last = cli[c].last
      /\ \A b \in Cli : b # c => moved[b] = cli[b]
  BY MovedFacts
<1>2. cli' = moved
  OBVIOUS
<1> HIDE DEF moved
<1>3. QED
  BY <1>1, <1>2, Zenon

\* A command ends, or starts a daemon and dials again.
LEMMA NotedFacts ==
  ASSUME cli \in Clis, NEW c \in Cli, NEW at \in CliAt, NEW result \in {"ok", "failed"},
         \/ cli' = [Moved(c, at, NoDaemon) EXCEPT ![c].last = result]
         \/ cli' = [Moved(c, at, NoDaemon) EXCEPT ![c].again = TRUE]
  PROVE  /\ cli' \in Clis /\ cli'[c].at = at /\ cli'[c].alone = cli[c].alone
         /\ cli'[c].last \in {cli[c].last, result}
         /\ \A b \in Cli : b # c => cli'[b] = cli[b]
<1> DEFINE moved == Moved(c, at, NoDaemon)
<1>1. /\ moved \in Clis /\ moved[c].at = at
      /\ moved[c].alone = cli[c].alone /\ moved[c].last = cli[c].last
      /\ \A b \in Cli : b # c => moved[b] = cli[b]
  BY MovedFacts
<1>2. \/ cli' = [moved EXCEPT ![c].last = result]
      \/ cli' = [moved EXCEPT ![c].again = TRUE]
  OBVIOUS
<1> HIDE DEF moved
<1>3. CASE cli' = [moved EXCEPT ![c].last = result]
  BY <1>1, <1>3 DEF Clis
<1>4. CASE cli' = [moved EXCEPT ![c].again = TRUE]
  <2> DEFINE mine == [moved[c] EXCEPT !.again = TRUE]
             One == [at : CliAt, op : Op, again : BOOLEAN,
                     conn : Daemon \cup {NoDaemon}, alone : BOOLEAN,
                     last : {"none", "ok", "failed"}]
  <2>1. moved \in [Cli -> One]
    BY <1>1 DEF Clis
  <2>2. /\ mine \in One /\ mine.at = at
        /\ mine.alone = moved[c].alone /\ mine.last = moved[c].last
    BY <1>1, <2>1
  <2>3. cli' = [moved EXCEPT ![c] = mine]
    BY <1>4
  <2> HIDE DEF mine, One
  <2>4. cli' \in [Cli -> One] /\ cli'[c] = mine /\ \A b \in Cli : b # c => cli'[b] = moved[b]
    BY <2>1, <2>2, <2>3
  <2>5. QED
    BY <1>1, <2>2, <2>4 DEF Clis, One
<1>5. QED
  BY <1>2, <1>3, <1>4

\* A command that begins, or a kill, takes the engine from those that had it.
LEMMA NobodyAloneFacts ==
  ASSUME cli \in Clis
  PROVE  /\ NobodyAlone \in Clis
         /\ \A c \in Cli : NobodyAlone[c].at = cli[c].at
         /\ \A c \in Cli : NobodyAlone[c].conn = cli[c].conn
  BY DEF Clis, NobodyAlone

\* The end of a command keeps the invariant.
LEMMA EndedKeeps ==
  ASSUME EngineInv, NEW c \in Cli, NEW result \in {"ok", "failed"}, Ended(c, result),
         UNCHANGED <<platform, address, daemon, raced, commands, kills>>
  PROVE  EngineInv'
<1>1. /\ cli' \in Clis /\ cli'[c].at = "idle"
      /\ \A b \in Cli : b # c => cli'[b] = cli[b]
  BY NotedFacts DEF EngineInv, EngineTypeOK, Ended, CliAt
<1>2. EngineTypeOK'
  BY <1>1 DEF EngineInv, EngineTypeOK
<1>3. QED
  BY <1>1, <1>2, CliOnlyKeeps

\* A call is heard by a daemon that serves.
LEMMA HearsServing ==
  ASSUME EngineInv, NEW c \in Cli, cli[c].at = "connected",
         NEW d \in Hears(cli[c].conn)
  PROVE  d \in Daemon /\ Serving(d)
  BY DEF EngineInv, EngineTypeOK, CallersKnown, Hears, Reachable

\* A daemon is started: it is alive, and it was not.
LEMMA SpawnedKeeps ==
  ASSUME EngineInv, NEW c \in Cli, NEW d \in Daemon, Spawned(d),
         UNCHANGED <<platform, address, commands, kills>>,
         \/ cli' = Moved(c, "redial", NoDaemon)
         \/ cli' = [Moved(c, "dial", NoDaemon) EXCEPT ![c].again = TRUE]
  PROVE  EngineInv'
<1>1. /\ daemon[d].at = "none" /\ daemon'[d].at = "booting"
      /\ daemon'[d].killed = daemon[d].killed
      /\ \A e \in Daemon : e # d => daemon'[e] = daemon[e]
      /\ daemon' \in Daemons
  BY DEF EngineInv, EngineTypeOK, Spawned, Daemons, DaemonAt
<1>2. raced' = (raced \/ \E e \in Daemon : Alive(e))
  BY DEF Spawned
<1>3. /\ cli' \in Clis /\ cli'[c].at \in {"redial", "dial"}
      /\ \A b \in Cli : b # c => cli'[b] = cli[b]
  <2>1. CASE cli' = Moved(c, "redial", NoDaemon)
    BY <2>1, MovedFacts DEF EngineInv, EngineTypeOK, CliAt
  <2>2. CASE cli' = [Moved(c, "dial", NoDaemon) EXCEPT ![c].again = TRUE]
    BY <2>2, NotedFacts DEF EngineInv, EngineTypeOK, CliAt
  <2>3. QED
    BY <2>1, <2>2
<1>4. raced' \in BOOLEAN
  BY <1>2 DEF EngineInv, EngineTypeOK
<1>5. EngineTypeOK'
  BY <1>1, <1>3, <1>4 DEF EngineInv, EngineTypeOK
<1>6. OneAlive'
  BY <1>1, <1>2 DEF OneAlive, Alive
<1>7. Reached'
  BY <1>1, <1>2 DEF Reached, Serving, EngineInv
<1>8. CallersKnown' /\ CallsKept'
  BY <1>1, <1>3 DEF EngineInv, CallersKnown, CallsKept
<1>9. QED
  BY <1>5, <1>6, <1>7, <1>8 DEF EngineInv

\* The address left by a living daemon that closes its listener or ends, for
\* the others.
LEMMA UnlinkedKeeps ==
  ASSUME EngineInv, NEW d \in Daemon, Alive(d)
  PROVE  /\ Unlinked(d) \in Daemon \cup {NoDaemon}
         /\ \A e \in Daemon : e # d /\ Serving(e) =>
              Unlinked(d) = e \/ (platform = "unix" /\ raced)
  BY DEF EngineInv, EngineTypeOK, OneAlive, Reached, Unlinked, Alive, Serving

\* No step of a daemon breaks the invariant.
LEMMA DaemonStepKeeps ==
  ASSUME EngineInv, NEW d \in Daemon,
         DaemonStep(d) \/ Terminate(d) \/ KillDaemon(d)
  PROVE  EngineInv'
<1> USE BootAssumption
<1>1. CASE SchemaLocked(d)
  <2>1. /\ daemon'[d].at = "gone" /\ daemon[d].at = "booting"
        /\ \A e \in Daemon : e # d => daemon'[e] = daemon[e]
    BY <1>1 DEF EngineInv, EngineTypeOK, Daemons, Clis, SchemaLocked
  <2>2. EngineTypeOK'
    BY <1>1 DEF EngineInv, EngineTypeOK, Daemons, Clis, SchemaLocked, DaemonAt
  <2>3. OneAlive' /\ Reached' /\ CallersKnown' /\ CallsKept'
    BY <1>1, <2>1 DEF EngineInv, OneAlive, Reached, CallersKnown, CallsKept, Alive,
       Serving, SchemaLocked
  <2>4. QED
    BY <2>2, <2>3 DEF EngineInv
<1>2. CASE ClearPath(d)
  <2>1. /\ daemon'[d].at = "cleared" /\ daemon[d].at = "booting"
        /\ \A e \in Daemon : e # d => daemon'[e] = daemon[e]
    BY <1>2 DEF EngineInv, EngineTypeOK, Daemons, Clis, ClearPath
  <2>2. EngineTypeOK'
    BY <1>2 DEF EngineInv, EngineTypeOK, Daemons, Clis, ClearPath, DaemonAt
  <2>3. OneAlive' /\ CallersKnown' /\ CallsKept'
    BY <1>2, <2>1 DEF EngineInv, OneAlive, CallersKnown, CallsKept, Alive, ClearPath
  <2>4. Reached'
    BY <1>2, <2>1 DEF EngineInv, EngineTypeOK, Daemons, Clis, OneAlive, Reached, Alive, Serving, ClearPath
  <2>5. QED
    BY <2>2, <2>3, <2>4 DEF EngineInv
<1>3. CASE Listen(d)
  <2>1. /\ daemon'[d].at \in {"serving", "gone"} /\ daemon[d].at = "cleared"
        /\ daemon'[d].killed = daemon[d].killed
        /\ daemon'[d].at = "serving" => address = NoDaemon /\ address' = d
        /\ daemon'[d].at = "gone" => address' = address
        /\ \A e \in Daemon : e # d => daemon'[e] = daemon[e]
        /\ UNCHANGED <<platform, cli, raced, commands, kills>>
    BY <1>3 DEF EngineInv, EngineTypeOK, Daemons, Clis, Listen
  <2>2. EngineTypeOK'
    BY <1>3 DEF EngineInv, EngineTypeOK, Daemons, Clis, Listen, DaemonAt
  <2>3. OneAlive' /\ CallersKnown' /\ CallsKept'
    BY <2>1 DEF EngineInv, OneAlive, CallersKnown, CallsKept, Alive
  <2>4. Reached'
    BY <2>1 DEF EngineInv, Reached, Serving
  <2>5. QED
    BY <2>2, <2>3, <2>4 DEF EngineInv
<1>4. CASE CloseListener(d)
  <2>1. /\ daemon'[d].at = "draining" /\ daemon[d].at = "serving"
        /\ address' = Unlinked(d)
        /\ \A e \in Daemon : e # d => daemon'[e] = daemon[e]
        /\ UNCHANGED <<platform, cli, raced, commands, kills>>
    BY <1>4 DEF EngineInv, EngineTypeOK, Daemons, Clis, CloseListener, Serving
  <2>2. /\ Unlinked(d) \in Daemon \cup {NoDaemon}
        /\ \A e \in Daemon : e # d /\ Serving(e) =>
              Unlinked(d) = e \/ (platform = "unix" /\ raced)
    BY <2>1, UnlinkedKeeps DEF Alive
  <2>3. EngineTypeOK'
    BY <1>4, <2>1, <2>2 DEF EngineInv, EngineTypeOK, Daemons, Clis, CloseListener, DaemonAt
  <2>4. OneAlive' /\ CallersKnown' /\ CallsKept'
    BY <2>1 DEF EngineInv, OneAlive, CallersKnown, CallsKept, Alive
  <2>5. Reached'
    BY <2>1, <2>2 DEF Reached, Serving
  <2>6. QED
    BY <2>3, <2>4, <2>5 DEF EngineInv
<1>5. CASE Exit(d)
  <2>1. /\ daemon'[d].at = "gone" /\ daemon[d].at = "draining" /\ ~Busy(d)
        /\ address' = Unlinked(d)
        /\ \A e \in Daemon : e # d => daemon'[e] = daemon[e]
        /\ UNCHANGED <<platform, cli, raced, commands, kills>>
    BY <1>5 DEF EngineInv, EngineTypeOK, Daemons, Clis, Exit
  <2>2. /\ Unlinked(d) \in Daemon \cup {NoDaemon}
        /\ \A e \in Daemon : e # d /\ Serving(e) =>
              Unlinked(d) = e \/ (platform = "unix" /\ raced)
    BY <2>1, UnlinkedKeeps DEF Alive
  <2>3. EngineTypeOK'
    BY <1>5, <2>1, <2>2 DEF EngineInv, EngineTypeOK, Daemons, Clis, Exit, DaemonAt
  <2>4. OneAlive'
    BY <2>1 DEF EngineInv, OneAlive, Alive
  <2>5. CallersKnown' /\ CallsKept'
    BY <2>1 DEF EngineInv, CallersKnown, CallsKept, Busy
  <2>6. Reached'
    BY <2>1, <2>2 DEF Reached, Serving
  <2>7. QED
    BY <2>3, <2>4, <2>5, <2>6 DEF EngineInv
<1>6. CASE Terminate(d)
  <2>1. /\ \A e \in Daemon : daemon'[e].at = daemon[e].at /\ daemon'[e].killed = daemon[e].killed
        /\ \A c \in Cli : cli'[c].at = cli[c].at /\ cli'[c].conn = cli[c].conn
        /\ UNCHANGED <<platform, address, raced>>
    BY <1>6, NobodyAloneFacts DEF EngineInv, EngineTypeOK, Daemons, Terminate
  <2>2. EngineTypeOK'
    <3>1. daemon' \in Daemons
      BY <1>6 DEF EngineInv, EngineTypeOK, Daemons, Terminate
    <3>2. cli' \in Clis
      BY <1>6, NobodyAloneFacts DEF EngineInv, EngineTypeOK, Terminate
    <3>3. kills' \in 0..MaxKills
      BY <1>6 DEF EngineInv, EngineTypeOK, Terminate
    <3>4. QED
      BY <1>6, <3>1, <3>2, <3>3 DEF EngineInv, EngineTypeOK, Terminate
  <2>3. QED
    BY <2>1, <2>2 DEF EngineInv, OneAlive, CallersKnown, CallsKept, Reached, Alive, Serving
<1>7. CASE KillDaemon(d)
  <2>1. /\ daemon'[d].at = "gone" /\ daemon'[d].killed /\ Alive(d)
        /\ \A e \in Daemon : e # d => daemon'[e] = daemon[e]
        /\ \A c \in Cli : cli'[c].at = cli[c].at /\ cli'[c].conn = cli[c].conn
        /\ UNCHANGED <<platform, raced>>
        /\ address' = IF platform = "windows" THEN Unlinked(d) ELSE address
    BY <1>7, NobodyAloneFacts DEF EngineInv, EngineTypeOK, Daemons, KillDaemon, Alive
  <2>2. address' \in Daemon \cup {NoDaemon}
    BY <2>1, UnlinkedKeeps DEF EngineInv, EngineTypeOK, Daemons, Clis
  <2>3. EngineTypeOK'
    <3>1. daemon' \in Daemons
      BY <1>7 DEF EngineInv, EngineTypeOK, Daemons, KillDaemon, DaemonAt
    <3>2. cli' \in Clis
      BY <1>7, NobodyAloneFacts DEF EngineInv, EngineTypeOK, KillDaemon
    <3>3. kills' \in 0..MaxKills
      BY <1>7 DEF EngineInv, EngineTypeOK, KillDaemon
    <3>4. QED
      BY <1>7, <2>2, <3>1, <3>2, <3>3 DEF EngineInv, EngineTypeOK, KillDaemon
  <2>4. OneAlive' /\ CallersKnown' /\ CallsKept'
    BY <2>1 DEF EngineInv, OneAlive, CallersKnown, CallsKept, Alive
  <2>5. Reached'
    BY <2>1, UnlinkedKeeps DEF EngineInv, Reached, Serving
  <2>6. QED
    BY <2>3, <2>4, <2>5 DEF EngineInv
<1>8. QED
  BY <1>1, <1>2, <1>3, <1>4, <1>5, <1>6, <1>7 DEF DaemonStep

\* No step of a command breaks the invariant.
LEMMA CliStepKeeps ==
  ASSUME EngineInv, NEW c \in Cli, CliStep(c) \/ KillCli(c)
  PROVE  EngineInv'
<1> USE BootAssumption
<1> USE DEF CliOnly
<1>1. CASE Dialed(c)
  <2>1. address \in Daemon /\ Serving(address)
    BY <1>1 DEF EngineInv, EngineTypeOK, Dialed, Reachable
  <2>2. /\ cli' \in Clis /\ cli'[c].conn = address
        /\ \A b \in Cli : b # c => cli'[b] = cli[b]
    BY <1>1, <2>1, MovedFacts DEF EngineInv, EngineTypeOK, Dialed, CliAt
  <2>3. EngineTypeOK'
    BY <1>1, <2>2 DEF EngineInv, EngineTypeOK, Dialed
  <2>4. QED
    BY <1>1, <2>1, <2>2, <2>3, CliOnlyKeeps DEF Dialed
<1>2. CASE DialTimeout(c)
  <2>1. PICK d \in Daemon : Spawned(d)
    BY <1>2 DEF DialTimeout
  <2>2. /\ UNCHANGED <<platform, address, commands, kills>>
        /\ cli' = Moved(c, "redial", NoDaemon)
    BY <1>2 DEF DialTimeout
  <2>3. QED
    BY <2>1, <2>2, SpawnedKeeps
<1>3. CASE RedialTimeout(c)
  <2>1. /\ cli' \in Clis /\ cli'[c].at = "refused"
        /\ \A b \in Cli : b # c => cli'[b] = cli[b]
    BY <1>3, MovedFacts DEF EngineInv, EngineTypeOK, RedialTimeout, CliAt
  <2>2. EngineTypeOK'
    BY <1>3, <2>1 DEF EngineInv, EngineTypeOK, RedialTimeout
  <2>3. QED
    BY <1>3, <2>1, <2>2, CliOnlyKeeps DEF RedialTimeout
<1>4. CASE Call(c)
  <2>1. CASE Ended(c, "failed")
    BY <1>4, <2>1, EndedKeeps DEF Call
  <2>2. ASSUME NEW d \in Hears(cli[c].conn),
               cli' = Moved(c, "calling", d)
        PROVE  EngineInv'
    <3>1. d \in Daemon /\ Serving(d)
      BY <1>4, <2>2, HearsServing DEF Call
    <3>2. /\ cli' \in Clis /\ cli'[c].conn = d
          /\ \A b \in Cli : b # c => cli'[b] = cli[b]
      BY <2>2, <3>1, MovedFacts DEF EngineInv, EngineTypeOK, CliAt
    <3>3. EngineTypeOK'
      BY <1>4, <3>2 DEF EngineInv, EngineTypeOK, Call
    <3>4. QED
      BY <1>4, <3>1, <3>2, <3>3, CliOnlyKeeps DEF Call
  <2>3. QED
    BY <1>4, <2>1, <2>2 DEF Call
<1>5. CASE Returned(c)
  BY <1>5, EndedKeeps DEF Returned
<1>6. CASE Found(c)
  BY <1>6, EndedKeeps DEF Found
<1>7. CASE AskShutdown(c)
  <2>1. CASE Ended(c, "failed") /\ UNCHANGED daemon
    BY <1>7, <2>1, EndedKeeps DEF AskShutdown
  <2>2. CASE cli' = Moved(c, "asked", cli[c].conn) /\ UNCHANGED daemon
    <3> cli[c].conn \in Daemon \cup {NoDaemon}
      BY DEF EngineInv, EngineTypeOK, Clis
    <3>1. /\ cli' \in Clis /\ cli'[c].at = "asked"
          /\ \A b \in Cli : b # c => cli'[b] = cli[b]
      BY <2>2, MovedFacts DEF EngineInv, EngineTypeOK, CliAt
    <3>2. EngineTypeOK'
      BY <1>7, <2>2, <3>1 DEF EngineInv, EngineTypeOK, AskShutdown
    <3>3. QED
      BY <1>7, <2>2, <3>1, <3>2, CliOnlyKeeps DEF AskShutdown
  <2>3. ASSUME NEW d \in Hears(cli[c].conn),
               daemon' = [daemon EXCEPT ![d].asked = TRUE],
               cli' = Moved(c, "asked", d)
        PROVE  EngineInv'
    <3>1. d \in Daemon
      BY <1>7, <2>3, HearsServing DEF AskShutdown
    <3>2. /\ cli' \in Clis /\ cli'[c].at = "asked"
          /\ \A b \in Cli : b # c => cli'[b] = cli[b]
      BY <2>3, <3>1, MovedFacts DEF EngineInv, EngineTypeOK, CliAt
    <3>3. /\ daemon' \in Daemons
          /\ \A e \in Daemon : daemon'[e].at = daemon[e].at
                               /\ daemon'[e].killed = daemon[e].killed
      BY <2>3, <3>1 DEF EngineInv, EngineTypeOK, Daemons
    <3>4. UNCHANGED <<platform, address, raced, commands, kills>>
      BY <1>7 DEF AskShutdown
    <3>5. EngineTypeOK'
      BY <3>2, <3>3, <3>4 DEF EngineInv, EngineTypeOK
    <3>6. QED
      BY <3>2, <3>3, <3>4, <3>5
         DEF EngineInv, OneAlive, CallersKnown, CallsKept, Reached, Alive, Serving
  <2>4. QED
    BY <1>7, <2>1, <2>2, <2>3 DEF AskShutdown
<1>8. CASE StopEnds(c)
  BY <1>8, EndedKeeps DEF StopEnds
<1>9. CASE StartAgain(c)
  <2>1. PICK d \in Daemon : Spawned(d)
    BY <1>9 DEF StartAgain
  <2>2. /\ UNCHANGED <<platform, address, commands, kills>>
        /\ cli' = [Moved(c, "dial", NoDaemon) EXCEPT ![c].again = TRUE]
    BY <1>9 DEF StartAgain
  <2>3. QED
    BY <2>1, <2>2, SpawnedKeeps
<1>10. CASE Refused(c)
  BY <1>10, EndedKeeps DEF Refused
<1>11. CASE KillCli(c)
  <2>1. EngineTypeOK'
    BY <1>11 DEF EngineInv, EngineTypeOK, Daemons, Clis, KillCli, Idle, CliAt, Op
  <2>2. \A b \in Cli : cli'[b].at \in {"connected", "calling"} =>
          cli[b].at = cli'[b].at /\ cli[b].conn = cli'[b].conn
    BY <1>11 DEF EngineInv, EngineTypeOK, Daemons, Clis, KillCli, Idle
  <2>3. QED
    BY <1>11, <2>1, <2>2, CliOnlyKeeps DEF KillCli
<1>12. QED
  BY <1>1, <1>2, <1>3, <1>4, <1>5, <1>6, <1>7, <1>8, <1>9, <1>10, <1>11 DEF CliStep

\* Nor does the beginning of a command, or a set.
LEMMA BeginKeeps ==
  ASSUME EngineInv, NEW c \in Cli, NEW op \in Op, Begin(c, op)
  PROVE  EngineInv'
<1> DEFINE alone == Settled /\ \A b \in Cli : ~Active(b)
           mine == [Idle EXCEPT !.at = "dial", !.op = op, !.alone = alone]
           One == [at : CliAt, op : Op, again : BOOLEAN,
                   conn : Daemon \cup {NoDaemon}, alone : BOOLEAN,
                   last : {"none", "ok", "failed"}]
<1>1. cli' = [NobodyAlone EXCEPT ![c] = mine] /\ commands < MaxCommands
      /\ commands' = commands + 1
      /\ UNCHANGED <<platform, address, daemon, raced, kills>>
  BY DEF Begin
<1>2. alone \in BOOLEAN
  OBVIOUS
<1> HIDE DEF alone
<1>3. mine \in One /\ mine.at = "dial"
  BY <1>2 DEF Idle, CliAt, Op
<1> HIDE DEF mine
<1>4. NobodyAlone \in [Cli -> One]
  BY NobodyAloneFacts DEF EngineInv, EngineTypeOK, Clis
<1> HIDE DEF One
<1>5. /\ cli' \in [Cli -> One] /\ cli'[c] = mine
      /\ \A b \in Cli : b # c => cli'[b] = NobodyAlone[b]
  BY <1>1, <1>3, <1>4
<1>6. cli' \in Clis
  BY <1>5 DEF Clis, One
<1>7. \A b \in Cli : b # c => cli'[b].at = cli[b].at /\ cli'[b].conn = cli[b].conn
  BY <1>5, NobodyAloneFacts DEF EngineInv, EngineTypeOK
<1>8. commands' \in 0..MaxCommands
  BY <1>1, BootAssumption DEF EngineInv, EngineTypeOK
<1>9. EngineTypeOK'
  BY <1>1, <1>6, <1>8 DEF EngineInv, EngineTypeOK
<1>10. QED
  BY <1>1, <1>3, <1>5, <1>7, <1>9, CliOnlyKeeps

\* What the engine's invariant says is about the engine's variables.
LEMMA EngineUnchanged ==
  ASSUME EngineInv, UNCHANGED <<platform, address, daemon, cli, raced>>,
         commands' \in 0..MaxCommands, kills' \in 0..MaxKills
  PROVE  EngineInv'
<1>1. EngineTypeOK'
  BY DEF EngineInv, EngineTypeOK
<1>2. QED
  BY <1>1, CliOnlyKeeps

-----------------------------------------------------------------------------
(* The command that has the engine to itself.                              *)

\* A step that leaves the commands alone.
LEMMA AloneDaemonStep ==
  ASSUME EngineInv, AloneInv, NEW d \in Daemon, DaemonStep(d)
  PROVE  AloneInv'
<1>1. /\ UNCHANGED <<cli, platform>> /\ daemon[d].at # "none" /\ daemon'[d].at # "none"
      /\ daemon'[d].asked = daemon[d].asked
      /\ \A e \in Daemon : e # d => daemon'[e] = daemon[e]
  BY DEF EngineInv, EngineTypeOK, Daemons, DaemonStep, SchemaLocked, ClearPath,
         Listen, CloseListener, Exit, Serving
<1>2. Unasked'
  BY <1>1 DEF AloneInv, Unasked
<1>3. address \in Daemon \cup {NoDaemon} /\ NoDaemon \notin Daemon
  BY BootAssumption DEF EngineInv, EngineTypeOK
<1>4. \/ /\ daemon[d].at = "booting" /\ daemon'[d].at = "gone" /\ address' = address
         /\ \E e \in Daemon \ {d} : daemon[e].at = "booting"
      \/ /\ daemon[d].at = "booting" /\ daemon'[d].at = "cleared"
         /\ address' = IF platform = "unix" THEN NoDaemon ELSE address
      \/ /\ daemon[d].at = "cleared" /\ daemon'[d].at = "serving"
         /\ address = NoDaemon /\ address' = d
      \/ /\ daemon[d].at = "cleared" /\ daemon'[d].at = "gone"
         /\ address # NoDaemon /\ address' = address
      \/ /\ daemon[d].at = "serving" /\ daemon'[d].at = "draining"
         /\ daemon[d].asked /\ address' = Unlinked(d)
      \/ /\ daemon[d].at = "draining" /\ daemon'[d].at = "gone"
         /\ address' = Unlinked(d)
  BY DEF EngineInv, EngineTypeOK, Daemons, DaemonStep, SchemaLocked, ClearPath,
         Listen, CloseListener, Exit, Serving
<1>5. PortServed'
  BY <1>1, <1>3, <1>4 DEF AloneInv, PortServed, Serving, Unlinked
<1>6. ASSUME NEW c \in Cli PROVE AloneOK(c)'
  <2> SUFFICES ASSUME cli[c].alone, Active(c) PROVE AloneOK(c)'
    BY <1>1, <1>6 DEF AloneInv, AloneOK, Active
  <2>1. AloneOK(c)
    BY DEF AloneInv
  <2>2. \A e \in Daemon : daemon'[e].at = "cleared" =>
          address' = NoDaemon \/ Serving(address)'
    BY <1>1, <1>3, <1>4, <2>1
       DEF AloneOK, AloneInv, PortServed, Serving, Unlinked, EngineInv, EngineTypeOK
  <2>3. \A e \in Daemon : Alive(e)' /\ (cli[c].at = "asked" => cli[c].conn # e) =>
          ~daemon'[e].asked /\ daemon'[e].at # "draining"
    BY <1>1, <1>4, <2>1 DEF AloneOK, Alive
  <2>4. cli[c].at \in {"connected", "calling"} => Serving(cli[c].conn)'
    <3>1. cli[c].at \in {"connected", "calling"} => cli[c].conn \in Daemon
      BY DEF EngineInv, CallersKnown
    <3>2. QED
      BY <1>1, <1>4, <2>1, <3>1 DEF AloneOK, Alive, Serving
  <2>5. cli[c].at = "redial" => Reachable' \/ \E e \in Daemon : Starting(e)'
    BY <1>1, <1>3, <1>4, <2>1 DEF AloneOK, Alive, Reachable, Starting, Serving
  <2>6. QED
    BY <1>1, <2>1, <2>2, <2>3, <2>4, <2>5 DEF AloneOK, Active
<1>7. QED
  BY <1>2, <1>5, <1>6 DEF AloneInv

\* A step of a command that has the engine to itself.
LEMMA AloneCliStep ==
  ASSUME EngineInv, AloneInv, NEW c \in Cli, CliStep(c), cli[c].alone
  PROVE  AloneOK(c)' /\ cli'[c].alone
<1> USE DEF CliOnly
<1>1. /\ AloneOK(c) /\ Unasked /\ cli \in Clis /\ daemon \in Daemons
      /\ address \in Daemon \cup {NoDaemon}
  BY DEF AloneInv, EngineInv, EngineTypeOK
<1>2. Active(c)
  BY DEF CliStep, Active, Dialed, DialTimeout, RedialTimeout, Call, Returned, Found,
         AskShutdown, StopEnds, StartAgain, Refused
<1>3. \A b \in Cli : b # c => cli[b].at = "idle"
  BY <1>1, <1>2 DEF AloneOK, Active
<1>4. cli[c].at \in {"connected", "calling"} => cli[c].conn \in Daemon /\ Serving(cli[c].conn)
  BY <1>1, <1>2 DEF AloneOK, EngineInv, CallersKnown
\* It ends well.
<1>5. ASSUME Ended(c, "ok") PROVE AloneOK(c)' /\ cli'[c].alone
  <2>1. cli'[c].at = "idle" /\ cli'[c].alone = cli[c].alone
        /\ cli'[c].last \in {cli[c].last, "ok"}
    BY <1>1, <1>5, NotedFacts DEF Ended, CliAt
  <2>2. QED
    BY <1>1, <2>1 DEF AloneOK, Active
\* It starts a daemon.
<1>6. ASSUME NEW d \in Daemon, Spawned(d), UNCHANGED <<platform, address>>,
             \A e \in Daemon : Alive(e) => ~daemon[e].asked /\ daemon[e].at # "draining",
             cli'[c].at \in {"dial", "redial"}, cli'[c].alone = cli[c].alone,
             cli'[c].last \in {cli[c].last, "ok"},
             \A b \in Cli : b # c => cli'[b] = cli[b]
      PROVE  AloneOK(c)' /\ cli'[c].alone
  <2>1. /\ daemon[d].at = "none" /\ daemon'[d].at = "booting" /\ ~daemon'[d].asked
        /\ \A e \in Daemon : e # d => daemon'[e] = daemon[e]
    BY <1>1, <1>6 DEF Spawned, Daemons, Unasked
  <2>2. \A e \in Daemon : daemon'[e].at = "cleared" =>
          address' = NoDaemon \/ Serving(address)'
    BY <1>1, <1>2, <1>6, <2>1 DEF AloneOK, Serving
  <2>3. \A e \in Daemon : Alive(e)' => ~daemon'[e].asked /\ daemon'[e].at # "draining"
    BY <1>6, <2>1 DEF Alive
  <2>4. \E e \in Daemon : Starting(e)'
    BY <2>1 DEF Starting
  <2>5. QED
    BY <1>1, <1>3, <1>6, <2>2, <2>3, <2>4 DEF AloneOK, Active
\* It moves on, and the daemons stay as they are.
<1>7. ASSUME NEW at \in CliAt \ {"idle", "refused", "redial"},
             NEW conn \in Daemon, cli' = Moved(c, at, conn),
             UNCHANGED <<address, daemon>>, cli[c].at # "asked", Serving(conn)
      PROVE  AloneOK(c)' /\ cli'[c].alone
  <2>1. /\ cli'[c].at = at /\ cli'[c].conn = conn /\ cli'[c].alone = cli[c].alone
        /\ cli'[c].last = cli[c].last /\ \A b \in Cli : b # c => cli'[b] = cli[b]
    BY <1>1, <1>7, MoveFacts
  <2>2. QED
    BY <1>1, <1>2, <1>3, <1>7, <2>1 DEF AloneOK, Active, Alive, Serving, CliAt
<1>8. CASE Dialed(c)
  <2>1. address \in Daemon /\ Serving(address)
    BY <1>1, <1>8 DEF Dialed, Reachable
  <2>2. QED
    BY <1>7, <1>8, <2>1 DEF Dialed, CliAt
<1>9. CASE DialTimeout(c)
  <2>1. PICK d \in Daemon : Spawned(d)
    BY <1>9 DEF DialTimeout
  <2>2. cli' = Moved(c, "redial", NoDaemon) /\ cli[c].at = "dial"
        /\ UNCHANGED <<platform, address>>
    BY <1>9 DEF DialTimeout
  <2>3. /\ cli'[c].at = "redial" /\ cli'[c].alone = cli[c].alone
        /\ cli'[c].last = cli[c].last /\ \A b \in Cli : b # c => cli'[b] = cli[b]
    BY <1>1, <2>2, MoveFacts DEF CliAt
  <2>4. \A e \in Daemon : Alive(e) => ~daemon[e].asked /\ daemon[e].at # "draining"
    BY <1>1, <1>2, <2>2 DEF AloneOK
  <2>5. QED
    BY <1>6, <2>1, <2>2, <2>3, <2>4
<1>10. ~RedialTimeout(c) /\ ~Refused(c)
  BY <1>1, <1>2 DEF AloneOK, RedialTimeout, Refused
<1>11. cli[c].at \in {"connected", "calling"} => Hears(cli[c].conn) = {cli[c].conn}
  BY <1>4 DEF Hears
<1>12. CASE Call(c)
  BY <1>4, <1>7, <1>11, <1>12 DEF Call, CliAt
<1>13. CASE Returned(c) \/ Found(c) \/ StopEnds(c)
  <2>1. Returned(c) => Alive(cli[c].conn)
    BY <1>4 DEF Returned, Alive, Serving
  <2>2. Ended(c, "ok")
    BY <1>13, <2>1 DEF Returned, Found, StopEnds
  <2>3. QED
    BY <1>5, <2>2
<1>14. CASE AskShutdown(c)
  <2> DEFINE d == cli[c].conn
  <2>1. /\ d \in Daemon /\ cli[c].at = "connected" /\ cli' = Moved(c, "asked", d)
        /\ daemon' = [daemon EXCEPT ![d].asked = TRUE] /\ UNCHANGED address
    BY <1>4, <1>11, <1>14 DEF AskShutdown
  <2>2. /\ cli'[c].at = "asked" /\ cli'[c].conn = d /\ cli'[c].alone = cli[c].alone
        /\ cli'[c].last = cli[c].last /\ \A b \in Cli : b # c => cli'[b] = cli[b]
    BY <1>1, <2>1, MoveFacts DEF CliAt
  <2>3. /\ \A e \in Daemon : daemon'[e].at = daemon[e].at
        /\ \A e \in Daemon : e # d => daemon'[e] = daemon[e]
    BY <1>1, <2>1 DEF Daemons
  <2>4. \A e \in Daemon : daemon'[e].at = "cleared" =>
          address' = NoDaemon \/ Serving(address)'
    <3>1. \A e \in Daemon : daemon[e].at = "cleared" =>
            address = NoDaemon \/ Serving(address)
      BY <1>1, <1>2 DEF AloneOK
    <3>2. address \in Daemon \/ address = NoDaemon
      BY <1>1
    <3>3. QED
      BY <2>1, <2>3, <3>1, <3>2 DEF Serving
  <2>5. \A e \in Daemon : Alive(e)' /\ e # d =>
          ~daemon'[e].asked /\ daemon'[e].at # "draining"
    BY <1>1, <1>2, <2>1, <2>3 DEF AloneOK, Alive
  <2>6. QED
    BY <1>1, <1>3, <2>2, <2>4, <2>5 DEF AloneOK, Active
<1>15. CASE StartAgain(c)
  <2>1. PICK d \in Daemon : Spawned(d)
    BY <1>15 DEF StartAgain
  <2>2. /\ cli' = [Moved(c, "dial", NoDaemon) EXCEPT ![c].again = TRUE]
        /\ UNCHANGED <<platform, address>>
    BY <1>15 DEF StartAgain
  <2>3. /\ cli'[c].at = "dial" /\ cli'[c].alone = cli[c].alone
        /\ cli'[c].last \in {cli[c].last, "ok"}
        /\ \A b \in Cli : b # c => cli'[b] = cli[b]
    BY <1>1, <2>2, NotedFacts DEF CliAt
  <2>4. cli[c].at = "asked" /\ Slept(c)
    BY <1>1, <1>2, <1>15 DEF AloneOK, StartAgain
  <2>5. ~Alive(cli[c].conn)
    BY <1>3, <2>4 DEF Slept, Busy
  <2>6. \A e \in Daemon : Alive(e) => ~daemon[e].asked /\ daemon[e].at # "draining"
    BY <1>1, <1>2, <2>5 DEF AloneOK
  <2>7. QED
    BY <1>6, <2>1, <2>2, <2>3, <2>6
<1>16. QED
  BY <1>8, <1>9, <1>10, <1>12, <1>13, <1>14, <1>15 DEF CliStep

\* A command that has not, does not come to have it before it ends.
LEMMA NotAloneStays ==
  ASSUME EngineInv, NEW c \in Cli, CliStep(c), ~cli[c].alone
  PROVE  ~cli'[c].alone
<1> USE DEF CliOnly
<1>1. cli \in Clis
  BY DEF EngineInv, EngineTypeOK
<1>2. ASSUME NEW at, NEW conn, cli' = Moved(c, at, conn) PROVE ~cli'[c].alone
  BY <1>1, <1>2 DEF Moved, Clis
<1>3. ASSUME NEW result, Ended(c, result) PROVE ~cli'[c].alone
  BY <1>1, <1>3 DEF Ended, Moved, Clis
<1>4. CASE StartAgain(c)
  BY <1>1, <1>4 DEF StartAgain, Moved, Clis
<1>5. CASE Dialed(c) \/ DialTimeout(c) \/ RedialTimeout(c)
  BY <1>2, <1>5 DEF Dialed, DialTimeout, RedialTimeout
<1>6. CASE Call(c) \/ AskShutdown(c)
  BY <1>2, <1>3, <1>6 DEF Call, AskShutdown
<1>7. CASE Returned(c) \/ Found(c) \/ StopEnds(c) \/ Refused(c)
  BY <1>3, <1>7 DEF Returned, Found, StopEnds, Refused
<1>8. QED
  BY <1>4, <1>5, <1>6, <1>7 DEF CliStep

\* What a step of one command changes of the rest.
LEMMA CliStepChanges ==
  ASSUME EngineInv, AloneInv, NEW c \in Cli, CliStep(c) \/ KillCli(c)
  PROVE  /\ Active(c) /\ UNCHANGED <<platform, address>>
         /\ \A b \in Cli : b # c => cli'[b] = cli[b]
         /\ \A d \in Daemon : Serving(d) => Serving(d)'
         /\ \A d \in Daemon : daemon'[d].at = "none" => daemon'[d] = daemon[d]
<1> USE DEF CliOnly
<1>1. cli \in Clis /\ daemon \in Daemons /\ address \in Daemon \cup {NoDaemon}
  BY DEF EngineInv, EngineTypeOK
<1>2. Active(c)
  BY DEF CliStep, KillCli, Active, Dialed, DialTimeout, RedialTimeout, Call,
         Returned, Found, AskShutdown, StopEnds, StartAgain, Refused
<1>3. UNCHANGED <<platform, address>>
  BY DEF CliStep, KillCli, Dialed, DialTimeout, RedialTimeout, Call,
         Returned, Found, AskShutdown, StopEnds, StartAgain, Refused
<1>4. \A b \in Cli : b # c => cli'[b] = cli[b]
  <2>1. ASSUME NEW at, NEW conn, cli' = Moved(c, at, conn)
        PROVE  \A b \in Cli : b # c => cli'[b] = cli[b]
    BY <1>1, <2>1 DEF Moved, Clis
  <2>2. ASSUME NEW result, Ended(c, result)
        PROVE  \A b \in Cli : b # c => cli'[b] = cli[b]
    BY <1>1, <2>2 DEF Ended, Moved, Clis
  <2>3. CASE StartAgain(c)
    BY <1>1, <2>3 DEF StartAgain, Moved, Clis
  <2>4. CASE KillCli(c)
    BY <1>1, <2>4 DEF KillCli, Clis
  <2>5. CASE Dialed(c) \/ DialTimeout(c) \/ RedialTimeout(c)
    BY <2>1, <2>5 DEF Dialed, DialTimeout, RedialTimeout
  <2>6. CASE Call(c) \/ AskShutdown(c)
    BY <2>1, <2>2, <2>6 DEF Call, AskShutdown
  <2>7. CASE Returned(c) \/ Found(c) \/ StopEnds(c) \/ Refused(c)
    BY <2>2, <2>7 DEF Returned, Found, StopEnds, Refused
  <2>8. QED
    BY <2>3, <2>4, <2>5, <2>6, <2>7 DEF CliStep
<1>5. /\ \A d \in Daemon : Serving(d) => Serving(d)'
      /\ \A d \in Daemon : daemon'[d].at = "none" => daemon'[d] = daemon[d]
  <2>1. CASE UNCHANGED daemon
    BY <2>1 DEF Serving
  <2>2. ASSUME NEW e \in Daemon, Spawned(e)
        PROVE  /\ \A d \in Daemon : Serving(d) => Serving(d)'
               /\ \A d \in Daemon : daemon'[d].at = "none" => daemon'[d] = daemon[d]
    BY <1>1, <2>2 DEF Spawned, Serving, Daemons
  <2>3. ASSUME NEW e \in Hears(cli[c].conn), cli[c].at = "connected",
               daemon' = [daemon EXCEPT ![e].asked = TRUE]
        PROVE  /\ \A d \in Daemon : Serving(d) => Serving(d)'
               /\ \A d \in Daemon : daemon'[d].at = "none" => daemon'[d] = daemon[d]
    <3>1. e \in Daemon /\ Serving(e)
      BY <2>3, HearsServing
    <3>2. QED
      BY <1>1, <2>3, <3>1 DEF Serving, Daemons
  <2>4. CASE AskShutdown(c)
    BY <2>1, <2>3, <2>4 DEF AskShutdown
  <2>5. CASE DialTimeout(c) \/ StartAgain(c)
    BY <2>2, <2>5 DEF DialTimeout, StartAgain
  <2>6. QED
    BY <2>1, <2>4, <2>5
       DEF CliStep, KillCli, Dialed, RedialTimeout, Call, Returned, Found, StopEnds, Refused
<1>6. QED
  BY <1>2, <1>3, <1>4, <1>5

\* No step of a command breaks what a command alone relies on.
LEMMA AloneCliKeeps ==
  ASSUME EngineInv, AloneInv, NEW c \in Cli, CliStep(c) \/ KillCli(c)
  PROVE  AloneInv'
<1>1. /\ Active(c) /\ UNCHANGED <<platform, address>>
      /\ \A b \in Cli : b # c => cli'[b] = cli[b]
      /\ \A d \in Daemon : Serving(d) => Serving(d)'
      /\ \A d \in Daemon : daemon'[d].at = "none" => daemon'[d] = daemon[d]
  BY CliStepChanges
<1>2. Unasked'
  <2> SUFFICES ASSUME NEW d \in Daemon, daemon'[d].at = "none"
               PROVE  ~daemon'[d].asked
    BY DEF Unasked
  <2>1. daemon'[d] = daemon[d]
    BY <1>1
  <2>2. daemon[d].at = "none" => ~daemon[d].asked
    BY DEF AloneInv, Unasked
  <2>3. QED
    BY <2>1, <2>2
<1>3. PortServed'
  <2> SUFFICES ASSUME platform = "windows", address # NoDaemon
               PROVE  Serving(address)'
    BY <1>1 DEF PortServed
  <2>1. address \in Daemon /\ Serving(address)
    BY DEF AloneInv, PortServed, EngineInv, EngineTypeOK
  <2>2. address' = address /\ daemon'[address].at = "serving"
    BY <1>1, <2>1 DEF Serving
  <2>3. QED
    BY <2>2 DEF Serving
<1>4. ASSUME NEW b \in Cli, b # c PROVE AloneOK(b)'
  <2>1. AloneOK(b) /\ cli'[b] = cli[b]
    BY <1>1, <1>4 DEF AloneInv
  <2>2. cli[b].alone => ~Active(b) /\ cli[b].last # "failed"
    BY <1>1, <1>4, <2>1 DEF AloneOK
  <2>3. QED
    BY <2>1, <2>2 DEF AloneOK, Active
<1>5. AloneOK(c)'
  <2>1. CASE KillCli(c)
    <3>1. cli'[c] = Idle
      BY <2>1 DEF KillCli, EngineInv, EngineTypeOK, Clis
    <3>2. QED
      BY <3>1 DEF AloneOK, Active, Idle
  <2>2. CASE CliStep(c) /\ cli[c].alone
    BY <2>2, AloneCliStep
  <2>3. CASE CliStep(c) /\ ~cli[c].alone
    BY <2>3, NotAloneStays DEF AloneOK
  <2>4. QED
    BY <2>1, <2>2, <2>3
<1>6. QED
  BY <1>2, <1>3, <1>4, <1>5 DEF AloneInv

\* A kill or a SIGTERM takes the engine from those that had it.
LEMMA AloneKillKeeps ==
  ASSUME EngineInv, AloneInv, NEW d \in Daemon, Terminate(d) \/ KillDaemon(d)
  PROVE  AloneInv'
<1>1. /\ cli' = NobodyAlone /\ platform' = platform /\ daemon \in Daemons
      /\ address \in Daemon \cup {NoDaemon} /\ NoDaemon \notin Daemon /\ Alive(d)
  BY BootAssumption DEF EngineInv, EngineTypeOK, Terminate, KillDaemon, Alive, Serving
<1>2. \A c \in Cli : ~cli'[c].alone
  BY <1>1 DEF NobodyAlone, EngineInv, EngineTypeOK, Clis
<1>3. \A e \in Daemon : e # d => daemon'[e] = daemon[e]
  BY <1>1 DEF Terminate, KillDaemon, Daemons
<1>4. daemon'[d].at # "none"
  BY <1>1 DEF Terminate, KillDaemon, Daemons, Alive
<1>5. Unasked'
  BY <1>3, <1>4 DEF AloneInv, Unasked
<1>6. PortServed'
  <2>1. CASE Terminate(d)
    BY <1>1, <2>1 DEF AloneInv, PortServed, Terminate, Serving, Daemons
  <2>2. CASE KillDaemon(d)
    BY <1>1, <1>3, <2>2 DEF AloneInv, PortServed, KillDaemon, Unlinked, Serving
  <2>3. QED
    BY <2>1, <2>2
<1>7. QED
  BY <1>2, <1>5, <1>6 DEF AloneInv, AloneOK

\* A command that begins alone finds what it relies on.
LEMMA AloneBeginKeeps ==
  ASSUME EngineInv, AloneInv, NEW c \in Cli, NEW op \in Op, Begin(c, op)
  PROVE  AloneInv'
<1> DEFINE alone == Settled /\ \A b \in Cli : ~Active(b)
           mine == [Idle EXCEPT !.at = "dial", !.op = op, !.alone = alone]
<1>1. UNCHANGED <<platform, address, daemon>> /\ cli \in Clis
  BY DEF Begin, EngineInv, EngineTypeOK
<1>2. cli' = [NobodyAlone EXCEPT ![c] = mine]
  BY DEF Begin
<1>3. mine.at = "dial" /\ mine.last = "none" /\ (mine.alone => alone)
  BY DEF Idle
<1> HIDE DEF mine
<1>4. /\ cli'[c] = mine
      /\ \A b \in Cli : b # c => cli'[b] = NobodyAlone[b]
  BY <1>1, <1>2 DEF NobodyAlone
<1>5. \A b \in Cli : ~NobodyAlone[b].alone /\ NobodyAlone[b].at = cli[b].at
  BY <1>1 DEF NobodyAlone, Clis
<1>6. Unasked' /\ PortServed'
  BY <1>1 DEF AloneInv, Unasked, PortServed, Serving
<1>7. \A b \in Cli : b # c => AloneOK(b)'
  BY <1>4, <1>5 DEF AloneOK
<1>8. AloneOK(c)'
  <2> SUFFICES ASSUME alone PROVE AloneOK(c)'
    BY <1>3, <1>4 DEF AloneOK
  <2>1. \A b \in Cli : b # c => ~Active(b)'
    BY <1>4, <1>5 DEF Active
  <2>2. \A d \in Daemon : Alive(d) => Serving(d) /\ ~daemon[d].asked
    BY DEF Settled
  <2>3. QED
    BY <1>1, <1>3, <1>4, <2>1, <2>2 DEF AloneOK, Active, Alive, Serving
<1>9. QED
  BY <1>6, <1>7, <1>8 DEF AloneInv

\* It is about the engine's variables.
LEMMA AloneUnchanged ==
  ASSUME AloneInv, UNCHANGED <<platform, address, daemon, cli>>
  PROVE  AloneInv'
  BY DEF AloneInv, Unasked, PortServed, AloneOK, Active, Alive, Serving, Starting, Reachable

-----------------------------------------------------------------------------
\* The inductive invariant: the file's part, the engine's, and what a command
\* that has the engine to itself relies on.
IInv == ConfigTypeOK /\ SetInv /\ EngineInv /\ AloneInv

LEMMA InitEstablishes == Init => IInv
<1> SUFFICES ASSUME Init PROVE IInv
  OBVIOUS
<1> USE BootAssumption
<1>1. ConfigTypeOK
  BY DEF Init, ConfigInit, ConfigTypeOK, Files, Settings, Defaults, NoSet
<1>2. SetInv
  BY DEF Init, ConfigInit, SetInv, Setting, NoSet
<1>3. EngineTypeOK
  <2>1. daemon \in Daemons
    BY DEF Init, Daemons, Fresh, DaemonAt
  <2>2. cli \in Clis
    BY DEF Init, Clis, Idle, CliAt, Op
  <2>3. commands \in 0..MaxCommands /\ kills \in 0..MaxKills
    BY DEF Init
  <2>4. raced \in BOOLEAN /\ address \in Daemon \cup {NoDaemon}
    BY DEF Init
  <2>5. QED
    BY <2>1, <2>2, <2>3, <2>4 DEF Init, EngineTypeOK
<1>4. OneAlive /\ Reached /\ CallersKnown /\ CallsKept
  BY DEF Init, OneAlive, Reached, CallersKnown, CallsKept, Alive, Serving, Fresh, Idle
<1>5. AloneInv
  BY DEF Init, AloneInv, Unasked, PortServed, AloneOK, Active, Fresh, Idle
<1>6. QED
  BY <1>1, <1>2, <1>3, <1>4, <1>5 DEF IInv, EngineInv

LEMMA NextKeeps == IInv /\ [Next]_vars => IInv'
<1> SUFFICES ASSUME IInv, [Next]_vars PROVE IInv'
  OBVIOUS
<1> USE BootAssumption
<1>1. ASSUME ConfigStep \/ UNCHANGED configVars PROVE ConfigTypeOK' /\ SetInv'
  BY <1>1, ConfigTypeKept, SetInvKept DEF IInv
<1>2. EngineInv /\ AloneInv /\ commands \in 0..MaxCommands /\ kills \in 0..MaxKills
  BY DEF IInv, EngineInv, EngineTypeOK
<1>3. ASSUME NEW d \in Daemon,
             (DaemonStep(d) \/ Terminate(d) \/ KillDaemon(d)) /\ UNCHANGED configVars
      PROVE  IInv'
  BY <1>1, <1>2, <1>3, DaemonStepKeeps, AloneDaemonStep, AloneKillKeeps DEF IInv
<1>4. ASSUME NEW c \in Cli, (CliStep(c) \/ KillCli(c)) /\ UNCHANGED configVars
      PROVE  IInv'
  BY <1>1, <1>2, <1>4, CliStepKeeps, AloneCliKeeps DEF IInv
<1>5. ASSUME NEW c \in Cli, (\E op \in Op : Begin(c, op)) /\ UNCHANGED configVars
      PROVE  IInv'
  BY <1>1, <1>2, <1>5, BeginKeeps, AloneBeginKeeps DEF IInv
<1>6. ASSUME NEW c \in Cli, BeginSet(c) PROVE IInv'
  <2>1. ConfigStep
    BY <1>6 DEF BeginSet, ConfigStep
  <2>2. UNCHANGED <<platform, address, daemon, cli, raced>>
        /\ commands' \in 0..MaxCommands /\ kills' \in 0..MaxKills
    BY <1>2, <1>6 DEF BeginSet
  <2>3. QED
    BY <1>1, <1>2, <2>1, <2>2, EngineUnchanged, AloneUnchanged DEF IInv
<1>7. ASSUME NEW c \in Cli, SetStep(c) PROVE IInv'
  <2>1. ConfigStep
    BY <1>7 DEF SetStep, ConfigStep
  <2>2. UNCHANGED engineVars
    BY <1>7 DEF SetStep
  <2>3. QED
    BY <1>1, <1>2, <2>1, <2>2, EngineUnchanged, AloneUnchanged DEF IInv, engineVars
<1>8. ASSUME NEW c \in Cli, KillSet(c) PROVE IInv'
  <2>1. ConfigStep
    BY <1>8 DEF KillSet, ConfigStep
  <2>2. UNCHANGED <<platform, address, daemon, cli, raced>>
        /\ commands' \in 0..MaxCommands /\ kills' \in 0..MaxKills
    BY <1>2, <1>8 DEF KillSet
  <2>3. QED
    BY <1>1, <1>2, <2>1, <2>2, EngineUnchanged, AloneUnchanged DEF IInv
<1>9. CASE UNCHANGED vars
  BY <1>1, <1>2, <1>9, EngineUnchanged, AloneUnchanged DEF IInv, vars, engineVars
<1>10. QED
  BY <1>3, <1>4, <1>5, <1>6, <1>7, <1>8, <1>9 DEF Next

\* In every reachable state the settings file, the daemons and the commands are
\* as IInv says.
THEOREM BootInvariant == Spec => []IInv
  BY InitEstablishes, NextKeeps, PTL DEF Spec

\* However many daemons and commands there are, a daemon that serves can be
\* reached, except on Unix after one was started beside another (New and
\* main's os.Remove).
THEOREM BootCorrect == Spec => []BootInv
<1>1. IInv => BootInv
  BY DEF IInv, EngineInv, BootInv, BootTypeOK
<1>2. QED
  BY <1>1, BootInvariant, PTL

\* A command that has the engine to itself gets through, whatever the commands,
\* kills and stops before it left behind (New, startEngineDaemon, main).
THEOREM AloneCorrect == Spec => []AloneConnects
<1>1. IInv => AloneConnects
  BY DEF IInv, AloneInv, AloneOK, AloneConnects
<1>2. QED
  BY <1>1, BootInvariant, PTL

\* However many users share the engine, a graceful stop cuts none of their calls
\* off (GracefulStop of daemon.go's Shutdown).
THEOREM CallsCorrect == Spec => []CallsKept
<1>1. IInv => CallsKept
  BY DEF IInv, EngineInv
<1>2. QED
  BY <1>1, BootInvariant, PTL

\* For any settings and any number of commands: while no two sets overlapped
\* and none began on a torn file, the file holds what the users were told
\* (saveConfig and loadConfig).
THEOREM SetCorrect == Spec => []SetKept
<1>1. IInv => SetKept
  BY DEF IInv, SetInv, SetKept
<1>2. QED
  BY <1>1, BootInvariant, PTL
=============================================================================
