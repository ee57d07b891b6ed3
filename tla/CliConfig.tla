----------------------------- MODULE CliConfig -----------------------------
(***************************************************************************)
(* The CLI's own settings file, config.json, as the processes of several   *)
(* `devbox` commands read and write it (cli/internal/client/grpc_client.go *)
(* and cli/cmd/config.go).  Nothing locks the file, a set is a load of the *)
(* whole file followed by a save of the whole file, a save truncates the   *)
(* file before it fills it, and a load that cannot parse what it reads     *)
(* goes on with the defaults.                                              *)
(***************************************************************************)
EXTENDS Naturals, FiniteSets

CONSTANTS
  Cli,      \* the processes of the devbox command
  Key,      \* the settings
  Value,    \* the values a user gives to a setting
  Default   \* the value of a setting nobody has set

ASSUME DefaultAssumption == Default \notin Value

VARIABLES
  file,       \* config.json: is it there, is it whole, and its settings
  setter,     \* per command: where its set is, and the settings it loaded
  confirmed,  \* the value the last successful set of each key reported
  entangled   \* two sets overlapped, or one was killed over the file

configVars == <<file, setter, confirmed, entangled>>

Settings == [Key -> Value \cup {Default}]
Defaults == [k \in Key |-> Default]
Files == [is : {"absent", "torn", "whole"}, has : Settings]
NoSet == [at |-> "idle", key |-> Default, value |-> Default, mem |-> Defaults]

ConfigTypeOK ==
  /\ file \in Files
  /\ setter \in [Cli -> [at : {"idle", "loaded", "saving"}, key : Key \cup {Default},
                         value : Value \cup {Default}, mem : Settings]]
  /\ confirmed \in Settings
  /\ entangled \in BOOLEAN

ConfigInit ==
  /\ file = [is |-> "absent", has |-> Defaults]
  /\ setter = [c \in Cli |-> NoSet]
  /\ confirmed = Defaults
  /\ entangled = FALSE

Setting(c) == setter[c].at # "idle"

\* The load forgets what the file holds: it always begins with the defaults.
LoadedEmpty == Defaults

\* A load of a file that is missing, or that cannot be parsed, is the defaults.
Loaded == IF file.is = "whole" THEN file.has ELSE Defaults

\* `devbox config <key> <value>` begins: the whole file is loaded.
LoadConfig(c, k, v) ==
  /\ ~Setting(c)
  /\ setter' = [setter EXCEPT ![c] =
                  [at |-> "loaded", key |-> k, value |-> v, mem |-> Loaded]]
  /\ entangled' = (entangled \/ file.is = "torn" \/ \E b \in Cli : Setting(b))
  /\ UNCHANGED <<file, confirmed>>

\* os.WriteFile opens with O_TRUNC ...
TruncateConfig(c) ==
  /\ setter[c].at = "loaded"
  /\ file' = [is |-> "torn", has |-> Defaults]
  /\ setter' = [setter EXCEPT ![c].at = "saving"]
  /\ UNCHANGED <<confirmed, entangled>>

\* ... and then writes what was loaded, with the one key changed.
WriteConfig(c) ==
  LET s == setter[c]
      new == [s.mem EXCEPT ![s.key] = s.value]
  IN /\ s.at = "saving"
     /\ file' = [is |-> "whole", has |-> new]
     /\ confirmed' = [confirmed EXCEPT ![s.key] = s.value]
     /\ setter' = [setter EXCEPT ![c] = NoSet]
     /\ UNCHANGED entangled

\* The process of a set is killed: what is loaded is gone, the file stays.
KillSetter(c) ==
  /\ Setting(c)
  /\ setter' = [setter EXCEPT ![c] = NoSet]
  /\ UNCHANGED <<file, confirmed, entangled>>

\* As long as no two sets overlapped and no set began on a file that a killed
\* one left torn, every key of a whole file has the value that the last
\* successful set of it reported: a set changes its own key only.
SetKept ==
  file.is = "whole" /\ ~entangled => file.has = confirmed
=============================================================================
