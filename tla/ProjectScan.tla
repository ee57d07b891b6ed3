---------------------------- MODULE ProjectScan ----------------------------
(***************************************************************************)
(* `devbox init` and `devbox validate`: the scan of a project's files      *)
(* (shared/scanner/scanner.go), the resolution of port conflicts           *)
(* (resolve.go), the configuration made of it (cli/internal/autodetect),   *)
(* its being written to devbox.yml (cli/cmd/init.go) and what the          *)
(* validator (shared/config/validator.go, cli/cmd/validate.go) says of it. *)
(*                                                                         *)
(* A file is its directory, its kind, and the port the scan's expression   *)
(* finds in it, 0 if none.  Names of directories are numbers, in the order *)
(* in which sort.Strings puts them; two directories may have one name.     *)
(***************************************************************************)
EXTENDS Integers, FiniteSets

CONSTANTS
  PortFound,  \* the ports that files name
  NameOf,     \* the possible names of the directories: functions from Dir
  Seeds,      \* the projects a user begins with: sets of files
  MaxFiles    \* bound on the files a user adds

\* The project's root, a directory in it, and a directory in that one.
Dir == 0..2
Root == 0
Within(d) == d..2

VARIABLES
  name,     \* the name of each directory
  files,    \* the files of the project
  added,    \* how many files the user added
  found,    \* what the scan of `devbox init` found: directory -> result
  yml       \* devbox.yml: absent, or its services

scanVars == <<name, files, added, found, yml>>

\* No result of a scan, no devbox.yml.
Absent == [n \in {} |-> 0]

-----------------------------------------------------------------------------
(* What the scanner looks for.  "tree": the walk finds the file anywhere   *)
(* below the scanned directory, in the directories it means to skip too;   *)
(* "own": only in the scanned directory itself.                            *)

Tree(kind, priority) == [kind |-> kind, reach |-> "tree", priority |-> priority]
Own(kind, priority) == [kind |-> kind, reach |-> "own", priority |-> priority]

scanPackageJSON == {Tree("package.json", 5)}
scanViteConfig == {Own("vite.config", 8)}
scanNextConfig == {Own("next.config", 8)}
scanNodeJS == {Tree("listen.js", 10)} \cup scanPackageJSON
                \cup scanViteConfig \cup scanNextConfig
scanGo == {Tree("listen.go", 10)}
scanRust == {Tree("bind.rs", 10)}
scanRustPattern == {Tree("any.rs", 5)}
scanPython == {Tree("run.py", 10), Tree("flag.py", 7)}
scanJava == {Own("application.properties", 10), Tree("setPort.java", 8)}
scanRuby == {Own("puma.rb", 10), Tree("any.rb", 7)}
scanPHP == {Own("composer.json", 8), Own(".env", 10)}
scanDockerfile == {Own("Dockerfile", 10)}
scanPostgreSQL == {Own("postgresql.conf", 10)}
scanMySQL == {Own("my.cnf", 10)}
scanRedis == {Own("redis.conf", 10)}
scanMongoDB == {Own("mongod.conf", 10)}
\* .env names its port under a key that is known, .env.local under one that is not.
scanEnvFile == {Own(".env", 10), Own(".env.local", 7)}
scanConfigFiles == {Tree("config", 4)}

\* The languages, each with the file that shows it and its detectors; "rust" is
\* tried again with a looser expression when the first finds nothing.
Languages ==
  { [is |-> "node", shown |-> "package.json", by |-> scanNodeJS],
    [is |-> "go", shown |-> "go.mod", by |-> scanGo],
    [is |-> "rust", shown |-> "Cargo.toml", by |-> scanRust],
    [is |-> "python", shown |-> "requirements.txt", by |-> scanPython],
    [is |-> "java", shown |-> "pom.xml", by |-> scanJava],
    [is |-> "ruby", shown |-> "Gemfile", by |-> scanRuby],
    [is |-> "php", shown |-> "composer.json", by |-> scanPHP],
    [is |-> "docker", shown |-> "Dockerfile", by |-> scanDockerfile],
    [is |-> "postgres", shown |-> "postgresql.conf", by |-> scanPostgreSQL],
    [is |-> "mysql", shown |-> "my.cnf", by |-> scanMySQL],
    [is |-> "redis", shown |-> "redis.conf", by |-> scanRedis],
    [is |-> "mongo", shown |-> "mongod.conf", by |-> scanMongoDB] }

\* A language shown by one of the first four overwrites the one before; one of
\* the others stands only where nothing stands yet.
Precedence ==
  <<"python", "rust", "go", "node",
    "java", "ruby", "php", "docker", "postgres", "mysql", "redis", "mongo">>

Commands == {"node", "go", "rust", "python", "java", "ruby", "php"}
Images == {"postgres", "mysql", "redis", "mongo"}

KnownDefault ==
  [l \in Commands \cup Images \cup {"docker"} |->
     CASE l \in {"node", "ruby"} -> 3000
       [] l \in {"python", "php"} -> 8000
       [] l \in {"go", "rust", "docker", "java"} -> 8080
       [] l = "postgres" -> 5432
       [] l = "mysql" -> 3306
       [] l = "redis" -> 6379
       [] l = "mongo" -> 27017]

Compose == "docker-compose.yml"
Kind == {l.shown : l \in Languages} \cup {Compose}
          \cup {t.kind : t \in (UNION {l.by : l \in Languages}) \cup scanEnvFile
                               \cup scanRustPattern \cup scanConfigFiles}

\* The files that show a language and name no port, and those that are looked
\* at only for the port they name.
Silent == {"go.mod", "Cargo.toml", "requirements.txt", "pom.xml", "Gemfile"}
Optional == {"package.json", "composer.json", "Dockerfile", "postgresql.conf",
             "my.cnf", "redis.conf", "mongod.conf", Compose}

\* A compose file is one of its services: that service's name and port.
File == { f \in [dir : Dir, kind : Kind, port : PortFound \cup {0}, service : 0..4] :
            /\ f.kind \in Silent => f.port = 0
            /\ f.port = 0 => f.kind \in Silent \cup Optional
            /\ f.service # 0 <=> f.kind = Compose }

\* Port 0 stands for none, name 0 for nobody's.
ASSUME ScanAssumption ==
  /\ PortFound \subseteq Nat \ {0} /\ IsFiniteSet(PortFound)
  /\ NameOf \subseteq [Dir -> Nat \ {0}]
  /\ Seeds \subseteq SUBSET File
  /\ MaxFiles \in Nat

-----------------------------------------------------------------------------
(* The scan of one directory.                                              *)

hasFile(d, kind) == \E f \in files : f.dir = d /\ f.kind = kind

DetectedPorts(d, detectors) ==
  { [port |-> p[1].port, priority |-> p[2].priority] : p \in
      { q \in files \X detectors :
          /\ q[1].kind = q[2].kind /\ q[1].port # 0
          /\ IF q[2].reach = "tree" THEN q[1].dir \in Within(d)
                                    ELSE q[1].dir = d } }

Shown(d) == {l \in Languages : hasFile(d, l.shown)}

\* The ports that the given languages find in a directory.
LanguagePorts(d, languages) ==
  LET of(l) == IF l.is = "rust" /\ DetectedPorts(d, l.by) = {}
                 THEN DetectedPorts(d, scanRustPattern)
                 ELSE DetectedPorts(d, l.by)
  IN UNION {of(l) : l \in languages}

\* A compose file's services come in the order of a Go map.  The directory's
\* own service is taken in any case, another one if it comes first and nothing
\* has been found so far.  A service without ports is given 8080.
ComposePorts(d, sofar) ==
  LET of(f) == IF f.port = 0 THEN [port |-> 8080, priority |-> 1]
                             ELSE [port |-> f.port, priority |-> 8]
      all == {f \in files : f.dir = d /\ f.kind = Compose}
      own == {of(f) : f \in {g \in all : g.service = name[d]}}
  IN IF sofar # {} \/ all = {} THEN {own} ELSE {own \cup {of(f)} : f \in all}

\* One entry for each port, that of the highest priority.
dedupePorts(ports) ==
  {p \in ports : \A q \in ports : q.port = p.port => q.priority <= p.priority}

\* The first language shown, in that order.
First(shown) ==
  CHOOSE i \in DOMAIN Precedence :
    /\ Precedence[i] \in shown
    /\ \A j \in 1..(i - 1) : Precedence[j] \notin shown

LanguageOf(d) ==
  LET shown == {l.is : l \in Shown(d)}
  IN IF shown = {} THEN "none" ELSE Precedence[First(shown)]

\* The results of scanning a directory: none if nothing shows a project in it,
\* one for each order of its compose file's services otherwise.  The databases
\* come after the compose file.
scanDir(d) ==
  LET early == {l \in Shown(d) : l.is \notin Images}
  IN IF Shown(d) = {} /\ ~hasFile(d, Compose) THEN {}
     ELSE { [dir |-> d, name |-> name[d], language |-> LanguageOf(d),
             command |-> \E l \in Shown(d) : l.is \in Commands,
             build |-> hasFile(d, "Dockerfile"),
             ports |-> dedupePorts(LanguagePorts(d, Shown(d)) \cup compose
                                     \cup DetectedPorts(d, scanEnvFile))]
            : compose \in ComposePorts(d, LanguagePorts(d, early)) }

\* When no directory shows a project: the root's environment files if one is
\* .env, and every file that may be a configuration file.
scanGeneric ==
  LET ports == DetectedPorts(Root, IF hasFile(Root, ".env") THEN scanEnvFile ELSE {})
                 \cup DetectedPorts(Root, scanConfigFiles)
  IN IF ports = {} THEN Absent
     ELSE [d \in {Root} |->
             [dir |-> d, name |-> name[d], language |-> "none",
              command |-> FALSE, build |-> FALSE, ports |-> dedupePorts(ports)]]

\* The directories a scan of the given depth looks into.
findProjectGroups(depth) == 0..depth

\* The possible results of a scan, which visits the directories in their order.
Scan(depth) ==
  LET dirs == {d \in findProjectGroups(depth) : scanDir(d) # {}}
      results == { r \in [dirs -> UNION {scanDir(d) : d \in dirs}] :
                     \A d \in dirs : r[d] \in scanDir(d) }
  IN IF dirs = {} THEN {scanGeneric} ELSE results

-----------------------------------------------------------------------------
(* The resolution of port conflicts.                                       *)

\* The port of the highest priority; of several, the lowest.
bestPort(ports) ==
  LET top == {p \in ports : \A q \in ports : q.priority <= p.priority}
  IN CHOOSE n \in {p.port : p \in top} : \A p \in top : n <= p.port

\* What a result asks for, 0 if nothing.
OriginalPort(r) ==
  IF r.ports # {} THEN bestPort(r.ports)
  ELSE IF r.language = "none" THEN 0 ELSE KnownDefault[r.language]

\* The first result of a name stands for all the results of that name.
findResult(n, results) ==
  results[CHOOSE d \in DOMAIN results :
            /\ results[d].name = n
            /\ \A e \in DOMAIN results : results[e].name = n => d <= e]

\* sort.Strings of the names, a name of several directories several times: the
\* name of the directory that as many are not after.
UpToName(results, d) ==
  {e \in DOMAIN results :
     \/ results[e].name < results[d].name
     \/ results[e].name = results[d].name /\ e <= d}

ServiceNames(results) ==
  [i \in 1..Cardinality(DOMAIN results) |->
     results[CHOOSE d \in DOMAIN results :
               Cardinality(UpToName(results, d)) = i].name]

Unresolved == [used |-> {}, moves |-> Absent, got |-> Absent]

\* f with x as its value at n.
With(f, n, x) == [m \in DOMAIN f \cup {n} |-> IF m = n THEN x ELSE f[m]]

\* The conflict counter of a port that has not been in conflict is 0.
Moves(st, port) == IF port \in DOMAIN st.moves THEN st.moves[port] ELSE 0

\* The next try after a conflict, without a look at what is used.
NextPortBlind(st, port) == Moves(st, port) + 1

\* conflictCounter: the next number for which nobody has that many ports above.
NextPort(st, port) ==
  CHOOSE k \in (Moves(st, port) + 1)..(Moves(st, port) + 1 + Cardinality(st.used)) :
    /\ port + k \notin st.used
    /\ \A j \in (Moves(st, port) + 1)..(k - 1) : port + j \in st.used

\* A service that keeps its port only above every port given so far.
ResolveAbove(st, n, port) ==
  LET k == NextPort(st, port)
  IN IF \A u \in st.used : port > u
       THEN [used |-> st.used \cup {port}, moves |-> st.moves,
             got |-> With(st.got, n, port)]
       ELSE [used |-> st.used \cup {port + k},
             moves |-> With(st.moves, port, k),
             got |-> With(st.got, n, port + k)]

\* One service: it keeps its port, or moves up to a port nobody has so far.
Resolve(st, n, port) ==
  LET k == NextPort(st, port)
  IN IF port \notin st.used
       THEN [used |-> st.used \cup {port}, moves |-> st.moves,
             got |-> With(st.got, n, port)]
       ELSE [used |-> st.used \cup {port + k},
             moves |-> With(st.moves, port, k),
             got |-> With(st.got, n, port + k)]

\* The names of the results, and the ports of those that ask for one.
NamesOf(results) == {results[d].name : d \in DOMAIN results}

AskedPorts(results) ==
  LET asked(n) == OriginalPort(findResult(n, results))
  IN [n \in {m \in NamesOf(results) : asked(m) # 0} |-> asked(n)]

\* The i-th service, if it asks for a port.
ResolveNext(st, n, asked) ==
  IF n \in DOMAIN asked THEN Resolve(st, n, asked[n]) ELSE st

\* What has been resolved after so many of the names.
Resolution(names, total, asked) ==
  LET after[i \in 0..total] ==
        IF i = 0 THEN Unresolved ELSE ResolveNext(after[i - 1], names[i], asked)
  IN after

\* The resolved port of each name that asks for one.
ResolveConflicts(results) ==
  LET total == Cardinality(DOMAIN results)
  IN Resolution(ServiceNames(results), total, AskedPorts(results))[total].got

\* The services of the configuration: `port` is the resolved port; `ports`, when
\* more than one was found, is all of them as they were found.
AutoDetect(results) ==
  LET got == ResolveConflicts(results)
      service(n) ==
        LET r == findResult(n, results)
            all == {p.port : p \in r.ports}
        IN [port |-> IF n \in DOMAIN got THEN got[n] ELSE 0,
            ports |-> IF Cardinality(all) > 1 THEN all ELSE {},
            command |-> r.command,
            image |-> r.language \in Images,
            build |-> r.build]
  IN [n \in NamesOf(results) |-> service(n)]

-----------------------------------------------------------------------------
(* devbox validate.                                                        *)

\* Validator.Validate: a service must say what it runs.
Validate(services) ==
  \A n \in DOMAIN services :
    services[n].command \/ services[n].image \/ services[n].build

\* runValidate's own checks.  A build context is "." and the directory of
\* devbox.yml is the project's root.
NotBoth(s) == s.port = 0 \/ s.ports = {}
BuildsFrom(s) == s.build => hasFile(Root, "Dockerfile")
HostPorts(s) == s.ports \cup (IF s.port = 0 THEN {} ELSE {s.port})

runValidate(services) ==
  /\ Validate(services)
  /\ \A n \in DOMAIN services : NotBoth(services[n]) /\ BuildsFrom(services[n])
  /\ \A m, n \in DOMAIN services :
       m # n => HostPorts(services[m]) \cap HostPorts(services[n]) = {}

-----------------------------------------------------------------------------
ScanTypeOK ==
  /\ name \in NameOf
  /\ files \subseteq File
  /\ added \in 0..MaxFiles
  /\ DOMAIN found \subseteq Dir
  /\ \A d \in DOMAIN found : found[d].dir = d /\ found[d].name \in DOMAIN yml
  /\ \A n \in DOMAIN yml :
       yml[n] \in [port : Nat, ports : SUBSET Nat, command : BOOLEAN,
                   image : BOOLEAN, build : BOOLEAN]

ScanInit ==
  /\ name \in NameOf
  /\ files \in Seeds
  /\ added = 0
  /\ found = Absent
  /\ yml = Absent

\* The user adds a file to the project.
AddFile ==
  /\ added < MaxFiles /\ yml = Absent
  /\ \E f \in File :
       /\ f \notin files
       /\ files' = files \cup {f}
  /\ added' = added + 1
  /\ UNCHANGED <<name, found, yml>>

\* `devbox init`: scan, resolve, write devbox.yml.  Nothing is written where no
\* service is detected, and nothing over a devbox.yml that is there.
runInit ==
  /\ yml = Absent
  /\ \E depth \in 1..2 : \E results \in Scan(depth) :
       /\ results # Absent
       /\ found' = results
       /\ yml' = AutoDetect(results)
  /\ UNCHANGED <<name, files, added>>

ScanNext == AddFile \/ runInit

-----------------------------------------------------------------------------
Written == yml # Absent
Asked(n) == OriginalPort(findResult(n, found))
OwnName(n) == Cardinality({d \in DOMAIN found : found[d].name = n}) = 1

\* Two services of a generated configuration never have the same port, however
\* many wanted it and however far the conflicts pushed them.
PortsDistinct ==
  \A m, n \in DOMAIN yml :
    m # n /\ yml[m].port # 0 => yml[m].port # yml[n].port

\* A service is moved from the port its code listens on only because another
\* service has that port, if no two directories have the same name.
MovedForAnother ==
  (\A n \in DOMAIN yml : OwnName(n)) =>
    \A n \in DOMAIN yml : yml[n].port # Asked(n) =>
      \E m \in DOMAIN yml \ {n} : yml[m].port = Asked(n)

\* `devbox validate` accepts what `devbox init` wrote if each directory showed
\* what it runs and named one port at most, and no directory but the root has
\* a Dockerfile.
SimpleValidates ==
  (\A d \in DOMAIN found :
     /\ found[d].language # "none"
     /\ Cardinality({p.port : p \in found[d].ports}) <= 1
     /\ found[d].build => d = Root)
  => (Written => runValidate(yml))

\* What the core workflow of the test strategy says: init, then a validate that
\* finds the configuration valid.
InitValidates ==
  Written => runValidate(yml)
=============================================================================
