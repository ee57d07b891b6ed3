------------------------------- MODULE Secrets -------------------------------
(***************************************************************************)
(* The encrypted secrets of one project: a key file and a store file under *)
(* .devbox, and the commands that read, change and write them.  Nothing    *)
(* locks the files.  The CLI asks the engine first and does the same work  *)
(* itself if the engine answers with an error or not in time, so a command *)
(* is up to two workers, the first of which may still be running when the  *)
(* second starts.  A Start resolves the secrets of its services one after  *)
(* the other in a memory it loaded once.                                   *)
(***************************************************************************)
EXTENDS Naturals, FiniteSets

CONSTANTS
  Call,          \* commands
  Name,          \* secrets, each with one source in devbox.yml
  Kinds,         \* the commands considered, a subset of AllKinds
  MaxDeaths,     \* bound: workers that are killed or fail to write
  Cloned,        \* may the project be a clone that came with the store alone?
  Missing, Torn, None   \* model values: no file, an unreadable file, no entry

AllKinds == {"set", "delete", "rotate", "get", "start"}

ASSUME SecretsAssumption ==
  Kinds \subseteq AllKinds /\ MaxDeaths \in Nat /\ Cloned \in BOOLEAN /\ IsFiniteSet(Name)

\* A command is carried out by the engine, by the CLI, or by one after the other.
Worker == Call \X {"engine", "local"}

\* Who makes keys and values: the workers, and once the teammate files came from.
Teammate == <<None, "local">>
Maker == Worker \cup {Teammate}

VARIABLES
  key,       \* secrets.key: Missing, Torn, or the worker that made the key
  store,     \* secrets.enc: Missing, Torn, or a map encrypted with a key
  call,      \* per command: kind, secrets meant and what the user was told
  worker,    \* per worker: control point, key, memory
  deaths,
  collided,  \* history: two writes of one file overlapped, or one was cut off
  stale      \* history: a store was written over one its writer had not read

secretsVars == <<key, store, call, worker, deaths, collided, stale>>

Entry == [value : Maker, source : {"manual", "provider"}]
Secret == [Name -> Entry \cup {None}]
NoSecrets == [n \in Name |-> None]
Stored == [by : Maker, map : Secret]

ASSUME ValuesDiffer ==
  /\ Missing # Torn /\ None \notin Call /\ None \notin AllKinds
  /\ None \notin Maker /\ None \notin Entry
  /\ \A file \in {Missing, Torn} : file \notin Maker /\ file \notin Stored /\ file \notin Secret

FromProvider(entry) == entry # None /\ entry.source = "provider"

TeammateStore ==
  [by |-> Teammate, map |-> [n \in Name |-> [value |-> Teammate, source |-> "manual"]]]

NoWorker == [pc |-> "none", key |-> None, mem |-> NoSecrets,
             loaded |-> Missing, todo |-> {}]

SecretsTypeOK ==
  /\ key \in Maker \cup {Missing, Torn}
  /\ store \in Stored \cup {Missing, Torn}
  /\ call \in [Call -> [kind : Kinds \cup {None}, names : SUBSET Name,
                        answer : {"none", "ok", "failed"}]]
  /\ \A w \in Worker :
       /\ worker[w].pc \in {"none", "key", "create", "writekey", "load", "work",
                            "write", "ok", "failed"}
       /\ worker[w].key \in Maker \cup {None}
       /\ worker[w].mem \in Secret
       /\ worker[w].loaded \in Secret \cup {Missing}
       /\ worker[w].todo \in SUBSET Name
       /\ worker[w].pc \in {"load", "work", "write"} => worker[w].key # None
  /\ deaths \in 0..MaxDeaths /\ collided \in BOOLEAN /\ stale \in BOOLEAN

SecretsInit ==
  /\ key = Missing
  /\ store \in {Missing} \cup (IF Cloned THEN {TeammateStore} ELSE {})
  /\ call = [c \in Call |-> [kind |-> None, names |-> {}, answer |-> "none"]]
  /\ worker = [w \in Worker |-> NoWorker]
  /\ deaths = 0 /\ collided = FALSE /\ stale = FALSE

Kind(w) == call[w[1]].kind
Target(w) == CHOOSE n \in call[w[1]].names : TRUE
Running(w) == worker[w].pc \notin {"none", "ok", "failed"}
\* What a set stores is the user's choice, whoever stores it; a provider may
\* give each worker another value.
GivenBy(w) == IF Kind(w) = "set" THEN <<w[1], "local">> ELSE w

Goto(w, pc) == worker' = [worker EXCEPT ![w].pc = pc]

\* A worker that ends forgets everything, but its services keep what a Start gave them.
End(w, pc) ==
  worker' = [worker EXCEPT ![w] =
    [NoWorker EXCEPT !.pc = pc,
                     !.mem = IF Kind(w) = "start" /\ pc = "ok" THEN worker[w].mem ELSE @]]

-----------------------------------------------------------------------------
\* LoadOrCreateKey reads the key, or makes one and writes it over whatever
\* is there by then.

ReadKey(w) ==
  /\ worker[w].pc = "key"
  /\ CASE key = Missing -> Goto(w, "create")
       [] key = Torn -> End(w, "failed")
       [] OTHER -> worker' = [worker EXCEPT ![w].pc = "load", ![w].key = key]
  /\ UNCHANGED <<key, store, call, deaths, collided, stale>>

CreateKey(w) ==
  /\ worker[w].pc = "create"
  /\ key' = Torn
  /\ collided' = (collided \/ key # Missing)
  /\ Goto(w, "writekey")
  /\ UNCHANGED <<store, call, deaths, stale>>

WriteKey(w) ==
  /\ worker[w].pc = "writekey"
  /\ key' = w
  /\ worker' = [worker EXCEPT ![w].pc = "load", ![w].key = w]
  /\ UNCHANGED <<store, call, deaths, collided, stale>>

\* A key opens what was encrypted with it, and nothing that was cut off.
Decrypt(by) == store # Torn /\ store.by = by

LoadStoreUnparsed(w) ==
  /\ worker[w].pc = "load"
  /\ IF store = Missing \/ Decrypt(worker[w].key)
     THEN worker' = [worker EXCEPT ![w].pc = "work",
                       ![w].loaded = IF store = Missing THEN Missing ELSE store.map]
     ELSE End(w, "failed")
  /\ UNCHANGED <<key, store, call, deaths, collided, stale>>

\* Load: no file is an empty store, what the key does not open is an error.
LoadStore(w) ==
  /\ worker[w].pc = "load"
  /\ LET readable == store = Missing \/ Decrypt(worker[w].key)
         onDisk == IF store = Missing THEN NoSecrets ELSE store.map
     IN  IF readable
         THEN worker' = [worker EXCEPT ![w].pc = "work", ![w].mem = onDisk,
                           ![w].loaded = IF store = Missing THEN Missing ELSE onDisk]
         ELSE End(w, "failed")
  /\ UNCHANGED <<key, store, call, deaths, collided, stale>>

-----------------------------------------------------------------------------
\* The work of the commands: they change the memory of their worker and save it.
\* Save is os.WriteFile: the file is emptied, then written.

OnDisk == IF store \in Stored THEN store.map ELSE store

Put(w, n, entry) ==
  /\ store' = Torn
  /\ collided' = (collided \/ \E v \in Worker \ {w} : worker[v].pc = "write")
  /\ stale' = (stale \/ OnDisk # worker[w].loaded)
  /\ worker' = [worker EXCEPT ![w].pc = "write", ![w].mem[n] = entry, ![w].todo = @ \ {n}]

Finish(w, pc) == End(w, pc) /\ UNCHANGED <<store, collided, stale>>

SetSecret(w) ==
  /\ worker[w].pc = "work" /\ Kind(w) = "set"
  /\ Put(w, Target(w), [value |-> GivenBy(w), source |-> "manual"])
  /\ UNCHANGED <<key, call, deaths>>

DeleteSecret(w) ==
  /\ worker[w].pc = "work" /\ Kind(w) = "delete"
  /\ IF worker[w].mem[Target(w)] = None THEN Finish(w, "failed") ELSE Put(w, Target(w), None)
  /\ UNCHANGED <<key, call, deaths>>

GetSecret(w) ==
  /\ worker[w].pc = "work" /\ Kind(w) = "get"
  /\ Finish(w, IF worker[w].mem[Target(w)] = None THEN "failed" ELSE "ok")
  /\ UNCHANGED <<key, call, deaths>>

\* What the source of a secret gives: a value of its own, or an error.
Provide(w) == {[value |-> w, source |-> "provider"], None}

\* Rotate asks the provider again; a manual secret has none.
RotateSecret(w) ==
  /\ worker[w].pc = "work" /\ Kind(w) = "rotate"
  /\ \E got \in Provide(w) :
       IF FromProvider(worker[w].mem[Target(w)]) /\ got # None
       THEN Put(w, Target(w), got)
       ELSE Finish(w, "failed")
  /\ UNCHANGED <<key, call, deaths>>

ResolveSecretAnew(w) ==
  /\ worker[w].pc = "work" /\ Kind(w) = "start"
  /\ \E n \in worker[w].todo, got \in Provide(w) :
       IF got = None THEN Finish(w, "failed") ELSE Put(w, n, got)
  /\ UNCHANGED <<key, call, deaths>>

\* Resolve, for the next secret of a service: what came from its source before
\* is used again, anything else is replaced by what the provider says.
ResolveSecret(w) ==
  /\ worker[w].pc = "work" /\ Kind(w) = "start"
  /\ \E n \in worker[w].todo :
       IF FromProvider(worker[w].mem[n])
       THEN /\ worker' = [worker EXCEPT ![w].todo = @ \ {n}]
            /\ UNCHANGED <<store, collided, stale>>
       ELSE \E got \in Provide(w) :
              IF got = None THEN Finish(w, "failed") ELSE Put(w, n, got)
  /\ UNCHANGED <<key, call, deaths>>

Resolved(w) ==
  /\ worker[w].pc = "work" /\ Kind(w) = "start" /\ worker[w].todo = {}
  /\ Finish(w, "ok")
  /\ UNCHANGED <<key, call, deaths>>

WriteStoreFreshKey(w) ==
  /\ worker[w].pc = "write"
  /\ store' = [by |-> w, map |-> worker[w].mem]
  /\ IF Kind(w) = "start"
     THEN worker' = [worker EXCEPT ![w].pc = "work", ![w].loaded = worker[w].mem]
     ELSE End(w, "ok")
  /\ UNCHANGED <<key, call, deaths, collided, stale>>

\* If another write has ended in between, the longer one's tail may stay.
WriteStore(w) ==
  /\ worker[w].pc = "write"
  /\ store' \in {[by |-> worker[w].key, map |-> worker[w].mem]}
                \cup (IF store = Torn THEN {} ELSE {Torn})
  /\ IF Kind(w) = "start"
     THEN worker' = [worker EXCEPT ![w].pc = "work", ![w].loaded = worker[w].mem]
     ELSE End(w, "ok")
  /\ UNCHANGED <<key, call, deaths, collided, stale>>

\* The process is killed, or the disk is full.
Die(w) ==
  /\ Running(w) /\ deaths < MaxDeaths
  /\ deaths' = deaths + 1
  /\ collided' = (collided \/ worker[w].pc \in {"writekey", "write"})
  /\ End(w, "failed")
  /\ UNCHANGED <<key, store, call, stale>>

-----------------------------------------------------------------------------
\* The user and the CLI.

Launch(w, names) == worker' = [worker EXCEPT ![w].pc = "key", ![w].todo = names]

Ask(c) ==
  /\ call[c].kind = None
  /\ \E kind \in Kinds, names \in (SUBSET Name) \ {{}}, via \in {"engine", "local"} :
       /\ IF kind = "start" THEN via = "engine" ELSE Cardinality(names) = 1
       /\ call' = [call EXCEPT ![c].kind = kind, ![c].names = names]
       /\ Launch(<<c, via>>, IF kind = "start" THEN names ELSE {})
  /\ UNCHANGED <<key, store, deaths, collided, stale>>

\* The engine said no, or nothing for ten seconds: the CLI does it.
FallBack(c) ==
  /\ call[c].kind \notin {None, "start"} /\ call[c].answer = "none"
  /\ worker[<<c, "engine">>].pc # "none" /\ worker[<<c, "local">>].pc = "none"
  /\ Launch(<<c, "local">>, {})
  /\ UNCHANGED <<key, store, call, deaths, collided, stale>>

Answer(c) ==
  /\ call[c].answer = "none"
  /\ LET engine == worker[<<c, "engine">>].pc
         cli == worker[<<c, "local">>].pc
     IN  \/ /\ engine = "ok" /\ cli = "none"
            /\ call' = [call EXCEPT ![c].answer = "ok"]
         \/ /\ engine = "failed" /\ call[c].kind = "start"
            /\ call' = [call EXCEPT ![c].answer = "failed"]
         \/ /\ cli \in {"ok", "failed"}
            /\ call' = [call EXCEPT ![c].answer = cli]
  /\ UNCHANGED <<key, store, worker, deaths, collided, stale>>

Access(w) ==
  \/ ReadKey(w) \/ CreateKey(w) \/ WriteKey(w) \/ LoadStore(w)
  \/ SetSecret(w) \/ DeleteSecret(w) \/ GetSecret(w) \/ RotateSecret(w)
  \/ ResolveSecret(w) \/ Resolved(w) \/ WriteStore(w)

SecretsStep ==
  \/ \E w \in Worker : Access(w) \/ Die(w)
  \/ \E c \in Call : FallBack(c) \/ Answer(c)

SecretsNext == SecretsStep \/ \E c \in Call : Ask(c)

SecretsSpec == SecretsInit /\ [][SecretsNext]_secretsVars

-----------------------------------------------------------------------------
AtRest == \A w \in Worker : ~Running(w)

KeyOpensStore == key # Torn /\ (store = Missing \/ (store \in Stored /\ store.by = key))

\* Whatever commands and fallbacks overlap, the store can be read with the key
\* beside it once they are done, unless two of them wrote the same file at the
\* same time or one was killed while writing (age.go LoadOrCreateKey, store.go
\* Load and Save): no other order of reading and creating makes it unreadable.
StoreReadable ==
  AtRest /\ ~collided /\ key # Missing => KeyOpensStore

\* No other command changes the secrets of this one.
Alone(c) ==
  \A d \in Call \ {c} : call[d].kind # "get" => call[d].names \cap call[c].names = {}

Now(n) == IF store \in Stored THEN store.map[n] ELSE None

Told(c) ==
  \A n \in call[c].names :
    CASE call[c].kind = "set" ->
           Now(n) = [value |-> <<c, "local">>, source |-> "manual"]
      [] call[c].kind = "delete" -> Now(n) = None
      [] call[c].kind = "start" -> Now(n) = worker[<<c, "engine">>].mem[n]
      [] OTHER -> TRUE

\* What a user was told is so when everything is done: a secret reported stored is
\* in the store with its value, one reported removed is not, and what a Start
\* gave to its services is what the store has; unless a worker wrote over what it
\* had not read (store.go Load and Save, resolver.go Resolve, secrets.go).
AnswersHold ==
  AtRest /\ ~collided /\ ~stale =>
    \A c \in Call : call[c].answer = "ok" /\ Alone(c) => Told(c)

\* The same without that condition: an added secret persists until somebody sets
\* or removes it (store.go Save writes the memory of its worker as it is).
SecretsPersist ==
  AtRest /\ ~collided /\ deaths = 0 =>
    \A c \in Call : call[c].kind = "set" /\ call[c].answer = "ok" /\ Alone(c) => Told(c)

\* A provider's value, once stored, is what every later Start uses: two Starts of
\* the same secret give their services the same value, however they overlap with
\* other commands, if nobody sets, deletes or rotates that secret and no worker
\* wrote over what it had not read (resolver.go Resolve).
StartsAgree ==
  ~collided /\ ~stale =>
    \A c, d \in Call :
      call[c].kind = "start" /\ call[d].kind = "start"
      /\ call[c].answer = "ok" /\ call[d].answer = "ok" =>
        \A n \in call[c].names \cap call[d].names :
          \/ worker[<<c, "engine">>].mem[n] = worker[<<d, "engine">>].mem[n]
          \/ \E e \in Call : call[e].kind \in {"set", "delete", "rotate"} /\ n \in call[e].names

\* The state is of its type, and the store can be read with its key when nobody
\* works on it (see StoreReadable).
SecretsInv == SecretsTypeOK /\ StoreReadable
=============================================================================
