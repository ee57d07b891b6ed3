---------------------------- MODULE SecretsProofs ----------------------------
(***************************************************************************)
(* The properties of Secrets for every number of commands, secrets and     *)
(* deaths: the key and the store stay a pair, and what users were told and *)
(* services were given is what the store has.                              *)
(***************************************************************************)
EXTENDS Secrets, FiniteSetTheorems, TLAPS

WorkerRec == [pc : {"none", "key", "create", "writekey", "load", "work", "write", "ok", "failed"},
              key : Worker \cup {None}, mem : Secret, loaded : Secret \cup {Missing},
              todo : SUBSET Name]

CallRec == [kind : Kinds \cup {None}, names : SUBSET Name, answer : {"none", "ok", "failed"}]

\* Nobody but the teammate makes a key that is not a worker's.
Typed ==
  /\ key \in Worker \cup {Missing, Torn}
  /\ store \in Stored \cup {Missing, Torn}
  /\ call \in [Call -> CallRec]
  /\ worker \in [Worker -> WorkerRec]
  /\ deaths \in 0..MaxDeaths /\ collided \in BOOLEAN /\ stale \in BOOLEAN

\* A command that was not given has no worker, a change is of one secret, a Start
\* is the engine's, and a success is that of a worker.
CallOK(c) ==
  /\ call[c].kind = None =>
       /\ call[c].names = {} /\ call[c].answer = "none"
       /\ worker[<<c, "engine">>].pc = "none" /\ worker[<<c, "local">>].pc = "none"
  /\ call[c].kind \notin {None, "start"} => \E n \in Name : call[c].names = {n}
  /\ call[c].kind = "start" => worker[<<c, "local">>].pc = "none"
  /\ call[c].answer = "ok" =>
       worker[<<c, "engine">>].pc = "ok" \/ worker[<<c, "local">>].pc = "ok"

HasKey(w) == worker[w].pc \in {"load", "work", "write"}

Plain(loaded) == IF loaded = Missing THEN NoSecrets ELSE loaded

\* A worker at work has in memory what it last read or wrote.
WorkerOK(w) ==
  /\ HasKey(w) => worker[w].key # None
  /\ worker[w].pc = "work" => worker[w].mem = Plain(worker[w].loaded)
  /\ worker[w].todo \subseteq call[w[1]].names
  /\ worker[w].pc = "ok" => worker[w].todo = {}
  /\ Kind(w) = "start" /\ worker[w].pc \in {"key", "create", "writekey", "load"} =>
       worker[w].todo = call[w[1]].names

Writing(w) == worker[w].pc = "write"

\* Only a clone has a store of the teammate's.
MadeHere == store \in Stored => store.by \in Worker \/ (Cloned /\ store = TeammateStore)

\* While writes do not collide, each file is cut short exactly while its one
\* writer writes, all keys held are the one in the file, and it is the one of the
\* store, unless that came from a teammate: then nobody has read it.
FilesOK ==
  /\ key = Torn <=> \E w \in Worker : worker[w].pc = "writekey"
  /\ \A v, w \in Worker : worker[v].pc = "writekey" /\ worker[w].pc = "writekey" => v = w
  /\ \A w \in Worker : HasKey(w) => worker[w].key = key
  /\ store = Torn <=> \E w \in Worker : Writing(w)
  /\ \A v, w \in Worker : Writing(v) /\ Writing(w) => v = w
  /\ store \in Stored => store.by = key \/ store = TeammateStore
  /\ store = TeammateStore => \A w \in Worker : worker[w].pc \notin {"work", "write"}

\* What the store has, or will have when the write under way is done.
Content ==
  CASE store \in Stored -> store.map
    [] store = Missing -> NoSecrets
    [] OTHER -> worker[CHOOSE w \in Worker : Writing(w)].mem

Starting(w) == Kind(w) = "start" /\ worker[w].pc \in {"work", "write", "ok"}

\* A command alone with its secrets finds them as its workers left them.
AloneOK(c) ==
  \A n \in call[c].names, x \in {"engine", "local"} :
    /\ call[c].kind = "set" /\ worker[<<c, x>>].pc \in {"write", "ok"} =>
         Content[n] = [value |-> <<c, "local">>, source |-> "manual"]
    /\ call[c].kind = "delete" /\ worker[<<c, x>>].pc \in {"write", "ok"} => Content[n] = None
    /\ Starting(<<c, x>>) => Content[n] = worker[<<c, x>>].mem[n]

Undisturbed(n) == \A e \in Call : call[e].kind \in {"set", "delete", "rotate"} => n \notin call[e].names

\* A provider's value that a Start has is in the store for good, as long as no
\* other command is about that secret; what the Start is done with is such a value.
StartOK(w) ==
  Starting(w) =>
    \A n \in Name : Undisturbed(n) =>
      /\ FromProvider(worker[w].mem[n]) => Content[n] = worker[w].mem[n]
      /\ n \in call[w[1]].names \ worker[w].todo => FromProvider(worker[w].mem[n])

\* The inductive invariant.
IInv ==
  /\ Typed
  /\ \A c \in Call : CallOK(c)
  /\ \A w \in Worker : WorkerOK(w)
  /\ MadeHere
  /\ ~collided => FilesOK
  /\ ~collided /\ ~stale => \A c \in Call : Alone(c) => AloneOK(c)
  /\ ~collided /\ ~stale => \A w \in Worker : StartOK(w)

-----------------------------------------------------------------------------
(* What a step of one worker does to the basic facts *)

\* A worker that runs belongs to a command, and to the engine if that is a Start.
LEMMA RunningFacts ==
  ASSUME IInv, NEW w \in Worker, worker[w].pc # "none"
  PROVE  Kind(w) # None /\ (Kind(w) = "start" => w[2] = "engine")
<1>1. w[1] \in Call /\ w = <<w[1], w[2]>> /\ w[2] \in {"engine", "local"}
  BY DEF Worker
<1>2. CallOK(w[1])
  BY <1>1 DEF IInv
<1> QED
  BY <1>1, <1>2 DEF CallOK, Kind

\* One worker moves on: the others, and the commands, keep what is known of them.
LEMMA StepFacts ==
  ASSUME IInv, NEW w \in Worker, NEW k \in WorkerRec, worker' = [worker EXCEPT ![w] = k]
  PROVE  /\ worker' \in [Worker -> WorkerRec] /\ worker'[w] = k
         /\ \A v \in Worker \ {w} : worker'[v] = worker[v]
BY DEF IInv, Typed

LEMMA StepCalls ==
  ASSUME IInv, NEW w \in Worker, NEW k \in WorkerRec, worker' = [worker EXCEPT ![w] = k],
         UNCHANGED call, Kind(w) # None, Kind(w) = "start" => w[2] = "engine",
         worker[w].pc # "ok",
         HasKey(w)' => k.key # None,
         k.pc = "work" => k.mem = Plain(k.loaded),
         k.todo \subseteq call[w[1]].names,
         k.pc = "ok" => k.todo = {},
         Kind(w) = "start" /\ k.pc \in {"key", "create", "writekey", "load"} =>
           k.todo = call[w[1]].names
  PROVE  /\ \A c \in Call : CallOK(c)'
         /\ \A v \in Worker : WorkerOK(v)'
<1>1. /\ worker' \in [Worker -> WorkerRec] /\ worker'[w] = k
      /\ \A v \in Worker \ {w} : worker'[v] = worker[v]
  BY StepFacts
<1>2. ASSUME NEW v \in Worker PROVE WorkerOK(v)'
  <2>1. CASE v = w
    BY <1>1, <2>1 DEF WorkerOK, Kind
  <2>2. CASE v # w
    <3>1. WorkerOK(v) /\ worker'[v] = worker[v]
      BY <1>1, <2>2 DEF IInv
    <3> QED
      BY <3>1 DEF WorkerOK, HasKey, Kind
  <2> QED
    BY <2>1, <2>2
<1>3. ASSUME NEW c \in Call PROVE CallOK(c)'
  <2>1. CallOK(c)
    BY DEF IInv
  <2>2. w[1] \in Call /\ w = <<w[1], w[2]>> /\ <<c, "engine">> \in Worker /\ <<c, "local">> \in Worker
    BY DEF Worker
  <2>3. call[c].kind = None => <<c, "engine">> # w /\ <<c, "local">> # w
    BY <2>2 DEF Kind
  <2>4. call[c].kind = "start" => <<c, "local">> # w
    BY <2>2 DEF Kind
  <2>5. \A x \in {"engine", "local"} : worker[<<c, x>>].pc = "ok" => <<c, x>> # w
    OBVIOUS
  <2>6. call[c].answer = "ok" => worker'[<<c, "engine">>].pc = "ok" \/ worker'[<<c, "local">>].pc = "ok"
    BY <1>1, <2>1, <2>2, <2>5 DEF CallOK
  <2> QED
    BY <1>1, <2>1, <2>2, <2>3, <2>4, <2>6 DEF CallOK
<1> QED
  BY <1>2, <1>3

\* A worker that neither cuts nor completes a file leaves the files' facts.
LEMMA QuietFiles ==
  ASSUME IInv, FilesOK, NEW w \in Worker, NEW k \in WorkerRec, worker' = [worker EXCEPT ![w] = k],
         UNCHANGED <<key, store>>,
         worker[w].pc \notin {"writekey", "write"}, k.pc \notin {"writekey", "write"},
         HasKey(w)' => k.key = key,
         k.pc = "work" => worker[w].pc = "work" \/ store # TeammateStore
  PROVE  FilesOK'
<1>1. /\ worker'[w] = k
      /\ \A v \in Worker \ {w} : worker'[v] = worker[v]
  BY StepFacts
<1>2. \A v \in Worker : worker'[v].pc = "writekey" <=> worker[v].pc = "writekey"
  BY <1>1
<1>3. \A v \in Worker : Writing(v)' <=> Writing(v)
  BY <1>1 DEF Writing
<1>4. \A v \in Worker : HasKey(v)' => worker'[v].key = key'
  BY <1>1 DEF FilesOK, HasKey
<1>5. store = TeammateStore => \A v \in Worker : worker'[v].pc \notin {"work", "write"}
  BY <1>1 DEF FilesOK
<1> QED
  BY <1>2, <1>3, <1>4, <1>5 DEF FilesOK

\* The writer there is, if the store is cut short.
LEMMA WriterFacts ==
  ASSUME FilesOK, NEW w \in Worker, Writing(w)
  PROVE  (CHOOSE v \in Worker : Writing(v)) = w
BY DEF FilesOK

LEMMA ContentKept ==
  ASSUME IInv, FilesOK, FilesOK', UNCHANGED store, ValuesDiffer, NEW w \in Worker, ~Writing(w),
         \A v \in Worker \ {w} : worker'[v] = worker[v]
  PROVE  Content' = Content
<1>1. CASE store = Torn
  <2>1. PICK v \in Worker : Writing(v)
    BY <1>1 DEF FilesOK
  <2>2. v # w /\ worker'[v] = worker[v] /\ Writing(v)'
    BY <2>1 DEF Writing
  <2>3. Content = worker[v].mem
    BY <1>1, <2>1, WriterFacts DEF Content, ValuesDiffer
  <2>4. (CHOOSE u \in Worker : Writing(u)') = v
    BY <2>2 DEF FilesOK
  <2>5. Content' = worker'[v].mem
    BY <1>1, <2>4 DEF Content, ValuesDiffer
  <2> QED
    BY <2>2, <2>3, <2>5
<1>2. CASE store # Torn
  BY <1>2 DEF Content, IInv, Typed
<1> QED
  BY <1>1, <1>2

-----------------------------------------------------------------------------
(* What users were told and services were given *)

\* The store means what it meant, and the worker that moves takes along what it
\* has, or what the store has.
LEMMA TellKeeps ==
  ASSUME IInv, ~collided, ~stale, NEW w \in Worker, NEW k \in WorkerRec,
         worker' = [worker EXCEPT ![w] = k], UNCHANGED call, Content' = Content,
         k.pc \in {"write", "ok"} => worker[w].pc = "write" \/ Kind(w) \notin {"set", "delete"},
         Starting(w)' => k.mem = Content \/ (Starting(w) /\ k.mem = worker[w].mem),
         Starting(w)' => \A n \in call[w[1]].names \ k.todo :
           (Starting(w) /\ k.mem = worker[w].mem /\ n \notin worker[w].todo) \/ FromProvider(k.mem[n])
  PROVE  /\ \A c \in Call : Alone(c)' => AloneOK(c)'
         /\ \A v \in Worker : StartOK(v)'
<1>1. /\ worker'[w] = k
      /\ \A v \in Worker \ {w} : worker'[v] = worker[v]
  BY StepFacts
<1>2. ASSUME NEW c \in Call, Alone(c)' PROVE AloneOK(c)'
  <2>1. AloneOK(c)
    BY <1>2 DEF IInv, Alone
  <2>2. ASSUME NEW n \in call[c].names, NEW x \in {"engine", "local"}
        PROVE  /\ call[c].kind = "set" /\ worker'[<<c, x>>].pc \in {"write", "ok"} =>
                    Content[n] = [value |-> <<c, "local">>, source |-> "manual"]
               /\ call[c].kind = "delete" /\ worker'[<<c, x>>].pc \in {"write", "ok"} => Content[n] = None
               /\ Starting(<<c, x>>)' => Content[n] = worker'[<<c, x>>].mem[n]
    <3>1. <<c, x>> \in Worker
      BY DEF Worker
    <3>2. /\ call[c].kind = "set" /\ worker[<<c, x>>].pc \in {"write", "ok"} =>
               Content[n] = [value |-> <<c, "local">>, source |-> "manual"]
          /\ call[c].kind = "delete" /\ worker[<<c, x>>].pc \in {"write", "ok"} => Content[n] = None
          /\ Starting(<<c, x>>) => Content[n] = worker[<<c, x>>].mem[n]
      BY <2>1, <2>2 DEF AloneOK
    <3>3. CASE <<c, x>> = w
      <4>1. Kind(w) = call[c].kind
        BY <3>3 DEF Kind
      <4> QED
        BY <1>1, <3>2, <3>3, <4>1
    <3>4. CASE <<c, x>> # w
      <4>1. worker'[<<c, x>>] = worker[<<c, x>>]
        BY <1>1, <3>1, <3>4
      <4> QED
        BY <3>2, <4>1 DEF Starting, Kind
    <3> QED
      BY <3>3, <3>4
  <2> QED
    BY <2>2 DEF AloneOK
<1>3. ASSUME NEW v \in Worker PROVE StartOK(v)'
  <2>1. StartOK(v)
    BY DEF IInv
  <2>2. CASE v = w
    <3>1. ASSUME Starting(w)', NEW n \in Name, Undisturbed(n)
          PROVE  /\ FromProvider(k.mem[n]) => Content[n] = k.mem[n]
                 /\ n \in call[w[1]].names \ k.todo => FromProvider(k.mem[n])
      BY <2>1, <2>2, <3>1 DEF StartOK
    <3> QED
      BY <1>1, <2>2, <3>1 DEF StartOK, Undisturbed
  <2>3. CASE v # w
    <3>1. worker'[v] = worker[v]
      BY <1>1, <2>3
    <3> QED
      BY <2>1, <3>1 DEF StartOK, Starting, Kind, Undisturbed
  <2> QED
    BY <2>2, <2>3
<1> QED
  BY <1>2, <1>3

\* A step that leaves files and histories alone.
LEMMA QuietStep ==
  ASSUME SecretsAssumption, ValuesDiffer, IInv, NEW w \in Worker, NEW k \in WorkerRec,
         worker' = [worker EXCEPT ![w] = k],
         UNCHANGED <<key, store, call, collided, stale>>, deaths' \in 0..MaxDeaths,
         Kind(w) # None, Kind(w) = "start" => w[2] = "engine",
         worker[w].pc # "ok",
         HasKey(w)' => k.key # None,
         k.pc = "work" => k.mem = Plain(k.loaded),
         k.todo \subseteq call[w[1]].names,
         k.pc = "ok" => k.todo = {},
         Kind(w) = "start" /\ k.pc \in {"key", "create", "writekey", "load"} =>
           k.todo = call[w[1]].names,
         ~collided =>
           /\ worker[w].pc \notin {"writekey", "write"} /\ k.pc \notin {"writekey", "write"}
           /\ HasKey(w)' => k.key = key
           /\ k.pc = "work" => worker[w].pc = "work" \/ store # TeammateStore,
         k.pc = "ok" => Kind(w) \notin {"set", "delete"},
         ~collided /\ ~stale /\ Starting(w)' =>
           k.mem = Content \/ (Starting(w) /\ k.mem = worker[w].mem),
         Starting(w)' => \A n \in call[w[1]].names \ k.todo :
           (Starting(w) /\ k.mem = worker[w].mem /\ n \notin worker[w].todo) \/ FromProvider(k.mem[n])
  PROVE  IInv'
<1>1. /\ \A c \in Call : CallOK(c)'
      /\ \A v \in Worker : WorkerOK(v)'
  BY StepCalls
<1>2. /\ worker' \in [Worker -> WorkerRec] /\ worker'[w] = k
      /\ \A v \in Worker \ {w} : worker'[v] = worker[v]
  BY StepFacts
<1>3. Typed' /\ MadeHere'
  BY <1>2 DEF IInv, Typed, MadeHere
<1>4. ~collided' => FilesOK'
  BY QuietFiles DEF IInv
<1>5. CASE ~collided /\ ~stale
  <2>1. Content' = Content
    BY <1>2, <1>4, <1>5, ContentKept DEF IInv, Writing
  <2>2. k.pc \in {"write", "ok"} => worker[w].pc = "write" \/ Kind(w) \notin {"set", "delete"}
    BY <1>5
  <2>3. /\ \A c \in Call : Alone(c)' => AloneOK(c)'
        /\ \A v \in Worker : StartOK(v)'
    BY <1>5, <2>1, <2>2, TellKeeps
  <2> QED
    BY <1>1, <1>3, <1>4, <2>3 DEF IInv
<1>6. CASE collided \/ stale
  BY <1>1, <1>3, <1>4, <1>6 DEF IInv
<1> QED
  BY <1>5, <1>6

-----------------------------------------------------------------------------
(* The steps that write nothing *)

\* A worker that ends has nothing but what a Start gave.
LEMMA EndFacts ==
  ASSUME Typed, NEW w \in Worker, NEW pc \in {"ok", "failed"}, End(w, pc)
  PROVE  \E k \in WorkerRec :
           /\ worker' = [worker EXCEPT ![w] = k]
           /\ k.pc = pc /\ k.todo = {}
           /\ Kind(w) = "start" /\ pc = "ok" => k.mem = worker[w].mem
<1>1. worker[w] \in WorkerRec /\ worker[w].mem \in Secret
  BY DEF Typed, WorkerRec
<1>2. NoSecrets \in Secret
  BY DEF NoSecrets, Secret
<1>3. CASE Kind(w) = "start" /\ pc = "ok"
  <2> DEFINE k == [NoWorker EXCEPT !.pc = pc, !.mem = worker[w].mem]
  <2>1. k \in WorkerRec /\ k.pc = pc /\ k.todo = {} /\ k.mem = worker[w].mem
    BY <1>1 DEF NoWorker, WorkerRec
  <2>2. worker' = [worker EXCEPT ![w] = k]
    BY <1>3 DEF End
  <2> QED
    BY <2>1, <2>2
<1>4. CASE ~(Kind(w) = "start" /\ pc = "ok")
  <2> DEFINE k == [NoWorker EXCEPT !.pc = pc, !.mem = @]
  <2>1. k \in WorkerRec /\ k.pc = pc /\ k.todo = {}
    BY <1>2 DEF NoWorker, WorkerRec
  <2>2. worker' = [worker EXCEPT ![w] = k]
    BY <1>4 DEF End
  <2> QED
    BY <1>4, <2>1, <2>2
<1> QED
  BY <1>3, <1>4

\* A worker at work ends without another write.
LEMMA EndKeeps ==
  ASSUME SecretsAssumption, ValuesDiffer, IInv, NEW w \in Worker, Running(w),
         worker[w].pc \notin {"writekey", "write"}, NEW pc \in {"ok", "failed"}, End(w, pc),
         UNCHANGED <<key, store, call, collided, stale>>, deaths' \in 0..MaxDeaths,
         pc = "ok" => /\ worker[w].pc = "work" /\ Kind(w) \notin {"set", "delete"}
                      /\ Kind(w) = "start" => worker[w].todo = {}
  PROVE  IInv'
<1>1. PICK k \in WorkerRec :
           /\ worker' = [worker EXCEPT ![w] = k]
           /\ k.pc = pc /\ k.todo = {}
           /\ Kind(w) = "start" /\ pc = "ok" => k.mem = worker[w].mem
  BY EndFacts DEF IInv
<1>2. worker'[w] = k
  BY <1>1, StepFacts
<1>3. ~HasKey(w)' /\ (Starting(w)' => Starting(w) /\ k.mem = worker[w].mem /\ worker[w].todo = {})
  BY <1>1, <1>2 DEF HasKey, Starting, Kind
<1>4. Kind(w) # None /\ (Kind(w) = "start" => w[2] = "engine") /\ worker[w].pc # "ok"
  BY RunningFacts DEF Running
<1>5. k.pc \notin {"key", "create", "writekey", "load", "work", "write"} /\ (k.pc = "ok" => pc = "ok")
  BY <1>1
<1>6. Starting(w)' => \A n \in call[w[1]].names \ k.todo :
           (Starting(w) /\ k.mem = worker[w].mem /\ n \notin worker[w].todo) \/ FromProvider(k.mem[n])
  BY <1>3
<1>7. k.todo \subseteq call[w[1]].names
  BY <1>1
<1>8. Starting(w)' => k.mem = Content \/ (Starting(w) /\ k.mem = worker[w].mem)
  BY <1>3
<1> QED
  BY <1>1, <1>3, <1>4, <1>5, <1>6, <1>7, <1>8, QuietStep

LEMMA ReadKeyKeeps ==
  ASSUME SecretsAssumption, ValuesDiffer, IInv, NEW w \in Worker, ReadKey(w)
  PROVE  IInv'
<1>1. /\ worker[w].pc = "key" /\ worker[w] \in WorkerRec /\ Running(w) /\ WorkerOK(w)
      /\ UNCHANGED <<key, store, call, deaths, collided, stale>> /\ deaths' \in 0..MaxDeaths
      /\ key \in Worker \cup {Missing, Torn} /\ None \notin Worker
  BY DEF ReadKey, IInv, Typed, Running, ValuesDiffer, Maker
<1>2. Kind(w) # None /\ (Kind(w) = "start" => w[2] = "engine")
  BY <1>1, RunningFacts
<1>3. CASE key = Missing
  <2> DEFINE k == [worker[w] EXCEPT !.pc = "create"]
  <2>1. k \in WorkerRec /\ k.pc = "create" /\ k.todo = worker[w].todo
    BY <1>1 DEF WorkerRec
  <2>2. worker' = [worker EXCEPT ![w] = k]
    BY <1>3 DEF ReadKey, Goto
  <2> HIDE DEF k
  <2>3. worker'[w] = k
    BY <2>1, <2>2, StepFacts
  <2>4. ~HasKey(w)' /\ ~Starting(w)'
    BY <2>1, <2>3 DEF HasKey, Starting
  <2> QED
    BY <1>1, <1>2, <2>1, <2>2, <2>4, QuietStep DEF WorkerOK
<1>4. CASE key = Torn
  <2>1. End(w, "failed")
    BY <1>4 DEF ReadKey, ValuesDiffer
  <2> QED
    BY <1>1, <2>1, EndKeeps
<1>5. CASE key \notin {Missing, Torn}
  <2> DEFINE k == [worker[w] EXCEPT !.pc = "load", !.key = key]
  <2>1. k \in WorkerRec /\ k.pc = "load" /\ k.todo = worker[w].todo /\ k.key = key
    BY <1>1, <1>5 DEF WorkerRec
  <2>2. worker' = [worker EXCEPT ![w] = k]
    BY <1>1, <1>5 DEF ReadKey, IInv, Typed
  <2> HIDE DEF k
  <2>3. worker'[w] = k
    BY <2>1, <2>2, StepFacts
  <2>4. ~Starting(w)' /\ k.key # None
    BY <1>1, <1>5, <2>1, <2>3 DEF Starting
  <2> QED
    BY <1>1, <1>2, <2>1, <2>2, <2>4, QuietStep DEF WorkerOK
<1> QED
  BY <1>3, <1>4, <1>5

\* What is loaded is what the store means: it is not cut short then.
LEMMA LoadStoreKeeps ==
  ASSUME SecretsAssumption, ValuesDiffer, IInv, NEW w \in Worker, LoadStore(w)
  PROVE  IInv'
<1>1. /\ worker[w].pc = "load" /\ worker[w] \in WorkerRec /\ Running(w) /\ WorkerOK(w)
      /\ UNCHANGED <<key, store, call, deaths, collided, stale>> /\ deaths' \in 0..MaxDeaths
      /\ store \in Stored \cup {Missing, Torn} /\ None \notin Worker
  BY DEF LoadStore, IInv, Typed, Running, ValuesDiffer, Maker
<1>2. Kind(w) # None /\ (Kind(w) = "start" => w[2] = "engine")
  BY <1>1, RunningFacts
<1>3. CASE ~(store = Missing \/ Decrypt(worker[w].key))
  <2>1. End(w, "failed")
    BY <1>3 DEF LoadStore
  <2> QED
    BY <1>1, <2>1, EndKeeps
<1>4. CASE store = Missing \/ Decrypt(worker[w].key)
  <2> DEFINE onDisk == IF store = Missing THEN NoSecrets ELSE store.map
             loaded == IF store = Missing THEN Missing ELSE onDisk
             k == [worker[w] EXCEPT !.pc = "work", !.mem = onDisk, !.loaded = loaded]
  <2>1. store # Missing => store \in Stored /\ store.by = worker[w].key
    BY <1>1, <1>4 DEF Decrypt
  <2>2. NoSecrets \in Secret
    BY DEF NoSecrets, Secret
  <2>3. onDisk \in Secret /\ loaded \in Secret \cup {Missing} /\ onDisk = Plain(loaded)
    BY <2>1, <2>2 DEF Stored, Plain, ValuesDiffer
  <2>4. onDisk = Content
    BY <2>1 DEF Content, ValuesDiffer
  <2>5. worker' = [worker EXCEPT ![w] = k]
    BY <1>1, <1>4 DEF LoadStore, IInv, Typed
  <2> HIDE DEF onDisk, loaded
  <2>6. /\ k \in WorkerRec /\ k.pc = "work" /\ k.todo = worker[w].todo /\ k.key = worker[w].key
        /\ k.mem = onDisk /\ k.loaded = loaded
    BY <1>1, <2>3 DEF WorkerRec
  <2> HIDE DEF k
  <2>7. worker'[w] = k
    BY <2>5, <2>6, StepFacts
  <2>8. k.key # None /\ k.todo \subseteq call[w[1]].names /\ (~collided => k.key = key)
    BY <1>1, <2>6 DEF WorkerOK, HasKey, IInv, FilesOK
  <2>9. store # TeammateStore
    <3>1. worker[w].key \in Worker
      BY <1>1 DEF WorkerOK, HasKey, WorkerRec
    <3>2. TeammateStore.by = Teammate /\ Teammate \notin Worker
      BY DEF TeammateStore, Teammate, Worker, ValuesDiffer
    <3>3. TeammateStore \in Stored => TeammateStore # Missing
      BY DEF ValuesDiffer
    <3>4. TeammateStore \in Stored
      BY DEF TeammateStore, Stored, Secret, Entry, Maker
    <3> QED
      BY <2>1, <3>1, <3>2, <3>3, <3>4
  <2>10. Starting(w)' => k.todo = call[w[1]].names
    BY <1>1, <2>6, <2>7 DEF Starting, WorkerOK, Kind
  <2> QED
    BY <1>1, <1>2, <2>3, <2>4, <2>5, <2>6, <2>8, <2>9, <2>10, QuietStep
<1> QED
  BY <1>3, <1>4

\* Work that ends without a write: a get, a failure, a Start that has all.
LEMMA FinishKeeps ==
  ASSUME SecretsAssumption, ValuesDiffer, IInv, NEW w \in Worker, worker[w].pc = "work",
         NEW pc \in {"ok", "failed"}, Finish(w, pc), UNCHANGED <<key, call, deaths>>,
         pc = "ok" => /\ Kind(w) \notin {"set", "delete"}
                      /\ Kind(w) = "start" => worker[w].todo = {}
  PROVE  IInv'
<1>1. /\ Running(w) /\ worker[w].pc \notin {"writekey", "write"} /\ deaths' \in 0..MaxDeaths
      /\ End(w, pc) /\ UNCHANGED <<key, store, call, collided, stale>>
  BY DEF Running, Finish, IInv, Typed
<1> QED
  BY <1>1, EndKeeps

\* A provider's value that was loaded is used again.
LEMMA ReuseKeeps ==
  ASSUME SecretsAssumption, ValuesDiffer, IInv, NEW w \in Worker, worker[w].pc = "work",
         Kind(w) = "start", NEW n \in worker[w].todo, FromProvider(worker[w].mem[n]),
         worker' = [worker EXCEPT ![w].todo = @ \ {n}],
         UNCHANGED <<key, store, call, deaths, collided, stale>>
  PROVE  IInv'
<1>1. /\ worker[w] \in WorkerRec /\ WorkerOK(w) /\ Starting(w) /\ deaths' \in 0..MaxDeaths
      /\ ~collided => worker[w].key = key
  BY DEF IInv, Typed, Starting, FilesOK, HasKey
<1>2. Kind(w) # None /\ w[2] = "engine"
  BY RunningFacts
<1> DEFINE k == [worker[w] EXCEPT !.todo = @ \ {n}]
<1>3. /\ k \in WorkerRec /\ k.pc = "work" /\ k.key = worker[w].key
      /\ k.mem = worker[w].mem /\ k.loaded = worker[w].loaded /\ k.todo = worker[w].todo \ {n}
  BY <1>1 DEF WorkerRec
<1>4. worker' = [worker EXCEPT ![w] = k]
  OBVIOUS
<1> HIDE DEF k
<1>5. /\ k.key # None /\ k.todo \subseteq call[w[1]].names /\ k.mem = Plain(k.loaded)
  BY <1>1, <1>3 DEF WorkerOK, HasKey
<1>6. \A m \in call[w[1]].names \ k.todo : m \notin worker[w].todo \/ FromProvider(k.mem[m])
  BY <1>3
<1> QED
  BY <1>1, <1>2, <1>3, <1>4, <1>5, <1>6, QuietStep

\* What dies while it writes has collided, with itself.
LEMMA DieKeeps ==
  ASSUME SecretsAssumption, ValuesDiffer, IInv, NEW w \in Worker, Die(w)
  PROVE  IInv'
<1>1. /\ Running(w) /\ End(w, "failed") /\ UNCHANGED <<key, store, call, stale>>
      /\ collided' = (collided \/ worker[w].pc \in {"writekey", "write"})
  BY DEF Die
<1>2. deaths' \in 0..MaxDeaths
  <2>1. deaths' = deaths + 1 /\ deaths < MaxDeaths
    BY DEF Die
  <2>2. deaths \in 0..MaxDeaths /\ MaxDeaths \in Nat
    BY DEF SecretsAssumption, IInv, Typed
  <2> QED
    BY <2>1, <2>2
<1>3. CASE worker[w].pc \notin {"writekey", "write"}
  <2>1. collided' = collided
    BY <1>1, <1>3 DEF IInv, Typed
  <2> QED
    BY <1>1, <1>2, <1>3, <2>1, EndKeeps
<1>4. CASE worker[w].pc \in {"writekey", "write"}
  <2>1. collided' = TRUE
    BY <1>1, <1>4
  <2>2. PICK k \in WorkerRec :
           /\ worker' = [worker EXCEPT ![w] = k]
           /\ k.pc = "failed" /\ k.todo = {}
    BY <1>1, EndFacts DEF IInv
  <2>3. worker' \in [Worker -> WorkerRec] /\ worker'[w] = k
    BY <2>2, StepFacts
  <2>4. Typed' /\ MadeHere'
    BY <1>1, <1>2, <2>1, <2>3 DEF IInv, Typed, MadeHere
  <2>5. Kind(w) # None /\ (Kind(w) = "start" => w[2] = "engine") /\ worker[w].pc # "ok"
    BY <1>1, RunningFacts DEF Running
  <2>6. ~HasKey(w)' /\ k.pc # "work" /\ k.pc \notin {"key", "create", "writekey", "load"}
        /\ k.todo \subseteq call[w[1]].names
    BY <2>2, <2>3 DEF HasKey
  <2>7. /\ \A c \in Call : CallOK(c)'
        /\ \A v \in Worker : WorkerOK(v)'
    BY <1>1, <2>2, <2>5, <2>6, StepCalls
  <2> QED
    BY <2>1, <2>4, <2>7 DEF IInv
<1> QED
  BY <1>3, <1>4

-----------------------------------------------------------------------------
(* The key is written *)

\* The key file is cut short: there was none, or two workers write it.
LEMMA CreateKeyKeeps ==
  ASSUME SecretsAssumption, ValuesDiffer, IInv, NEW w \in Worker, CreateKey(w)
  PROVE  IInv'
<1>1. /\ worker[w].pc = "create" /\ worker[w] \in WorkerRec /\ WorkerOK(w)
      /\ UNCHANGED <<store, call, deaths, stale>>
      /\ key' = Torn
  BY DEF CreateKey, IInv, Typed
<1>2. collided' = (collided \/ key # Missing)
  BY DEF CreateKey
<1> DEFINE k == [worker[w] EXCEPT !.pc = "writekey"]
<1>3. k \in WorkerRec /\ k.pc = "writekey" /\ k.todo = worker[w].todo
  BY <1>1 DEF WorkerRec
<1>4. worker' = [worker EXCEPT ![w] = k]
  BY DEF CreateKey, Goto
<1> HIDE DEF k
<1>5. /\ worker' \in [Worker -> WorkerRec] /\ worker'[w] = k
      /\ \A v \in Worker \ {w} : worker'[v] = worker[v]
  BY <1>3, <1>4, StepFacts
<1>6. Kind(w) # None /\ (Kind(w) = "start" => w[2] = "engine")
  BY <1>1, RunningFacts
<1>7. ~HasKey(w)' /\ ~Starting(w)'
  BY <1>3, <1>5 DEF HasKey, Starting
<1>8. /\ \A c \in Call : CallOK(c)'
      /\ \A v \in Worker : WorkerOK(v)'
  BY <1>1, <1>3, <1>4, <1>6, <1>7, StepCalls DEF WorkerOK
<1>9. Typed' /\ MadeHere'
  BY <1>1, <1>2, <1>5 DEF IInv, Typed, MadeHere
<1>10. ASSUME ~collided' PROVE ~collided /\ FilesOK'
  <2>1. ~collided /\ key = Missing
    BY <1>2, <1>10 DEF IInv, Typed
  <2>2. FilesOK
    BY <2>1 DEF IInv
  <2>3. \A v \in Worker : ~HasKey(v) /\ ~Writing(v)
    BY <2>1, <2>2 DEF FilesOK, HasKey, Writing, IInv, Typed, WorkerRec, WorkerOK, ValuesDiffer, Maker
  <2>4. \A v \in Worker : worker[v].pc # "writekey"
    BY <2>1, <2>2 DEF FilesOK, ValuesDiffer
  <2>5. \A v \in Worker : worker'[v].pc = "writekey" <=> v = w
    BY <1>3, <1>5, <2>4
  <2>6. \A v \in Worker : ~HasKey(v)' /\ ~Writing(v)'
    BY <1>5, <1>7, <2>3 DEF HasKey, Writing
  <2>7. store # Torn
    BY <2>2, <2>3 DEF FilesOK
  <2>8. store \in Stored => store = TeammateStore
    BY <2>1, <2>2 DEF FilesOK, Stored, ValuesDiffer
  <2>9. store' = store
    BY <1>1
  <2> QED
    BY <1>1, <2>1, <2>5, <2>6, <2>7, <2>8, <2>9 DEF FilesOK, HasKey
<1>11. ASSUME ~collided', ~stale'
       PROVE  /\ \A c \in Call : Alone(c)' => AloneOK(c)'
              /\ \A v \in Worker : StartOK(v)'
  <2>1. ~collided /\ ~stale /\ FilesOK /\ FilesOK'
    BY <1>1, <1>10, <1>11 DEF IInv
  <2>2. Content' = Content
    BY <1>1, <1>5, <2>1, ContentKept DEF Writing
  <2> QED
    BY <1>1, <1>3, <1>4, <1>7, <2>1, <2>2, TellKeeps
<1> QED
  BY <1>8, <1>9, <1>10, <1>11 DEF IInv

\* The key is there: nobody had another.
LEMMA WriteKeyKeeps ==
  ASSUME SecretsAssumption, ValuesDiffer, IInv, NEW w \in Worker, WriteKey(w)
  PROVE  IInv'
<1>1. /\ worker[w].pc = "writekey" /\ worker[w] \in WorkerRec /\ WorkerOK(w)
      /\ UNCHANGED <<store, call, deaths, collided, stale>>
      /\ key' = w /\ w # None
  BY DEF WriteKey, IInv, Typed, ValuesDiffer, Maker
<1> DEFINE k == [worker[w] EXCEPT !.pc = "load", !.key = w]
<1>2. k \in WorkerRec /\ k.pc = "load" /\ k.todo = worker[w].todo /\ k.key = w
  BY <1>1 DEF WorkerRec
<1>3. worker' = [worker EXCEPT ![w] = k]
  BY DEF WriteKey, IInv, Typed
<1> HIDE DEF k
<1>4. /\ worker' \in [Worker -> WorkerRec] /\ worker'[w] = k
      /\ \A v \in Worker \ {w} : worker'[v] = worker[v]
  BY <1>2, <1>3, StepFacts
<1>5. Kind(w) # None /\ (Kind(w) = "start" => w[2] = "engine")
  BY <1>1, RunningFacts
<1>6. ~Starting(w)'
  BY <1>2, <1>4 DEF Starting
<1>7. /\ \A c \in Call : CallOK(c)'
      /\ \A v \in Worker : WorkerOK(v)'
  BY <1>1, <1>2, <1>3, <1>5, StepCalls DEF WorkerOK
<1>8. Typed' /\ MadeHere'
  BY <1>1, <1>4 DEF IInv, Typed, MadeHere
<1>9. ASSUME ~collided PROVE FilesOK'
  <2>1. FilesOK
    BY <1>9 DEF IInv
  <2>2. key = Torn /\ \A v \in Worker : worker[v].pc = "writekey" => v = w
    BY <1>1, <2>1 DEF FilesOK
  <2>3. \A v \in Worker : ~HasKey(v) /\ ~Writing(v)
    BY <2>1, <2>2 DEF FilesOK, HasKey, Writing, IInv, Typed, WorkerRec, WorkerOK, ValuesDiffer, Maker
  <2>4. \A v \in Worker : worker'[v].pc # "writekey"
    BY <1>2, <1>4, <2>2
  <2>5. \A v \in Worker : ~Writing(v)' /\ (HasKey(v)' => v = w) /\ worker'[v].pc # "work"
    BY <1>2, <1>4, <2>3 DEF HasKey, Writing
  <2>6. store # Torn /\ store' = store
    BY <1>1, <2>1, <2>3 DEF FilesOK
  <2>7. store \in Stored => store = TeammateStore
    BY <2>1, <2>2 DEF FilesOK, Stored, ValuesDiffer
  <2>8. key' # Torn
    BY <1>1 DEF ValuesDiffer, Maker
  <2> QED
    BY <1>1, <1>2, <1>4, <2>4, <2>5, <2>6, <2>7, <2>8 DEF FilesOK, Writing
<1>10. ASSUME ~collided, ~stale
       PROVE  /\ \A c \in Call : Alone(c)' => AloneOK(c)'
              /\ \A v \in Worker : StartOK(v)'
  <2>1. FilesOK /\ FilesOK'
    BY <1>9, <1>10 DEF IInv
  <2>2. Content' = Content
    BY <1>1, <1>4, <2>1, ContentKept DEF Writing
  <2> QED
    BY <1>1, <1>2, <1>3, <1>6, <1>10, <2>2, TellKeeps
<1> QED
  BY <1>1, <1>7, <1>8, <1>9, <1>10 DEF IInv

-----------------------------------------------------------------------------
(* The store is written *)

LEMMA TeammateFacts ==
  ASSUME ValuesDiffer
  PROVE  TeammateStore \in Stored /\ TeammateStore \notin {Missing, Torn} /\ Teammate \notin Worker
<1>1. TeammateStore \in Stored
  BY DEF TeammateStore, Stored, Secret, Entry, Maker
<1>2. Teammate \notin Worker
  BY DEF Teammate, Worker, ValuesDiffer
<1> QED
  BY <1>1, <1>2 DEF ValuesDiffer

\* A change of one secret, by a command that is about it.
Means(w, n, entry) ==
  /\ n \in call[w[1]].names
  /\ Kind(w) \in {"set", "delete", "rotate", "start"}
  /\ Kind(w) # "start" => call[w[1]].names = {n}
  /\ Kind(w) = "set" => entry = [value |-> <<w[1], "local">>, source |-> "manual"]
  /\ Kind(w) = "delete" => entry = None
  /\ Kind(w) = "start" => ~FromProvider(worker[w].mem[n]) /\ FromProvider(entry)

\* When nobody else has written since the worker read, the store means what the
\* worker has in memory, before and after the change.
LEMMA PutContent ==
  ASSUME ValuesDiffer, IInv, NEW w \in Worker, worker[w].pc = "work", NEW n \in Name,
         NEW entry \in Entry \cup {None}, Put(w, n, entry), ~collided', ~stale', FilesOK',
         NEW k \in WorkerRec, worker' = [worker EXCEPT ![w] = k], k.pc = "write"
  PROVE  Content = worker[w].mem /\ Content' = k.mem
<1>1. worker'[w] = k
  BY StepFacts
<1>2. OnDisk = worker[w].loaded /\ store' = Torn
  BY DEF Put, IInv, Typed
<1>3. worker[w].loaded \in Secret \cup {Missing} /\ worker[w].mem = Plain(worker[w].loaded)
  BY DEF IInv, Typed, WorkerRec, WorkerOK
<1>4. Content = worker[w].mem
  <2>1. CASE store \in Stored
    <3>1. store.map = worker[w].loaded /\ store.map \in Secret
      BY <1>2, <2>1 DEF OnDisk, Stored
    <3> QED
      BY <1>3, <2>1, <3>1 DEF Content, Plain, ValuesDiffer
  <2>2. CASE store \notin Stored
    <3>1. store = worker[w].loaded /\ store # Torn
      BY <1>2, <1>3, <2>2 DEF OnDisk, ValuesDiffer
    <3>2. store = Missing
      BY <2>2, <3>1 DEF IInv, Typed
    <3> QED
      BY <1>3, <2>2, <3>1, <3>2 DEF Content, Plain
  <2> QED
    BY <2>1, <2>2
<1>5. Writing(w)'
  BY <1>1 DEF Writing
<1>6. (CHOOSE v \in Worker : Writing(v)') = w
  BY <1>5 DEF FilesOK
<1>7. Content' = worker'[w].mem
  BY <1>2, <1>6 DEF Content, ValuesDiffer
<1> QED
  BY <1>1, <1>4, <1>7

\* What users were told stays so: only the secret meant changes, and whoever else
\* is about it is not alone with it, or told the same.
LEMMA PutTold ==
  ASSUME ValuesDiffer, IInv, ~collided, ~stale, NEW w \in Worker, worker[w].pc = "work",
         NEW n \in Name, NEW entry \in Entry \cup {None}, Means(w, n, entry),
         NEW k \in WorkerRec, worker' = [worker EXCEPT ![w] = k], k.pc = "write",
         k.mem = [worker[w].mem EXCEPT ![n] = entry], UNCHANGED call,
         Content = worker[w].mem, Content' = k.mem, worker[w].mem \in Secret,
         NEW c \in Call, Alone(c)'
  PROVE  AloneOK(c)'
<1>1. /\ worker'[w] = k
      /\ \A v \in Worker \ {w} : worker'[v] = worker[v]
  BY StepFacts
<1>2. AloneOK(c) /\ Alone(c) /\ CallOK(c)
  BY DEF IInv, Alone
<1>3. Content'[n] = entry /\ \A m \in Name \ {n} : Content'[m] = Content[m]
  BY DEF Secret
<1>4. w[1] \in Call /\ w = <<w[1], w[2]>> /\ w[2] \in {"engine", "local"}
  BY DEF Worker
<1>5. call[c].names \subseteq Name
  BY DEF IInv, Typed, CallRec
<1> SUFFICES ASSUME NEW m \in call[c].names, NEW x \in {"engine", "local"}
             PROVE  /\ call[c].kind = "set" /\ worker'[<<c, x>>].pc \in {"write", "ok"} =>
                         Content'[m] = [value |-> <<c, "local">>, source |-> "manual"]
                    /\ call[c].kind = "delete" /\ worker'[<<c, x>>].pc \in {"write", "ok"} =>
                         Content'[m] = None
                    /\ Starting(<<c, x>>)' => Content'[m] = worker'[<<c, x>>].mem[m]
  BY DEF AloneOK
<1>6. <<c, x>> \in Worker
  BY DEF Worker
<1>7. CASE w[1] = c
  <2>1. call[c].kind = Kind(w)
    BY <1>7 DEF Kind
  <2>2. Kind(w) # "start" => m = n
    BY <1>7 DEF Means
  <2>3. call[c].kind = "set" => Content'[m] = [value |-> <<c, "local">>, source |-> "manual"]
    BY <1>3, <1>7, <2>1, <2>2 DEF Means
  <2>4. call[c].kind = "delete" => Content'[m] = None
    BY <1>3, <1>7, <2>1, <2>2 DEF Means
  <2>5. ASSUME Starting(<<c, x>>)' PROVE Content'[m] = worker'[<<c, x>>].mem[m]
    <3>1. call[c].kind = "start" /\ worker'[<<c, x>>].pc # "none"
      BY <2>5 DEF Starting, Kind
    <3>2. <<c, x>> = w
      <4>1. worker[<<c, "local">>].pc = "none"
        BY <1>2, <3>1 DEF CallOK
      <4>2. w # <<c, "local">>
        BY <4>1
      <4>3. w = <<c, "engine">>
        BY <1>4, <1>7, <4>2
      <4>4. x # "local"
        BY <1>1, <1>6, <3>1, <4>1, <4>2
      <4> QED
        BY <4>3, <4>4
    <3> QED
      BY <1>1, <3>2
  <2> QED
    BY <2>3, <2>4, <2>5
<1>8. CASE w[1] # c
  <2>1. <<c, x>> # w
    BY <1>8
  <2>2. worker'[<<c, x>>] = worker[<<c, x>>]
    BY <1>1, <1>6, <2>1
  <2>3. call[w[1]].names \cap call[c].names = {}
    BY <1>2, <1>4, <1>8 DEF Alone, Means, Kind
  <2>4. Content'[m] = Content[m]
    BY <1>3, <1>5, <2>3 DEF Means
  <2>5. /\ call[c].kind = "set" /\ worker[<<c, x>>].pc \in {"write", "ok"} =>
             Content[m] = [value |-> <<c, "local">>, source |-> "manual"]
        /\ call[c].kind = "delete" /\ worker[<<c, x>>].pc \in {"write", "ok"} => Content[m] = None
        /\ Starting(<<c, x>>) => Content[m] = worker[<<c, x>>].mem[m]
    BY <1>2 DEF AloneOK
  <2> QED
    BY <2>2, <2>4, <2>5 DEF Starting, Kind
<1> QED
  BY <1>7, <1>8

\* What a provider gave stays: a Start replaces only what is not a provider's.
LEMMA PutStarts ==
  ASSUME ValuesDiffer, IInv, ~collided, ~stale, NEW w \in Worker, worker[w].pc = "work",
         NEW n \in Name, NEW entry \in Entry \cup {None}, Means(w, n, entry),
         NEW k \in WorkerRec, worker' = [worker EXCEPT ![w] = k], k.pc = "write",
         k.mem = [worker[w].mem EXCEPT ![n] = entry], k.todo = worker[w].todo \ {n}, UNCHANGED call,
         Content = worker[w].mem, Content' = k.mem, worker[w].mem \in Secret,
         NEW v \in Worker
  PROVE  StartOK(v)'
<1>1. /\ worker'[w] = k
      /\ \A u \in Worker \ {w} : worker'[u] = worker[u]
  BY StepFacts
<1>2. StartOK(v)
  BY DEF IInv
<1>3. Content'[n] = entry /\ \A m \in Name \ {n} : Content'[m] = Content[m]
  BY DEF Secret
<1> SUFFICES ASSUME Starting(v)', NEW m \in Name, Undisturbed(m)
             PROVE  /\ FromProvider(worker'[v].mem[m]) => Content'[m] = worker'[v].mem[m]
                    /\ m \in call[v[1]].names \ worker'[v].todo => FromProvider(worker'[v].mem[m])
  BY DEF StartOK, Undisturbed
<1>4. CASE v = w
  <2>1. Starting(w) /\ Kind(w) = "start"
    BY <1>4 DEF Starting, Kind
  <2>2. m \in call[w[1]].names \ k.todo => FromProvider(k.mem[m])
    <3>1. CASE m = n
      BY <2>1, <3>1 DEF Means, Secret
    <3>2. CASE m # n
      <4>1. k.mem[m] = worker[w].mem[m]
        BY <3>2 DEF Secret
      <4> QED
        BY <1>2, <1>4, <2>1, <3>2, <4>1 DEF StartOK
    <3> QED
      BY <3>1, <3>2
  <2> QED
    BY <1>1, <1>4, <2>2
<1>5. CASE v # w
  <2>1. worker'[v] = worker[v] /\ Starting(v)
    BY <1>1, <1>5 DEF Starting, Kind
  <2>2. /\ FromProvider(worker[v].mem[m]) => Content[m] = worker[v].mem[m]
        /\ m \in call[v[1]].names \ worker[v].todo => FromProvider(worker[v].mem[m])
    BY <1>2, <2>1 DEF StartOK
  <2>3. CASE m = n
    <3>1. Kind(w) = "start"
      <4>1. w[1] \in Call
        BY DEF Worker
      <4> QED
        BY <2>3, <4>1 DEF Means, Undisturbed, Kind
    <3>2. ~FromProvider(Content[m])
      BY <2>3, <3>1 DEF Means
    <3> QED
      BY <2>1, <2>2, <3>2
  <2>4. CASE m # n
    BY <1>3, <2>1, <2>2, <2>4
  <2> QED
    BY <2>3, <2>4
<1> QED
  BY <1>4, <1>5

\* The store file is cut short by a worker that is alone at it, or has collided.
LEMMA PutKeeps ==
  ASSUME SecretsAssumption, ValuesDiffer, IInv, NEW w \in Worker, worker[w].pc = "work",
         NEW n \in Name, NEW entry \in Entry \cup {None}, Means(w, n, entry),
         Put(w, n, entry), UNCHANGED <<key, call, deaths>>
  PROVE  IInv'
<1>1. /\ worker[w] \in WorkerRec /\ WorkerOK(w) /\ worker[w].mem \in Secret
      /\ store' = Torn
  BY DEF IInv, Typed, WorkerRec, Put
<1>2. /\ collided' = (collided \/ \E v \in Worker \ {w} : Writing(v))
      /\ stale' = (stale \/ OnDisk # worker[w].loaded)
  BY DEF Put, Writing
<1> DEFINE mem == [worker[w].mem EXCEPT ![n] = entry]
           k == [worker[w] EXCEPT !.pc = "write", !.mem = mem, !.todo = @ \ {n}]
<1>3. mem \in Secret
  BY <1>1 DEF Secret
<1>4. worker' = [worker EXCEPT ![w] = k]
  BY <1>1 DEF Put, IInv, Typed, WorkerRec
<1>5. mem = [worker[w].mem EXCEPT ![n] = entry]
  OBVIOUS
<1> HIDE DEF mem
<1>6. /\ k \in WorkerRec /\ k.pc = "write" /\ k.todo = worker[w].todo \ {n}
      /\ k.mem = mem /\ k.key = worker[w].key
  BY <1>1, <1>3 DEF WorkerRec
<1> HIDE DEF k
<1>7. /\ worker' \in [Worker -> WorkerRec] /\ worker'[w] = k
      /\ \A v \in Worker \ {w} : worker'[v] = worker[v]
  BY <1>4, <1>6, StepFacts
<1>8. Kind(w) # None /\ (Kind(w) = "start" => w[2] = "engine")
  BY <1>1, RunningFacts
<1>9. k.key # None /\ k.todo \subseteq call[w[1]].names
  BY <1>1, <1>6 DEF WorkerOK, HasKey
<1>10. /\ \A c \in Call : CallOK(c)'
       /\ \A v \in Worker : WorkerOK(v)'
  BY <1>4, <1>6, <1>8, <1>9, StepCalls
<1>11. Typed' /\ MadeHere'
  BY <1>1, <1>2, <1>7 DEF IInv, Typed, MadeHere, ValuesDiffer
<1>12. ASSUME ~collided' PROVE ~collided /\ FilesOK'
  <2>1. ~collided /\ \A v \in Worker \ {w} : ~Writing(v)
    BY <1>2, <1>12 DEF IInv, Typed
  <2>2. FilesOK
    BY <2>1 DEF IInv
  <2>3. \A v \in Worker : Writing(v)' <=> v = w
    BY <1>6, <1>7, <2>1 DEF Writing
  <2>4. \A v \in Worker : worker'[v].pc = "writekey" <=> worker[v].pc = "writekey"
    BY <1>6, <1>7
  <2>5. worker[w].key = key
    BY <2>2 DEF FilesOK, HasKey
  <2>6. \A v \in Worker : HasKey(v)' => worker'[v].key = key'
    BY <1>6, <1>7, <2>2, <2>5 DEF FilesOK, HasKey
  <2>7. store' \notin Stored /\ store' # TeammateStore
    BY <1>1, TeammateFacts DEF ValuesDiffer
  <2>8. key' = key
    OBVIOUS
  <2> QED
    BY <1>1, <2>1, <2>2, <2>3, <2>4, <2>6, <2>7, <2>8 DEF FilesOK
<1>13. ASSUME ~collided', ~stale'
       PROVE  /\ \A c \in Call : Alone(c)' => AloneOK(c)'
              /\ \A v \in Worker : StartOK(v)'
  <2>1. ~collided /\ ~stale /\ FilesOK'
    BY <1>2, <1>12, <1>13 DEF IInv, Typed
  <2>2. Content = worker[w].mem /\ Content' = k.mem
    BY <1>4, <1>6, <1>13, <2>1, PutContent
  <2>3. k.mem = [worker[w].mem EXCEPT ![n] = entry]
    BY <1>5, <1>6
  <2>4. ASSUME NEW c \in Call, Alone(c)' PROVE AloneOK(c)'
    BY <1>1, <1>4, <1>6, <2>1, <2>2, <2>3, <2>4, PutTold
  <2>5. ASSUME NEW v \in Worker PROVE StartOK(v)'
    BY <1>1, <1>4, <1>6, <2>1, <2>2, <2>3, PutStarts
  <2> QED
    BY <2>4, <2>5
<1> QED
  BY <1>10, <1>11, <1>12, <1>13 DEF IInv

\* The write is complete: the store means what it did while it was cut short.
LEMMA WriteStoreKeeps ==
  ASSUME SecretsAssumption, ValuesDiffer, IInv, NEW w \in Worker, WriteStore(w)
  PROVE  IInv'
<1>1. /\ worker[w].pc = "write" /\ worker[w] \in WorkerRec /\ WorkerOK(w)
      /\ worker[w].mem \in Secret /\ worker[w].key \in Worker
      /\ UNCHANGED <<key, call, deaths, collided, stale>>
  BY DEF WriteStore, IInv, Typed, WorkerRec, WorkerOK, HasKey
<1>2. store' = [by |-> worker[w].key, map |-> worker[w].mem] \/ (store # Torn /\ store' = Torn)
  BY DEF WriteStore
<1>3. Kind(w) # None /\ (Kind(w) = "start" => w[2] = "engine") /\ Running(w)
  BY <1>1, RunningFacts DEF Running
<1>4. PICK k \in WorkerRec :
        /\ worker' = [worker EXCEPT ![w] = k]
        /\ \/ Kind(w) # "start" /\ k.pc = "ok" /\ k.todo = {}
           \/ /\ Kind(w) = "start" /\ k.pc = "work" /\ k.todo = worker[w].todo
              /\ k.mem = worker[w].mem /\ k.loaded = worker[w].mem /\ k.key = worker[w].key
  <2>1. CASE Kind(w) = "start"
    <3> DEFINE k == [worker[w] EXCEPT !.pc = "work", !.loaded = worker[w].mem]
    <3>1. /\ k \in WorkerRec /\ k.pc = "work" /\ k.todo = worker[w].todo
          /\ k.mem = worker[w].mem /\ k.loaded = worker[w].mem /\ k.key = worker[w].key
      BY <1>1 DEF WorkerRec
    <3>2. worker' = [worker EXCEPT ![w] = k]
      BY <1>1, <2>1 DEF WriteStore, IInv, Typed
    <3> QED
      BY <2>1, <3>1, <3>2
  <2>2. CASE Kind(w) # "start"
    <3>1. End(w, "ok")
      BY <2>2 DEF WriteStore
    <3> QED
      BY <2>2, <3>1, EndFacts DEF IInv
  <2> QED
    BY <2>1, <2>2
<1>5. /\ worker' \in [Worker -> WorkerRec] /\ worker'[w] = k
      /\ \A v \in Worker \ {w} : worker'[v] = worker[v]
  BY <1>4, StepFacts
<1>6. /\ HasKey(w)' => k.key = worker[w].key /\ k.pc = "work"
      /\ k.pc = "work" => k.mem = Plain(k.loaded)
      /\ k.todo \subseteq call[w[1]].names
      /\ k.pc \notin {"key", "create", "writekey", "load", "write"}
  BY <1>1, <1>4, <1>5 DEF WorkerOK, HasKey, Plain, ValuesDiffer
<1>7. k.key # None \/ ~HasKey(w)'
  BY <1>1, <1>6 DEF ValuesDiffer, Maker
<1>8. /\ \A c \in Call : CallOK(c)'
      /\ \A v \in Worker : WorkerOK(v)'
  BY <1>1, <1>3, <1>4, <1>6, <1>7, StepCalls
<1>9. [by |-> worker[w].key, map |-> worker[w].mem] \in Stored
  BY <1>1 DEF Stored, Maker
<1>10. Typed'
  BY <1>1, <1>2, <1>5, <1>9 DEF IInv, Typed
<1>11. MadeHere'
  BY <1>1, <1>2 DEF MadeHere, ValuesDiffer
<1>12. ASSUME ~collided
       PROVE  FilesOK' /\ Content' = Content
  <2>1. FilesOK
    BY <1>12 DEF IInv
  <2>2. /\ store = Torn /\ worker[w].key = key /\ \A v \in Worker \ {w} : ~Writing(v)
    BY <1>1, <2>1 DEF FilesOK, HasKey, Writing
  <2>3. store' = [by |-> key, map |-> worker[w].mem] /\ store' \in Stored
    BY <1>2, <1>9, <2>2
  <2>4. store' \notin {Missing, Torn}
    BY <2>3 DEF ValuesDiffer
  <2>5. store' # TeammateStore
    <3>1. store'.by = key /\ key \in Worker /\ TeammateStore.by = Teammate
      BY <1>1, <2>2, <2>3 DEF TeammateStore
    <3> QED
      BY <3>1, TeammateFacts
  <2>6. \A v \in Worker : ~Writing(v)'
    BY <1>5, <1>6, <2>2 DEF Writing
  <2>7. \A v \in Worker : worker'[v].pc = "writekey" <=> worker[v].pc = "writekey"
    BY <1>1, <1>5, <1>6
  <2>8. \A v \in Worker : HasKey(v)' => worker'[v].key = key'
    BY <1>1, <1>5, <1>6, <2>1, <2>2 DEF FilesOK, HasKey
  <2>9. store'.by = key' /\ key' = key
    BY <1>1, <2>3
  <2>10. FilesOK'
    BY <2>1, <2>4, <2>5, <2>6, <2>7, <2>8, <2>9 DEF FilesOK
  <2>11. Content = worker[w].mem
    <3>1. Writing(w)
      BY <1>1 DEF Writing
    <3>2. (CHOOSE v \in Worker : Writing(v)) = w
      BY <2>1, <3>1, WriterFacts
    <3> QED
      BY <2>2, <3>2 DEF Content, ValuesDiffer
  <2>12. Content' = worker[w].mem
    BY <2>3 DEF Content
  <2> QED
    BY <2>10, <2>11, <2>12
<1>13. ASSUME ~collided, ~stale
       PROVE  /\ \A c \in Call : Alone(c)' => AloneOK(c)'
              /\ \A v \in Worker : StartOK(v)'
  <2>1. Starting(w)' => Starting(w) /\ k.mem = worker[w].mem /\ k.todo = worker[w].todo
    BY <1>1, <1>4, <1>5 DEF Starting, Kind
  <2> QED
    BY <1>1, <1>4, <1>12, <1>13, <2>1, TellKeeps
<1> QED
  BY <1>1, <1>8, <1>10, <1>11, <1>12, <1>13 DEF IInv

-----------------------------------------------------------------------------
(* The commands *)

\* The secret a change is about.
LEMMA TargetFacts ==
  ASSUME IInv, NEW w \in Worker, Kind(w) \in {"set", "delete", "rotate", "get"}, None \notin AllKinds
  PROVE  Target(w) \in Name /\ call[w[1]].names = {Target(w)}
<1>1. w[1] \in Call
  BY DEF Worker
<1>2. Kind(w) \notin {None, "start"}
  BY DEF AllKinds
<1>3. PICK n \in Name : call[w[1]].names = {n}
  BY <1>1, <1>2 DEF IInv, CallOK, Kind
<1> QED
  BY <1>3 DEF Target

LEMMA SetSecretKeeps ==
  ASSUME SecretsAssumption, ValuesDiffer, IInv, NEW w \in Worker, SetSecret(w)
  PROVE  IInv'
<1>1. /\ worker[w].pc = "work" /\ Kind(w) = "set"
      /\ Put(w, Target(w), [value |-> GivenBy(w), source |-> "manual"])
      /\ UNCHANGED <<key, call, deaths>>
  BY DEF SetSecret
<1>2. Target(w) \in Name /\ call[w[1]].names = {Target(w)}
  BY <1>1, TargetFacts DEF ValuesDiffer
<1>3. PICK n \in Name : n = Target(w)
  BY <1>2
<1>4. PICK entry \in Entry : entry = [value |-> <<w[1], "local">>, source |-> "manual"]
  BY DEF Entry, Maker, Worker
<1>5. Put(w, n, entry)
  BY <1>1, <1>3, <1>4 DEF GivenBy
<1>6. Means(w, n, entry)
  BY <1>1, <1>2, <1>3, <1>4 DEF Means
<1> QED
  BY <1>1, <1>5, <1>6, PutKeeps

LEMMA DeleteSecretKeeps ==
  ASSUME SecretsAssumption, ValuesDiffer, IInv, NEW w \in Worker, DeleteSecret(w)
  PROVE  IInv'
<1>1. worker[w].pc = "work" /\ Kind(w) = "delete" /\ UNCHANGED <<key, call, deaths>>
  BY DEF DeleteSecret
<1>2. Target(w) \in Name /\ call[w[1]].names = {Target(w)}
  BY <1>1, TargetFacts DEF ValuesDiffer
<1>3. CASE Finish(w, "failed")
  BY <1>1, <1>3, FinishKeeps
<1>4. CASE Put(w, Target(w), None)
  <2>1. PICK n \in Name : n = Target(w)
    BY <1>2
  <2>2. Means(w, n, None)
    BY <1>1, <1>2, <2>1 DEF Means
  <2> QED
    BY <1>1, <1>4, <2>1, <2>2, PutKeeps
<1> QED
  BY <1>3, <1>4 DEF DeleteSecret

LEMMA GetSecretKeeps ==
  ASSUME SecretsAssumption, ValuesDiffer, IInv, NEW w \in Worker, GetSecret(w)
  PROVE  IInv'
<1>1. PICK pc \in {"ok", "failed"} : Finish(w, pc)
  BY DEF GetSecret
<1>2. worker[w].pc = "work" /\ Kind(w) = "get" /\ UNCHANGED <<key, call, deaths>>
  BY DEF GetSecret
<1> QED
  BY <1>1, <1>2, FinishKeeps

\* What a provider gives is an entry of a provider, or nothing.
LEMMA ProvideFacts ==
  ASSUME ValuesDiffer, NEW w \in Worker, NEW got \in Provide(w), got # None
  PROVE  got \in Entry /\ FromProvider(got)
BY DEF Provide, Entry, Maker, FromProvider

LEMMA RotateSecretKeeps ==
  ASSUME SecretsAssumption, ValuesDiffer, IInv, NEW w \in Worker, RotateSecret(w)
  PROVE  IInv'
<1>1. worker[w].pc = "work" /\ Kind(w) = "rotate" /\ UNCHANGED <<key, call, deaths>>
  BY DEF RotateSecret
<1>2. Target(w) \in Name /\ call[w[1]].names = {Target(w)}
  BY <1>1, TargetFacts DEF ValuesDiffer
<1>3. CASE Finish(w, "failed")
  BY <1>1, <1>3, FinishKeeps
<1>4. ASSUME NEW got \in Provide(w), got # None, Put(w, Target(w), got) PROVE IInv'
  <2>1. PICK n \in Name : n = Target(w)
    BY <1>2
  <2>2. Means(w, n, got)
    BY <1>1, <1>2, <2>1 DEF Means
  <2>3. got \in Entry
    BY <1>4, ProvideFacts
  <2> QED
    BY <1>1, <1>4, <2>1, <2>2, <2>3, PutKeeps
<1> QED
  BY <1>3, <1>4 DEF RotateSecret

LEMMA ResolveSecretKeeps ==
  ASSUME SecretsAssumption, ValuesDiffer, IInv, NEW w \in Worker, ResolveSecret(w)
  PROVE  IInv'
<1>1. worker[w].pc = "work" /\ Kind(w) = "start" /\ UNCHANGED <<key, call, deaths>>
  BY DEF ResolveSecret
<1>2. PICK n \in worker[w].todo :
       IF FromProvider(worker[w].mem[n])
       THEN /\ worker' = [worker EXCEPT ![w].todo = @ \ {n}]
            /\ UNCHANGED <<store, collided, stale>>
       ELSE \E got \in Provide(w) :
              IF got = None THEN Finish(w, "failed") ELSE Put(w, n, got)
  BY DEF ResolveSecret
<1>3. n \in Name /\ n \in call[w[1]].names
  BY DEF IInv, Typed, WorkerRec, WorkerOK
<1>4. CASE FromProvider(worker[w].mem[n])
  BY <1>1, <1>2, <1>4, ReuseKeeps
<1>5. CASE ~FromProvider(worker[w].mem[n])
  <2>1. PICK got \in Provide(w) : IF got = None THEN Finish(w, "failed") ELSE Put(w, n, got)
    BY <1>2, <1>5
  <2>2. CASE got = None
    BY <1>1, <2>1, <2>2, FinishKeeps
  <2>3. CASE got # None
    <3>1. got \in Entry /\ FromProvider(got)
      BY <2>3, ProvideFacts
    <3>2. Means(w, n, got)
      BY <1>1, <1>3, <1>5, <3>1 DEF Means
    <3> QED
      BY <1>1, <1>3, <2>1, <2>3, <3>1, <3>2, PutKeeps
  <2> QED
    BY <2>2, <2>3
<1> QED
  BY <1>4, <1>5

LEMMA ResolvedKeeps ==
  ASSUME SecretsAssumption, ValuesDiffer, IInv, NEW w \in Worker, Resolved(w)
  PROVE  IInv'
<1>1. /\ worker[w].pc = "work" /\ Kind(w) = "start" /\ worker[w].todo = {}
      /\ Finish(w, "ok") /\ UNCHANGED <<key, call, deaths>>
  BY DEF Resolved
<1> QED
  BY <1>1, FinishKeeps

\* The CLI's worker is launched as the second of its command.
LEMMA FallBackKeeps ==
  ASSUME SecretsAssumption, ValuesDiffer, IInv, NEW c \in Call, FallBack(c)
  PROVE  IInv'
<1> DEFINE w == <<c, "local">>
<1>1. w \in Worker /\ w[1] = c /\ Kind(w) = call[c].kind
  BY DEF Worker, Kind
<1>2. /\ Kind(w) \notin {None, "start"} /\ worker[w].pc = "none"
      /\ UNCHANGED <<key, store, call, deaths, collided, stale>>
      /\ worker' = [worker EXCEPT ![w].pc = "key", ![w].todo = {}]
  BY <1>1 DEF FallBack, Launch
<1>3. worker[w] \in WorkerRec /\ deaths' \in 0..MaxDeaths
  BY <1>1, <1>2 DEF IInv, Typed
<1> DEFINE k == [worker[w] EXCEPT !.pc = "key", !.todo = {}]
<1>4. k \in WorkerRec /\ k.pc = "key" /\ k.todo = {}
  BY <1>3 DEF WorkerRec
<1>5. worker' = [worker EXCEPT ![w] = k]
  BY <1>1, <1>2 DEF IInv, Typed
<1> HIDE DEF k, w
<1>6. worker'[w] = k
  BY <1>1, <1>4, <1>5, StepFacts
<1>7. ~HasKey(w)' /\ ~Starting(w)'
  BY <1>4, <1>6 DEF HasKey, Starting
<1> QED
  BY <1>1, <1>2, <1>3, <1>4, <1>5, <1>7, QuietStep

\* A command is given: it was none, so nobody worked for it and it meant no secret.
LEMMA AskKeeps ==
  ASSUME SecretsAssumption, ValuesDiffer, IInv, NEW c \in Call, Ask(c)
  PROVE  IInv'
<1>1. PICK kind \in Kinds, names \in (SUBSET Name) \ {{}}, via \in {"engine", "local"} :
       /\ IF kind = "start" THEN via = "engine" ELSE Cardinality(names) = 1
       /\ call' = [call EXCEPT ![c].kind = kind, ![c].names = names]
       /\ Launch(<<c, via>>, IF kind = "start" THEN names ELSE {})
  BY DEF Ask
<1>2. call[c].kind = None /\ UNCHANGED <<key, store, deaths, collided, stale>>
  BY DEF Ask
<1>3. PICK w \in Worker : w = <<c, via>>
  BY DEF Worker
<1> DEFINE todo == IF kind = "start" THEN names ELSE {}
           k == [worker[w] EXCEPT !.pc = "key", !.todo = todo]
           r == [call[c] EXCEPT !.kind = kind, !.names = names]
<1>4. worker[w] \in WorkerRec /\ call[c] \in CallRec /\ deaths' \in 0..MaxDeaths
  BY <1>2 DEF IInv, Typed
<1>5. k \in WorkerRec /\ k.pc = "key" /\ k.todo = todo
  BY <1>4 DEF WorkerRec
<1>6. worker' = [worker EXCEPT ![w] = k]
  BY <1>1, <1>3, <1>4 DEF Launch, IInv, Typed
<1>7. r \in CallRec /\ r.kind = kind /\ r.names = names /\ r.answer = call[c].answer
  BY <1>4 DEF CallRec
<1>8. call' = [call EXCEPT ![c] = r]
  BY <1>1 DEF IInv, Typed
<1>9. todo \subseteq names /\ (kind = "start" => todo = names)
  OBVIOUS
<1> HIDE DEF k, r, todo
<1>10. /\ worker' \in [Worker -> WorkerRec] /\ worker'[w] = k
       /\ \A v \in Worker \ {w} : worker'[v] = worker[v]
  BY <1>5, <1>6, StepFacts
<1>11. /\ call' \in [Call -> CallRec] /\ call'[c] = r
       /\ \A d \in Call \ {c} : call'[d] = call[d]
  BY <1>7, <1>8 DEF IInv, Typed
<1>12. kind # None /\ kind \in Kinds
  BY DEF SecretsAssumption, ValuesDiffer
<1>13. call[c].names = {} /\ call[c].answer = "none"
       /\ worker[<<c, "engine">>].pc = "none" /\ worker[<<c, "local">>].pc = "none"
  BY <1>2 DEF IInv, CallOK
<1>14. Typed' /\ MadeHere'
  BY <1>2, <1>10, <1>11 DEF IInv, Typed, MadeHere
<1>15. \A v \in Worker : v[1] \in Call /\ v = <<v[1], v[2]>> /\ v[2] \in {"engine", "local"}
  BY DEF Worker
<1>16. \A v \in Worker : v[1] = c => worker[v].pc = "none"
  BY <1>13, <1>15
<1>17. \A v \in Worker : v[1] # c => v # w
  BY <1>3
<1>18. ASSUME NEW d \in Call PROVE CallOK(d)'
  <2>1. <<d, "engine">> \in Worker /\ <<d, "local">> \in Worker
    BY DEF Worker
  <2>2. CASE d = c
    <3>1. kind \notin {None, "start"} => \E n \in Name : names = {n}
      <4>1. IsFiniteSet(names)
        BY FS_Subset DEF SecretsAssumption
      <4>2. kind # "start" => Cardinality(names) = 1
        BY <1>1
      <4> QED
        BY <4>1, <4>2, FS_Singleton
    <3>2. kind = "start" => <<c, "local">> # w
      BY <1>1, <1>3
    <3>3. kind = "start" => worker'[<<c, "local">>].pc = "none"
      BY <1>10, <1>13, <2>1, <2>2, <3>2
    <3>4. call'[d].kind = kind /\ call'[d].names = names /\ call'[d].answer = "none"
      BY <1>7, <1>11, <1>13, <2>2
    <3> QED
      BY <1>12, <2>2, <3>1, <3>3, <3>4 DEF CallOK
  <2>3. CASE d # c
    <3>1. CallOK(d) /\ call'[d] = call[d]
      BY <1>11, <2>3 DEF IInv
    <3>2. worker'[<<d, "engine">>] = worker[<<d, "engine">>] /\ worker'[<<d, "local">>] = worker[<<d, "local">>]
      BY <1>3, <1>10, <2>1, <2>3
    <3> QED
      BY <3>1, <3>2 DEF CallOK
  <2> QED
    BY <2>2, <2>3
<1>19. ASSUME NEW v \in Worker PROVE WorkerOK(v)'
  <2>1. CASE v = w
    <3>1. v[1] = c /\ call'[v[1]].names = names /\ call'[v[1]].kind = kind
      BY <1>3, <1>7, <1>11, <2>1
    <3>2. worker'[v].pc = "key" /\ worker'[v].todo = todo
      BY <1>5, <1>10, <2>1
    <3> QED
      BY <1>9, <3>1, <3>2 DEF WorkerOK, HasKey, Kind
  <2>2. CASE v # w /\ v[1] = c
    <3>1. WorkerOK(v) /\ worker'[v] = worker[v] /\ worker[v].pc = "none"
      BY <1>10, <1>16, <2>2 DEF IInv
    <3>2. worker[v].todo = {}
      BY <1>13, <2>2, <3>1 DEF WorkerOK
    <3> QED
      BY <3>1, <3>2 DEF WorkerOK, HasKey
  <2>3. CASE v # w /\ v[1] # c
    <3>1. WorkerOK(v) /\ worker'[v] = worker[v] /\ call'[v[1]] = call[v[1]]
      BY <1>10, <1>11, <1>15, <2>3 DEF IInv
    <3> QED
      BY <3>1 DEF WorkerOK, HasKey, Kind
  <2> QED
    BY <2>1, <2>2, <2>3
<1>20. worker[w].pc = "none" /\ ~HasKey(w)'
  BY <1>3, <1>5, <1>10, <1>16 DEF HasKey
<1>21. ASSUME ~collided PROVE FilesOK'
  BY <1>2, <1>5, <1>6, <1>20, <1>21, QuietFiles DEF IInv
<1>22. ASSUME ~collided, ~stale
       PROVE  /\ \A d \in Call : Alone(d)' => AloneOK(d)'
              /\ \A v \in Worker : StartOK(v)'
  <2>1. Content' = Content
    BY <1>2, <1>10, <1>20, <1>21, <1>22, ContentKept DEF IInv, Writing
  <2>2. \A v \in Worker : v[1] = c => worker'[v].pc \in {"none", "key"}
    BY <1>5, <1>10, <1>16
  <2>3. ASSUME NEW d \in Call, Alone(d)' PROVE AloneOK(d)'
    <3>1. CASE d = c
      <4>1. \A x \in {"engine", "local"} : worker'[<<c, x>>].pc \in {"none", "key"}
        BY <2>2 DEF Worker
      <4> QED
        BY <3>1, <4>1 DEF AloneOK, Starting
    <3>2. CASE d # c
      <4>1. Alone(d)
        BY <1>11, <1>13, <2>3, <3>2 DEF Alone
      <4>2. AloneOK(d) /\ call'[d] = call[d]
        BY <1>11, <1>22, <3>2, <4>1 DEF IInv
      <4>3. \A x \in {"engine", "local"} : worker'[<<d, x>>] = worker[<<d, x>>]
        BY <1>3, <1>10, <3>2 DEF Worker
      <4>4. \A x \in {"engine", "local"} : Starting(<<d, x>>)' <=> Starting(<<d, x>>)
        BY <4>2, <4>3 DEF Starting, Kind
      <4> QED
        BY <2>1, <4>2, <4>3, <4>4 DEF AloneOK
    <3> QED
      BY <3>1, <3>2
  <2>4. ASSUME NEW v \in Worker PROVE StartOK(v)'
    <3>1. CASE v[1] = c
      BY <2>2, <3>1 DEF StartOK, Starting
    <3>2. CASE v[1] # c
      <4>1. StartOK(v) /\ worker'[v] = worker[v] /\ call'[v[1]] = call[v[1]]
        BY <1>10, <1>11, <1>15, <1>17, <1>22, <3>2 DEF IInv
      <4>2. \A n : Undisturbed(n)' => Undisturbed(n)
        BY <1>2, <1>11, <1>13 DEF Undisturbed
      <4>3. Starting(v)' <=> Starting(v)
        BY <4>1 DEF Starting, Kind
      <4> QED
        BY <2>1, <4>1, <4>2, <4>3 DEF StartOK
    <3> QED
      BY <3>1, <3>2
  <2> QED
    BY <2>3, <2>4
<1> QED
  BY <1>2, <1>14, <1>18, <1>19, <1>21, <1>22 DEF IInv

\* The answer is that of a worker that has ended.
LEMMA AnswerKeeps ==
  ASSUME SecretsAssumption, ValuesDiffer, IInv, NEW c \in Call, Answer(c)
  PROVE  IInv'
<1>1. UNCHANGED <<key, store, worker, deaths, collided, stale>>
  BY DEF Answer
<1>2. PICK a \in {"ok", "failed"} :
        /\ call' = [call EXCEPT ![c].answer = a]
        /\ a = "ok" => worker[<<c, "engine">>].pc = "ok" \/ worker[<<c, "local">>].pc = "ok"
        /\ worker[<<c, "engine">>].pc # "none" \/ worker[<<c, "local">>].pc # "none"
  BY DEF Answer
<1> DEFINE r == [call[c] EXCEPT !.answer = a]
<1>3. r \in CallRec /\ r.kind = call[c].kind /\ r.names = call[c].names /\ r.answer = a
  BY DEF IInv, Typed, CallRec
<1>4. call' = [call EXCEPT ![c] = r]
  BY <1>2
<1> HIDE DEF r
<1>5. /\ call' \in [Call -> CallRec] /\ call'[c] = r
      /\ \A d \in Call \ {c} : call'[d] = call[d]
  BY <1>3, <1>4 DEF IInv, Typed
<1>6. \A d \in Call : call'[d].kind = call[d].kind /\ call'[d].names = call[d].names
  BY <1>3, <1>5
<1>7. ASSUME NEW d \in Call PROVE CallOK(d)'
  <2>1. CallOK(d)
    BY DEF IInv
  <2>2. CASE d = c
    BY <1>1, <1>2, <1>3, <1>5, <2>1, <2>2 DEF CallOK
  <2>3. CASE d # c
    BY <1>1, <1>5, <2>1, <2>3 DEF CallOK
  <2> QED
    BY <2>2, <2>3
<1>8. \A v \in Worker : v[1] \in Call /\ (Kind(v)' = Kind(v)) /\ call'[v[1]].names = call[v[1]].names
  BY <1>6 DEF Worker, Kind
<1>9. ASSUME NEW v \in Worker PROVE WorkerOK(v)'
  BY <1>1, <1>8 DEF IInv, WorkerOK, HasKey
<1>10. Typed' /\ MadeHere' /\ Content' = Content
  BY <1>1, <1>5 DEF IInv, Typed, MadeHere, Content, Writing
<1>11. ~collided => FilesOK'
  BY <1>1 DEF IInv, FilesOK, HasKey, Writing
<1>12. ASSUME ~collided, ~stale, NEW d \in Call, Alone(d)' PROVE AloneOK(d)'
  <2>1. Alone(d)
    BY <1>6, <1>12 DEF Alone
  <2>2. AloneOK(d)
    BY <1>12, <2>1 DEF IInv
  <2>3. \A x \in {"engine", "local"} : Starting(<<d, x>>)' <=> Starting(<<d, x>>)
    BY <1>1, <1>6 DEF Starting, Kind
  <2> QED
    BY <1>1, <1>6, <1>10, <2>2, <2>3 DEF AloneOK
<1>13. ASSUME ~collided, ~stale, NEW v \in Worker PROVE StartOK(v)'
  <2>1. StartOK(v)
    BY <1>13 DEF IInv
  <2>2. \A n : Undisturbed(n)' <=> Undisturbed(n)
    BY <1>6 DEF Undisturbed
  <2>3. Starting(v)' <=> Starting(v)
    BY <1>1, <1>8 DEF Starting
  <2> QED
    BY <1>1, <1>8, <1>10, <2>1, <2>2, <2>3 DEF StartOK
<1> QED
  BY <1>1, <1>7, <1>9, <1>10, <1>11, <1>12, <1>13 DEF IInv

-----------------------------------------------------------------------------
(* The theorems *)

LEMMA InitOK ==
  ASSUME SecretsAssumption, ValuesDiffer, SecretsInit
  PROVE  IInv
<1>1. 0 \in 0..MaxDeaths
  BY DEF SecretsAssumption
<1>2. NoWorker \in WorkerRec
  BY DEF NoWorker, WorkerRec, NoSecrets, Secret
<1>3. store \in {Missing, TeammateStore} /\ (store = TeammateStore => Cloned)
  BY TeammateFacts DEF SecretsInit
<1>4. Typed
  BY <1>1, <1>2, <1>3, TeammateFacts DEF SecretsInit, Typed, CallRec
<1>5. \A w \in Worker : worker[w].pc = "none" /\ worker[w].todo = {}
  BY DEF SecretsInit, NoWorker
<1>6. \A c \in Call : CallOK(c)
  BY <1>5 DEF SecretsInit, CallOK, Worker
<1>7. \A w \in Worker : WorkerOK(w)
  BY <1>5 DEF WorkerOK, HasKey
<1>8. MadeHere
  BY <1>3 DEF MadeHere, ValuesDiffer
<1>9. FilesOK
  BY <1>3, <1>5, TeammateFacts DEF FilesOK, SecretsInit, HasKey, Writing, ValuesDiffer
<1>10. \A c \in Call : AloneOK(c)
  BY <1>5 DEF AloneOK, Starting, Worker
<1>11. \A w \in Worker : StartOK(w)
  BY <1>5 DEF StartOK, Starting
<1> QED
  BY <1>4, <1>6, <1>7, <1>8, <1>9, <1>10, <1>11 DEF IInv

LEMMA NextOK ==
  ASSUME SecretsAssumption, ValuesDiffer, IInv, [SecretsNext]_secretsVars
  PROVE  IInv'
<1>1. ASSUME NEW w \in Worker, Access(w) PROVE IInv'
  BY <1>1, ReadKeyKeeps, CreateKeyKeeps, WriteKeyKeeps, LoadStoreKeeps, SetSecretKeeps,
     DeleteSecretKeeps, GetSecretKeeps, RotateSecretKeeps, ResolveSecretKeeps, ResolvedKeeps,
     WriteStoreKeeps DEF Access
<1>2. ASSUME NEW w \in Worker, Die(w) PROVE IInv'
  BY <1>2, DieKeeps
<1>3. ASSUME NEW c \in Call, FallBack(c) \/ Answer(c) \/ Ask(c) PROVE IInv'
  BY <1>3, FallBackKeeps, AnswerKeeps, AskKeeps
<1>4. CASE UNCHANGED secretsVars
  <2>1. UNCHANGED <<key, store, call, worker, deaths, collided, stale>>
    BY <1>4 DEF secretsVars
  <2>2. Typed' /\ MadeHere' /\ Content' = Content
    BY <2>1 DEF IInv, Typed, MadeHere, Content, Writing
  <2>3. (\A c \in Call : CallOK(c)') /\ (\A w \in Worker : WorkerOK(w)')
    BY <2>1 DEF IInv, CallOK, WorkerOK, HasKey, Kind
  <2>4. ~collided => FilesOK'
    BY <2>1 DEF IInv, FilesOK, HasKey, Writing
  <2>5. \A w \in Worker : Starting(w)' <=> Starting(w)
    BY <2>1 DEF Starting, Kind
  <2>6. ASSUME ~collided, ~stale, NEW c \in Call, Alone(c)' PROVE AloneOK(c)'
    <3>1. Alone(c) /\ AloneOK(c)
      BY <2>1, <2>6 DEF IInv, Alone
    <3> QED
      BY <2>1, <2>2, <2>5, <3>1 DEF AloneOK, Starting, Kind
  <2>7. ASSUME ~collided, ~stale, NEW w \in Worker PROVE StartOK(w)'
    <3>1. StartOK(w)
      BY <2>7 DEF IInv
    <3>2. \A n : Undisturbed(n)' <=> Undisturbed(n)
      BY <2>1 DEF Undisturbed
    <3> QED
      BY <2>1, <2>2, <2>5, <3>1, <3>2 DEF StartOK
  <2> QED
    BY <2>1, <2>2, <2>3, <2>4, <2>6, <2>7 DEF IInv
<1> QED
  BY <1>1, <1>2, <1>3, <1>4 DEF SecretsNext, SecretsStep

\* The strengthened invariant holds of every behaviour of commands and workers.
THEOREM InductiveInvariant == SecretsSpec => []IInv
<1>1. SecretsInit => IInv
  BY SecretsAssumption, ValuesDiffer, InitOK
<1>2. IInv /\ [SecretsNext]_secretsVars => IInv'
  BY SecretsAssumption, ValuesDiffer, NextOK
<1> QED
  BY <1>1, <1>2, PTL DEF SecretsSpec

\* Unless the store came with a clone, the key beside it opens it whenever nobody
\* works on them, whatever overlapped, as long as no two workers wrote the same
\* file at once and none died while writing (LoadOrCreateKey, Load, Save).
THEOREM KeyOpens == ~Cloned => (SecretsSpec => []SecretsInv)
<1> SUFFICES ASSUME ~Cloned PROVE SecretsSpec => []SecretsInv
  OBVIOUS
<1>1. IInv => SecretsTypeOK
  BY DEF IInv, Typed, SecretsTypeOK, WorkerRec, WorkerOK, HasKey, Maker, CallRec
<1>2. ASSUME IInv, AtRest, ~collided, key # Missing PROVE KeyOpensStore
  <2>1. FilesOK /\ MadeHere
    BY <1>2 DEF IInv
  <2>2. \A w \in Worker : worker[w].pc # "writekey" /\ ~Writing(w)
    BY <1>2 DEF AtRest, Running, Writing
  <2>3. key # Torn /\ store # Torn
    BY <2>1, <2>2 DEF FilesOK
  <2>4. ASSUME store \in Stored PROVE store.by = key
    <3>1. store.by \in Worker
      BY <2>1, <2>4 DEF MadeHere
    <3>2. TeammateStore.by = Teammate /\ Teammate \notin Worker
      BY TeammateFacts, ValuesDiffer DEF TeammateStore
    <3> QED
      BY <2>1, <2>4, <3>1, <3>2 DEF FilesOK
  <2> QED
    BY <1>2, <2>3, <2>4 DEF KeyOpensStore, IInv, Typed
<1>3. IInv => SecretsInv
  BY <1>1, <1>2 DEF SecretsInv, StoreReadable
<1> QED
  BY <1>3, InductiveInvariant, PTL

\* What users were told is what the store has when all is done, however commands,
\* fallbacks and deaths overlap, unless writes collided or a worker wrote over what
\* it had not read (Load, Save, Resolve).
THEOREM TellsTheTruth == SecretsSpec => []AnswersHold
<1>1. ASSUME IInv, AtRest, ~collided, ~stale, NEW c \in Call, call[c].answer = "ok", Alone(c)
      PROVE  Told(c)
  <2>1. AloneOK(c) /\ CallOK(c) /\ FilesOK
    BY <1>1 DEF IInv
  <2>2. store # Torn
    BY <1>1, <2>1 DEF FilesOK, AtRest, Running, Writing
  <2>3. \A n \in Name : Now(n) = Content[n]
    BY <1>1, <2>2, ValuesDiffer DEF Now, Content, NoSecrets, IInv, Typed, ValuesDiffer
  <2>4. call[c].names \subseteq Name
    BY <1>1 DEF IInv, Typed, CallRec
  <2>5. PICK x \in {"engine", "local"} : worker[<<c, x>>].pc = "ok"
    BY <1>1, <2>1 DEF CallOK
  <2>6. ASSUME NEW n \in call[c].names
        PROVE  CASE call[c].kind = "set" ->
                      Now(n) = [value |-> <<c, "local">>, source |-> "manual"]
                 [] call[c].kind = "delete" -> Now(n) = None
                 [] call[c].kind = "start" -> Now(n) = worker[<<c, "engine">>].mem[n]
                 [] OTHER -> TRUE
    <3>1. Now(n) = Content[n]
      BY <2>3, <2>4
    <3>2. CASE call[c].kind = "start"
      <4>1. x = "engine"
        BY <2>1, <2>5, <3>2 DEF CallOK
      <4>2. Starting(<<c, "engine">>)
        BY <2>5, <3>2, <4>1 DEF Starting, Kind
      <4> QED
        BY <2>1, <3>1, <3>2, <4>2 DEF AloneOK
    <3>3. CASE call[c].kind = "set"
      BY <2>1, <2>5, <3>1, <3>3 DEF AloneOK
    <3>4. CASE call[c].kind = "delete"
      BY <2>1, <2>5, <3>1, <3>4 DEF AloneOK
    <3>5. CASE call[c].kind \notin {"set", "delete", "start"}
      BY <3>5
    <3> QED
      BY <3>2, <3>3, <3>4, <3>5
  <2> QED
    BY <2>6 DEF Told
<1>2. IInv => AnswersHold
  BY <1>1 DEF AnswersHold
<1> QED
  BY <1>2, InductiveInvariant, PTL

\* Two Starts give their services the same value of a secret that nobody sets,
\* deletes or rotates (Resolve).
THEOREM SameForAll == SecretsSpec => []StartsAgree
<1>1. ASSUME IInv, ~collided, ~stale, NEW c \in Call, NEW d \in Call,
             call[c].kind = "start", call[d].kind = "start",
             call[c].answer = "ok", call[d].answer = "ok",
             NEW n \in call[c].names \cap call[d].names,
             ~ \E e \in Call : call[e].kind \in {"set", "delete", "rotate"} /\ n \in call[e].names
      PROVE  worker[<<c, "engine">>].mem[n] = worker[<<d, "engine">>].mem[n]
  <2>1. n \in Name /\ Undisturbed(n)
    BY <1>1 DEF IInv, Typed, CallRec, Undisturbed
  <2>2. ASSUME NEW b \in {c, d} PROVE Content[n] = worker[<<b, "engine">>].mem[n]
    <3> DEFINE w == <<b, "engine">>
    <3>1. w \in Worker /\ w[1] = b /\ Kind(w) = "start"
      BY <1>1, <2>2 DEF Worker, Kind
    <3>2. worker[w].pc = "ok"
      BY <1>1, <2>2 DEF IInv, CallOK
    <3>3. WorkerOK(w) /\ StartOK(w) /\ Starting(w)
      BY <1>1, <3>1, <3>2 DEF IInv, Starting
    <3>4. n \in call[w[1]].names \ worker[w].todo
      BY <3>1, <3>2, <3>3 DEF WorkerOK
    <3> HIDE DEF w
    <3>5. Content[n] = worker[w].mem[n]
      BY <2>1, <3>3, <3>4 DEF StartOK
    <3> QED
      BY <3>5 DEF w
  <2> QED
    BY <2>2
<1>2. IInv => StartsAgree
  BY <1>1 DEF StartsAgree
<1> QED
  BY <1>2, InductiveInvariant, PTL
=============================================================================
