--------------------------- MODULE SnapshotsProofs ---------------------------
(***************************************************************************)
(* The properties of Snapshots for every number of commands, ids, volumes, *)
(* files, overlaps and faults: a listed snapshot has the files it was      *)
(* listed with, a Load without a warning puts back all that is owed, and   *)
(* the secrets that are copied and restored stay a pair, each but for what *)
(* the property excludes by name.                                          *)
(***************************************************************************)
EXTENDS Snapshots, TLAPS

WorkerRec == [pc : {"none", "key", "create", "writekey", "load", "work", "write", "ok", "failed"},
              key : Maker \cup {None}, mem : Secret, loaded : Secret \cup {Missing},
              todo : SUBSET Name]
CallRec == [kind : Kinds \cup {None}, names : SUBSET Name, answer : {"none", "ok", "failed"}]

HasKey(w) == worker[w].pc \in {"load", "work", "write"}

\* The secrets are of their types, and a worker belongs to a command.
SecretsTyped ==
  /\ key \in Maker \cup {Missing, Torn}
  /\ store \in Stored \cup {Missing, Torn}
  /\ call \in [Call -> CallRec]
  /\ worker \in [Worker -> WorkerRec]
  /\ deaths \in 0..MaxDeaths /\ collided \in BOOLEAN /\ stale \in BOOLEAN
  /\ \A w \in Worker : HasKey(w) => worker[w].key # None
  /\ \A w \in Worker : worker[w].pc # "none" => Kind(w) # None

\* The control points of each command.
Point ==
  ({"save"} \X {"volumes", "store", "manifest", "listed"})
    \cup ({"load"} \X {"key", "writekey", "restorestore", "writestore", "volumes"})
    \cup ({"delete"} \X {"dir", "unlist"}) \cup ({"gc"} \X {"next", "dir", "unlist"})
    \cup ({"export"} \X {"walk"}) \cup ({"import"} \X {"unpack", "manifest", "listed"})

JobRec ==
  [pc : {"idle", "ok", "failed", "volumes", "store", "manifest", "listed", "key", "writekey",
         "restorestore", "writestore", "dir", "unlist", "next", "walk", "unpack"},
   op : AllOps \cup {None}, id : Snap \cup {None}, man : Manifest \cup {None},
   todo : SUBSET File, read : Content("key") \cup Content("store"), warned : BOOLEAN,
   back : SUBSET File, ids : SUBSET Snap]

FilesTyped ==
  /\ vol \in [Volume -> Data \cup {Missing}]
  /\ dir \in [Snap -> Directory \cup {Missing}]
  /\ manifest \in [Snap -> Manifest \cup {Missing, Torn}]
  /\ tarball \in Tarball \cup {Missing}
  /\ job \in [Job -> JobRec]
  /\ done \in 0..MaxOps /\ overlaps \in 0..MaxOverlaps /\ hurt \subseteq Snap
  /\ pledge \in [Snap -> Directory \cup {Missing}]

\* What a command has in memory: one that ends forgets it, but for a Load.
JobOK(j) ==
  /\ Active(j) => <<job[j].op, job[j].pc>> \in Point
  /\ ~Active(j) => job[j].op \in {"load", None}
  /\ job[j].op = None => job[j].id = None
  /\ job[j].op # "gc" => job[j].ids = {}
  /\ job[j].op \in {"save", "load", "delete", "export", "import"} => job[j].id \in Snap
  /\ job[j].op \in {"save", "load", "import"} => job[j].man \in Manifest
  /\ job[j].op = "save" => job[j].todo \subseteq Volume /\ job[j].todo \cap job[j].man.exported = {}
  /\ job[j].op = "gc" => job[j].id \in job[j].ids \cup {None}
  /\ job[j].op = "gc" /\ job[j].pc # "next" => job[j].id # None
  /\ job[j].op = "gc" /\ job[j].pc = "next" => job[j].id = None
  /\ job[j].pc = "writekey" => job[j].read \in Content("key") \ {Missing}
  /\ job[j].pc = "writestore" => job[j].read \in Content("store") \ {Missing}
  /\ job[j].op = "import" => tarball # Missing /\ tarball.id = job[j].id /\ tarball.man = job[j].man
  /\ job[j].op = "export" => tarball # Missing /\ tarball.id = job[j].id

\* The first manifest of an id is the one of its Save: what is listed, packed, to be
\* imported, loaded or to be collected has had it, an id being saved has not.
PledgeOK ==
  /\ \A i \in Snap : manifest[i] \in Manifest => pledge[i] # Missing
  /\ tarball # Missing => pledge[tarball.id] # Missing
  /\ \A j \in Job : job[j].op = "gc" => \A i \in job[j].ids : pledge[i] # Missing
  /\ \A j \in Job : job[j].op = "load" => pledge[job[j].id] # Missing
  /\ \A j \in Job : job[j].op = "save" => pledge[job[j].id] = Missing
  /\ \A j, k \in Job : job[j].op = "save" /\ job[k].op = "save" /\ job[j].id = job[k].id => j = k

\* Commands that share an id have hurt it.
Sole ==
  \A j, k \in Job, i \in Snap :
    Active(j) /\ Active(k) /\ i \in Touches(j) /\ i \in Touches(k) => j = k \/ i \in hurt

\* The volumes a manifest counts are in the copy.
Good(man, copy) == \A v \in man.exported : copy[v] # Missing

Written(i) ==
  /\ manifest[i] \in Manifest /\ pledge[i] # Missing /\ dir[i] = pledge[i]
  /\ Good(manifest[i], pledge[i])
Gone(i) == manifest[i] = Missing /\ dir[i] = Missing

\* These write the files of their id.
Changes(j, i) == job[j].id = i /\ job[j].op \in {"save", "delete", "gc", "import"}

SettledOK(i) == (\A j \in Job : ~Changes(j, i)) => Written(i) \/ Gone(i)

\* What each command knows of the files of its id, when it has been alone with it.
FilesOK(j) ==
  /\ job[j].op = "save" => dir[job[j].id] # Missing /\ Good(job[j].man, dir[job[j].id])
  /\ job[j].op = "save" /\ job[j].pc \in {"volumes", "store"} => dir[job[j].id]["store"] = Missing
  /\ job[j].op \in {"delete", "gc"} /\ job[j].pc = "unlist" => dir[job[j].id] = Missing
  /\ job[j].op = "import" => tarball.whole
  /\ At(j, "import", "unpack") =>
       \A f \in File \ job[j].todo : Made(dir[job[j].id])[f] = pledge[job[j].id][f]
  /\ job[j].op = "import" /\ job[j].pc \in {"manifest", "listed"} =>
       dir[job[j].id] = pledge[job[j].id]
  /\ job[j].op \in {"load", "export"} /\ Active(j) => Written(job[j].id)
  /\ job[j].op = "load" /\ Active(j) => job[j].man = manifest[job[j].id]

TarballOK ==
  tarball # Missing /\ tarball.id \notin hurt =>
    /\ Good(tarball.man, pledge[tarball.id])
    /\ tarball.whole => tarball.files = pledge[tarball.id]

\* What a Load has put back, and what is left of it.
LoadOK(j) ==
  job[j].op = "load" /\ Mounted /\ ~job[j].warned /\ job[j].id \notin hurt =>
    /\ Active(j) => Owed(j) \subseteq job[j].back \cup job[j].todo
    /\ job[j].pc = "ok" => Owed(j) \subseteq job[j].back

\* The files of the secrets while nobody restores them: see FilesOK of SecretsProofs.
PairOK ==
  /\ key = Torn <=> \E w \in Worker : worker[w].pc = "writekey"
  /\ \A v, w \in Worker : worker[v].pc = "writekey" /\ worker[w].pc = "writekey" => v = w
  /\ \A w \in Worker : HasKey(w) => worker[w].key = key
  /\ store = Torn <=> \E w \in Worker : worker[w].pc = "write"
  /\ \A v, w \in Worker : worker[v].pc = "write" /\ worker[w].pc = "write" => v = w
  /\ store \in Stored => store.by = key

\* The key is this one and stays it, for nobody is making another.
Held(k) ==
  k \in Maker /\ key = k /\ \A w \in Worker : worker[w].pc \notin {"create", "writekey"}

Coherent(copy) == copy["key"] # Missing /\ copy["store"] \in Stored => copy["store"].by = copy["key"]

\* What a Load knows of key and store between its steps.
RestoreOK(j) ==
  LET copy == pledge[job[j].id]
  IN  /\ job[j].pc = "writekey" => job[j].read = copy["key"]
      /\ job[j].pc = "restorestore" => IF copy["key"] = Missing THEN PairOK ELSE Held(copy["key"])
      /\ job[j].pc = "writestore" => Held(copy["key"]) /\ job[j].read = copy["store"]

\* While no two use the secrets at once, one restores them, or they are a pair.
ReadableOK ==
  /\ \A j, k \in Job : Restoring(j) /\ (Restoring(k) \/ At(k, "save", "store")) => j = k
  /\ (\A j \in Job : ~Restoring(j)) => PairOK
  /\ \A j \in Job : job[j].id \notin hurt =>
       /\ Restoring(j) => RestoreOK(j)
       /\ At(j, "save", "store") /\ dir[job[j].id]["key"] # Missing => Held(dir[job[j].id]["key"])
       /\ job[j].op = "save" /\ job[j].pc \in {"manifest", "listed"} => Coherent(dir[job[j].id])
  /\ \A i \in Snap \ hurt : pledge[i] # Missing => Coherent(pledge[i])

\* The inductive invariant.
JobsInv == FilesTyped /\ (\A j \in Job : JobOK(j)) /\ PledgeOK /\ Sole

FilesInv ==
  /\ \A i \in Snap \ hurt : SettledOK(i)
  /\ \A j \in Job : job[j].id \notin hurt => FilesOK(j)
  /\ TarballOK
  /\ \A j \in Job : LoadOK(j)

IInv == SecretsTyped /\ JobsInv /\ FilesInv /\ (~collided /\ ~Cloned => ReadableOK)

-----------------------------------------------------------------------------
(* The steps of the workers on the secrets *)

LEMMA SecretsFacts ==
  /\ Missing # Torn /\ None \notin Maker /\ None \notin Kinds
  /\ Missing \notin Maker /\ Torn \notin Maker /\ Missing \notin Stored /\ Torn \notin Stored
BY SecretsAssumption, ValuesDiffer DEF SecretsAssumption, ValuesDiffer

\* What every step of a worker keeps, and the key that nobody makes anew with it.
Kept ==
  /\ SecretsTyped'
  /\ ~collided' => ~collided
  /\ PairOK /\ ~collided' => PairOK'
  /\ \A k \in Maker : Held(k) => Held(k)'

LEMMA WorkerMoves ==
  ASSUME SecretsTyped, NEW w \in Worker, NEW k \in WorkerRec, worker' = [worker EXCEPT ![w] = k]
  PROVE  /\ worker' \in [Worker -> WorkerRec] /\ worker'[w] = k
         /\ \A v \in Worker \ {w} : worker'[v] = worker[v]
BY DEF SecretsTyped

LEMMA TypesKept ==
  ASSUME SecretsTyped, NEW w \in Worker, NEW k \in WorkerRec, worker' = [worker EXCEPT ![w] = k],
         UNCHANGED call, Kind(w) # None,
         k.pc \in {"load", "work", "write"} => k.key # None,
         key' \in Maker \cup {Missing, Torn}, store' \in Stored \cup {Missing, Torn},
         deaths' \in 0..MaxDeaths, collided' \in BOOLEAN, stale' \in BOOLEAN
  PROVE  SecretsTyped'
<1>1. /\ worker' \in [Worker -> WorkerRec] /\ worker'[w] = k
      /\ \A v \in Worker \ {w} : worker'[v] = worker[v]
  BY WorkerMoves
<1>2. ASSUME NEW v \in Worker
      PROVE  /\ HasKey(v)' => worker'[v].key # None
             /\ worker'[v].pc # "none" => Kind(v)' # None
  <2>1. CASE v = w
    BY <1>1, <2>1 DEF HasKey, Kind
  <2>2. CASE v # w
    BY <1>1, <2>2 DEF SecretsTyped, HasKey, Kind
  <2> QED
    BY <2>1, <2>2
<1> QED
  BY <1>1, <1>2 DEF SecretsTyped

\* A worker that neither cuts nor completes a file.
LEMMA QuietKeeps ==
  ASSUME SecretsTyped, NEW w \in Worker, NEW k \in WorkerRec, worker' = [worker EXCEPT ![w] = k],
         UNCHANGED <<key, store, call>>, Kind(w) # None,
         deaths' \in 0..MaxDeaths, collided' \in BOOLEAN, stale' \in BOOLEAN,
         ~collided' => ~collided /\ worker[w].pc \notin {"writekey", "write"},
         k.pc \notin {"writekey", "write"}, k.pc = "create" => key = Missing,
         k.pc \in {"load", "work"} => k.key # None /\ ((HasKey(w) /\ k.key = worker[w].key) \/ k.key = key)
  PROVE  Kept
<1>1. /\ worker' \in [Worker -> WorkerRec] /\ worker'[w] = k
      /\ \A v \in Worker \ {w} : worker'[v] = worker[v]
  BY WorkerMoves
<1>2. SecretsTyped'
  BY TypesKept DEF SecretsTyped
<1>3. ASSUME PairOK, ~collided' PROVE PairOK'
  <2>1. \A v \in Worker : worker'[v].pc = "writekey" <=> worker[v].pc = "writekey"
    BY <1>1, <1>3
  <2>2. \A v \in Worker : worker'[v].pc = "write" <=> worker[v].pc = "write"
    BY <1>1, <1>3
  <2>3. \A v \in Worker : HasKey(v)' => worker'[v].key = key'
    BY <1>1, <1>3 DEF PairOK, HasKey
  <2> QED
    BY <1>3, <2>1, <2>2, <2>3 DEF PairOK
<1>4. ASSUME NEW m \in Maker, Held(m) PROVE Held(m)'
  <2>1. k.pc \notin {"create", "writekey"}
    BY <1>4, SecretsFacts DEF Held
  <2> QED
    BY <1>1, <1>4, <2>1 DEF Held
<1> QED
  BY <1>2, <1>3, <1>4 DEF Kept

LEMMA EndFacts ==
  ASSUME SecretsTyped, NEW w \in Worker, NEW pc \in {"ok", "failed"}, End(w, pc)
  PROVE  \E k \in WorkerRec : worker' = [worker EXCEPT ![w] = k] /\ k.pc = pc
<1> DEFINE k == [NoWorker EXCEPT !.pc = pc,
                   !.mem = IF Kind(w) = "start" /\ pc = "ok" THEN worker[w].mem ELSE @]
<1>1. NoWorker \in WorkerRec
  BY DEF NoWorker, WorkerRec, NoSecrets, Secret
<1>2. k \in WorkerRec /\ k.pc = pc
  BY <1>1 DEF WorkerRec, SecretsTyped
<1>3. worker' = [worker EXCEPT ![w] = k]
  BY DEF End
<1> QED
  BY <1>2, <1>3

LEMMA EndKeeps ==
  ASSUME SecretsTyped, NEW w \in Worker, NEW pc \in {"ok", "failed"}, End(w, pc),
         UNCHANGED <<key, store, call>>, worker[w].pc # "none",
         deaths' \in 0..MaxDeaths, collided' \in BOOLEAN, stale' \in BOOLEAN,
         ~collided' => ~collided /\ worker[w].pc \notin {"writekey", "write"}
  PROVE  Kept
<1>1. PICK k \in WorkerRec : worker' = [worker EXCEPT ![w] = k] /\ k.pc = pc
  BY EndFacts
<1>2. Kind(w) # None
  BY DEF SecretsTyped
<1> QED
  BY <1>1, <1>2, QuietKeeps

LEMMA ReadKeyKeeps ==
  ASSUME SecretsTyped, NEW w \in Worker, ReadKey(w)
  PROVE  Kept
<1>1. /\ worker[w].pc = "key" /\ UNCHANGED <<key, store, call, deaths, collided, stale>>
      /\ worker[w] \in WorkerRec /\ Kind(w) # None
  BY DEF ReadKey, SecretsTyped
<1>2. CASE key = Missing
  <2> DEFINE k == [worker[w] EXCEPT !.pc = "create"]
  <2>1. k \in WorkerRec /\ k.pc = "create"
    BY <1>1 DEF WorkerRec
  <2>2. worker' = [worker EXCEPT ![w] = k]
    BY <1>2, SecretsFacts DEF ReadKey, Goto
  <2> HIDE DEF k
  <2> QED
    BY <1>1, <1>2, <2>1, <2>2, QuietKeeps DEF SecretsTyped
<1>3. CASE key = Torn
  <2>1. End(w, "failed")
    BY <1>3, SecretsFacts DEF ReadKey
  <2> QED
    BY <1>1, <2>1, EndKeeps DEF SecretsTyped
<1>4. CASE key \notin {Missing, Torn}
  <2> DEFINE k == [worker[w] EXCEPT !.pc = "load", !.key = key]
  <2>1. k \in WorkerRec /\ k.pc = "load" /\ k.key = key
    BY <1>1, <1>4 DEF WorkerRec, SecretsTyped
  <2>2. worker' = [worker EXCEPT ![w] = k]
    BY <1>4 DEF ReadKey, SecretsTyped
  <2>3. key # None
    BY <1>4, SecretsFacts DEF SecretsTyped
  <2> HIDE DEF k
  <2> QED
    BY <1>1, <2>1, <2>2, <2>3, QuietKeeps DEF SecretsTyped
<1> QED
  BY <1>2, <1>3, <1>4

\* The file is emptied: it was not there, so nobody has a key and nothing is stored.
LEMMA CreateKeyKeeps ==
  ASSUME SecretsTyped, NEW w \in Worker, CreateKey(w)
  PROVE  Kept
<1>1. /\ worker[w].pc = "create" /\ worker[w] \in WorkerRec /\ Kind(w) # None
      /\ UNCHANGED <<store, call, deaths, stale>> /\ key' = Torn
      /\ collided' = (collided \/ key # Missing)
  BY DEF CreateKey, SecretsTyped
<1> DEFINE k == [worker[w] EXCEPT !.pc = "writekey"]
<1>2. k \in WorkerRec /\ k.pc = "writekey"
  BY <1>1 DEF WorkerRec
<1>3. worker' = [worker EXCEPT ![w] = k]
  BY DEF CreateKey, Goto
<1> HIDE DEF k
<1>4. /\ worker' \in [Worker -> WorkerRec] /\ worker'[w] = k
      /\ \A v \in Worker \ {w} : worker'[v] = worker[v]
  BY <1>2, <1>3, WorkerMoves
<1>5. SecretsTyped'
  <2>1. collided' \in BOOLEAN
    BY <1>1 DEF SecretsTyped
  <2> QED
    BY <1>1, <1>2, <1>3, <2>1, TypesKept DEF SecretsTyped
<1>6. ASSUME PairOK, ~collided' PROVE PairOK'
  <2>1. key = Missing
    BY <1>1, <1>6 DEF SecretsTyped
  <2>2. \A v \in Worker : ~HasKey(v) /\ worker[v].pc # "writekey"
    BY <1>6, <2>1, SecretsFacts DEF PairOK, SecretsTyped, WorkerRec
  <2>3. store = Missing
    BY <1>6, <2>1, <2>2, SecretsFacts DEF PairOK, SecretsTyped, HasKey, Stored
  <2>4. \A v \in Worker : worker'[v].pc = "writekey" <=> v = w
    BY <1>2, <1>4, <2>2
  <2>5. \A v \in Worker : ~HasKey(v)'
    BY <1>2, <1>4, <2>2 DEF HasKey
  <2> QED
    BY <1>1, <2>3, <2>4, <2>5, SecretsFacts DEF PairOK, HasKey
<1>7. \A m \in Maker : ~Held(m)
  BY <1>1 DEF Held
<1> QED
  BY <1>1, <1>5, <1>6, <1>7 DEF Kept, SecretsTyped

LEMMA WriteKeyKeeps ==
  ASSUME SecretsTyped, NEW w \in Worker, WriteKey(w)
  PROVE  Kept
<1>1. /\ worker[w].pc = "writekey" /\ worker[w] \in WorkerRec /\ Kind(w) # None
      /\ UNCHANGED <<store, call, deaths, collided, stale>> /\ key' = w
      /\ w \in Maker /\ w # None
  BY SecretsFacts DEF WriteKey, SecretsTyped, Maker
<1> DEFINE k == [worker[w] EXCEPT !.pc = "load", !.key = w]
<1>2. k \in WorkerRec /\ k.pc = "load" /\ k.key = w
  BY <1>1 DEF WorkerRec
<1>3. worker' = [worker EXCEPT ![w] = k]
  BY DEF WriteKey, SecretsTyped
<1> HIDE DEF k
<1>4. /\ worker' \in [Worker -> WorkerRec] /\ worker'[w] = k
      /\ \A v \in Worker \ {w} : worker'[v] = worker[v]
  BY <1>2, <1>3, WorkerMoves
<1>5. SecretsTyped'
  BY <1>1, <1>2, <1>3, TypesKept DEF SecretsTyped
<1>6. ASSUME PairOK, ~collided' PROVE PairOK'
  <2>1. key = Torn
    BY <1>1, <1>6 DEF PairOK
  <2>2. \A v \in Worker : ~HasKey(v)
    BY <1>6, <2>1, SecretsFacts DEF PairOK, SecretsTyped, WorkerRec
  <2>3. store = Missing
    BY <1>6, <2>1, <2>2, SecretsFacts DEF PairOK, SecretsTyped, HasKey, Stored
  <2>4. \A v \in Worker : worker'[v].pc # "writekey"
    BY <1>1, <1>2, <1>4, <1>6 DEF PairOK
  <2>5. \A v \in Worker : worker'[v].pc # "write" /\ (HasKey(v)' => v = w)
    BY <1>2, <1>4, <2>2 DEF HasKey
  <2>6. key' # Torn
    BY <1>1, SecretsFacts
  <2> QED
    BY <1>1, <1>2, <1>4, <2>3, <2>4, <2>5, <2>6, SecretsFacts DEF PairOK
<1>7. \A m \in Maker : ~Held(m)
  BY <1>1 DEF Held
<1> QED
  BY <1>1, <1>5, <1>6, <1>7 DEF Kept

LEMMA LoadStoreKeeps ==
  ASSUME SecretsTyped, NEW w \in Worker, LoadStore(w)
  PROVE  Kept
<1>1. /\ worker[w].pc = "load" /\ UNCHANGED <<key, store, call, deaths, collided, stale>>
      /\ worker[w] \in WorkerRec /\ Kind(w) # None /\ worker[w].key # None
  BY DEF LoadStore, SecretsTyped, HasKey
<1>2. CASE store = Missing \/ Decrypt(worker[w].key)
  <2> DEFINE map == IF store = Missing THEN NoSecrets ELSE store.map
             loaded == IF store = Missing THEN Missing ELSE map
             k == [worker[w] EXCEPT !.pc = "work", !.mem = map, !.loaded = loaded]
  <2>1. map \in Secret /\ loaded \in Secret \cup {Missing}
    <3>1. NoSecrets \in Secret
      BY DEF NoSecrets, Secret
    <3>2. store # Missing => store \in Stored
      BY <1>2 DEF Decrypt, SecretsTyped
    <3> QED
      BY <3>1, <3>2 DEF Stored
  <2>2. worker' = [worker EXCEPT ![w].pc = "work", ![w].mem = map, ![w].loaded = loaded]
    BY <1>2 DEF LoadStore
  <2> HIDE DEF map, loaded
  <2>3. k \in WorkerRec /\ k.pc = "work" /\ k.key = worker[w].key
    BY <1>1, <2>1 DEF WorkerRec
  <2>4. worker' = [worker EXCEPT ![w] = k]
    BY <1>1, <2>2 DEF SecretsTyped
  <2> HIDE DEF k
  <2> QED
    BY <1>1, <2>3, <2>4, QuietKeeps DEF SecretsTyped, HasKey
<1>3. CASE ~(store = Missing \/ Decrypt(worker[w].key))
  <2>1. End(w, "failed")
    BY <1>3 DEF LoadStore
  <2> QED
    BY <1>1, <2>1, EndKeeps DEF SecretsTyped
<1> QED
  BY <1>2, <1>3

\* A worker at work cuts the store file short.
LEMMA PutKeeps ==
  ASSUME SecretsTyped, NEW w \in Worker, worker[w].pc = "work", NEW n, NEW entry \in Entry \cup {None},
         Put(w, n, entry), UNCHANGED <<key, call, deaths>>
  PROVE  Kept
<1>1. /\ worker[w] \in WorkerRec /\ Kind(w) # None /\ worker[w].key # None /\ store' = Torn
      /\ collided' = (collided \/ \E v \in Worker \ {w} : worker[v].pc = "write")
      /\ stale' \in BOOLEAN
  BY DEF Put, SecretsTyped, HasKey
<1> DEFINE mem == [worker[w].mem EXCEPT ![n] = entry]
           k == [worker[w] EXCEPT !.pc = "write", !.mem = mem, !.todo = @ \ {n}]
<1>2. mem \in Secret
  BY <1>1 DEF WorkerRec, Secret
<1>3. worker' = [worker EXCEPT ![w] = k]
  BY <1>1 DEF Put, SecretsTyped
<1> HIDE DEF mem
<1>4. k \in WorkerRec /\ k.pc = "write" /\ k.key = worker[w].key
  BY <1>1, <1>2 DEF WorkerRec
<1> HIDE DEF k
<1>5. /\ worker' \in [Worker -> WorkerRec] /\ worker'[w] = k
      /\ \A v \in Worker \ {w} : worker'[v] = worker[v]
  BY <1>3, <1>4, WorkerMoves
<1>6. SecretsTyped'
  <2>1. collided' \in BOOLEAN
    BY <1>1 DEF SecretsTyped
  <2> QED
    BY <1>1, <1>3, <1>4, <2>1, TypesKept DEF SecretsTyped
<1>7. ASSUME PairOK, ~collided' PROVE PairOK'
  <2>1. \A v \in Worker : worker'[v].pc = "write" <=> v = w
    BY <1>1, <1>4, <1>5, <1>7
  <2>2. \A v \in Worker : worker'[v].pc = "writekey" <=> worker[v].pc = "writekey"
    BY <1>4, <1>5
  <2>3. \A v \in Worker : HasKey(v)' => worker'[v].key = key'
    BY <1>4, <1>5, <1>7 DEF PairOK, HasKey
  <2> QED
    BY <1>1, <1>7, <2>1, <2>2, <2>3, SecretsFacts DEF PairOK
<1>8. ASSUME NEW m \in Maker, Held(m) PROVE Held(m)'
  BY <1>4, <1>5, <1>8 DEF Held
<1> QED
  BY <1>1, <1>6, <1>7, <1>8 DEF Kept, SecretsTyped

LEMMA WriteStoreKeeps ==
  ASSUME SecretsTyped, NEW w \in Worker, WriteStore(w)
  PROVE  Kept
<1>1. /\ worker[w].pc = "write" /\ worker[w] \in WorkerRec /\ Kind(w) # None /\ worker[w].key # None
      /\ UNCHANGED <<key, call, deaths, collided, stale>>
  BY DEF WriteStore, SecretsTyped, HasKey
<1> DEFINE written == [by |-> worker[w].key, map |-> worker[w].mem]
<1>2. written \in Stored /\ written.by = worker[w].key
  BY <1>1 DEF Stored, WorkerRec
<1>3. store' = written \/ (store # Torn /\ store' = Torn)
  BY DEF WriteStore
<1> HIDE DEF written
<1>4. PICK k \in WorkerRec :
        worker' = [worker EXCEPT ![w] = k] /\ ((k.pc = "work" /\ k.key = worker[w].key) \/ k.pc = "ok")
  <2>1. CASE Kind(w) = "start"
    <3> DEFINE k == [worker[w] EXCEPT !.pc = "work", !.loaded = worker[w].mem]
    <3>1. k \in WorkerRec /\ k.pc = "work" /\ k.key = worker[w].key
      BY <1>1 DEF WorkerRec
    <3>2. worker' = [worker EXCEPT ![w] = k]
      BY <1>1, <2>1 DEF WriteStore, SecretsTyped
    <3> QED
      BY <3>1, <3>2
  <2>2. CASE Kind(w) # "start"
    BY <2>2, EndFacts DEF WriteStore
  <2> QED
    BY <2>1, <2>2
<1>5. /\ worker' \in [Worker -> WorkerRec] /\ worker'[w] = k
      /\ \A v \in Worker \ {w} : worker'[v] = worker[v]
  BY <1>4, WorkerMoves
<1>6. SecretsTyped'
  BY <1>1, <1>2, <1>3, <1>4, TypesKept DEF SecretsTyped
<1>7. ASSUME PairOK, ~collided' PROVE PairOK'
  <2>1. store = Torn /\ \A v \in Worker : worker[v].pc = "write" => v = w
    BY <1>1, <1>7 DEF PairOK
  <2>2. store' = written /\ written.by = key
    BY <1>1, <1>2, <1>3, <1>7, <2>1 DEF PairOK, HasKey
  <2>3. \A v \in Worker : worker'[v].pc # "write"
    BY <1>4, <1>5, <2>1
  <2>4. \A v \in Worker : worker'[v].pc = "writekey" <=> worker[v].pc = "writekey"
    BY <1>1, <1>4, <1>5
  <2>5. \A v \in Worker : HasKey(v)' => worker'[v].key = key'
    BY <1>1, <1>4, <1>5, <1>7 DEF PairOK, HasKey
  <2>6. store' # Torn
    BY <1>2, <2>2, SecretsFacts
  <2> QED
    BY <1>1, <1>7, <2>2, <2>3, <2>4, <2>5, <2>6 DEF PairOK
<1>8. ASSUME NEW m \in Maker, Held(m) PROVE Held(m)'
  BY <1>1, <1>4, <1>5, <1>8 DEF Held
<1> QED
  BY <1>1, <1>6, <1>7, <1>8 DEF Kept

\* What the commands do between reading the store and writing it.
LEMMA WorkKeeps ==
  ASSUME SecretsTyped, NEW w \in Worker,
         SetSecret(w) \/ DeleteSecret(w) \/ GetSecret(w) \/ RotateSecret(w) \/ ResolveSecret(w) \/ Resolved(w)
  PROVE  Kept
<1>1. /\ worker[w].pc = "work" /\ UNCHANGED <<key, call, deaths>>
      /\ worker[w] \in WorkerRec /\ Kind(w) # None /\ worker[w].key # None
  BY DEF SetSecret, DeleteSecret, GetSecret, RotateSecret, ResolveSecret, Resolved, SecretsTyped, HasKey
<1>2. CASE \E pc \in {"ok", "failed"} : Finish(w, pc)
  <2>1. PICK pc \in {"ok", "failed"} : Finish(w, pc)
    BY <1>2
  <2> QED
    BY <1>1, <2>1, EndKeeps DEF Finish, SecretsTyped
<1>3. CASE \E n, entry : entry \in Entry \cup {None} /\ Put(w, n, entry)
  BY <1>1, <1>3, PutKeeps
<1>4. CASE SetSecret(w)
  <2>1. GivenBy(w) \in Maker
    BY DEF GivenBy, Maker, Worker
  <2>2. [value |-> GivenBy(w), source |-> "manual"] \in Entry
    BY <2>1 DEF Entry
  <2> QED
    BY <1>3, <1>4, <2>2 DEF SetSecret
<1>5. \A got \in Provide(w) : got \in Entry \cup {None}
  BY DEF Provide, Entry, Maker
<1>6. CASE DeleteSecret(w)
  BY <1>2, <1>3, <1>6 DEF DeleteSecret
<1>7. CASE GetSecret(w)
  BY <1>2, <1>7 DEF GetSecret
<1>8. CASE RotateSecret(w)
  BY <1>2, <1>3, <1>5, <1>8 DEF RotateSecret
<1>9. CASE ResolveSecret(w)
  <2>1. PICK n \in worker[w].todo :
          IF FromProvider(worker[w].mem[n])
          THEN /\ worker' = [worker EXCEPT ![w].todo = @ \ {n}]
               /\ UNCHANGED <<store, collided, stale>>
          ELSE \E got \in Provide(w) : IF got = None THEN Finish(w, "failed") ELSE Put(w, n, got)
    BY <1>9 DEF ResolveSecret
  <2>2. CASE FromProvider(worker[w].mem[n])
    <3> DEFINE k == [worker[w] EXCEPT !.todo = @ \ {n}]
    <3>1. k \in WorkerRec /\ k.pc = "work" /\ k.key = worker[w].key
      BY <1>1 DEF WorkerRec
    <3>2. worker' = [worker EXCEPT ![w] = k] /\ UNCHANGED <<store, collided, stale>>
      BY <2>1, <2>2
    <3> HIDE DEF k
    <3> QED
      BY <1>1, <3>1, <3>2, QuietKeeps DEF HasKey, SecretsTyped
  <2>3. CASE ~FromProvider(worker[w].mem[n])
    BY <1>2, <1>3, <1>5, <2>1, <2>3
  <2> QED
    BY <2>2, <2>3
<1>10. CASE Resolved(w)
  BY <1>2, <1>10 DEF Resolved
<1> QED
  BY <1>4, <1>6, <1>7, <1>8, <1>9, <1>10

LEMMA DieKeeps ==
  ASSUME SecretsTyped, NEW w \in Worker, Die(w)
  PROVE  Kept
<1>1. /\ End(w, "failed") /\ UNCHANGED <<key, store, call, stale>>
      /\ worker[w].pc # "none" /\ collided' = (collided \/ worker[w].pc \in {"writekey", "write"})
  BY DEF Die, Running
<1>2. deaths' \in 0..MaxDeaths
  <2>1. deaths \in Nat /\ MaxDeaths \in Nat /\ deaths < MaxDeaths /\ deaths' = deaths + 1
    BY SecretsAssumption DEF Die, SecretsTyped, SecretsAssumption
  <2> QED
    BY <2>1
<1> QED
  BY <1>1, <1>2, EndKeeps DEF SecretsTyped

\* A worker that begins reads the key first.
LEMMA LaunchFacts ==
  ASSUME SecretsTyped, NEW w \in Worker, NEW names \in SUBSET Name, Launch(w, names)
  PROVE  \E k \in WorkerRec : worker' = [worker EXCEPT ![w] = k] /\ k.pc = "key"
<1> DEFINE k == [worker[w] EXCEPT !.pc = "key", !.todo = names]
<1>1. worker[w] \in WorkerRec
  BY DEF SecretsTyped
<1>2. k \in WorkerRec /\ k.pc = "key"
  BY <1>1 DEF WorkerRec
<1>3. worker' = [worker EXCEPT ![w] = k]
  BY DEF Launch, SecretsTyped
<1> QED
  BY <1>2, <1>3

LEMMA FallBackKeeps ==
  ASSUME SecretsTyped, NEW c \in Call, FallBack(c)
  PROVE  Kept
<1> DEFINE w == <<c, "local">>
<1>1. /\ w \in Worker /\ worker[w].pc = "none" /\ Kind(w) # None /\ Launch(w, {})
      /\ UNCHANGED <<key, store, call, deaths, collided, stale>>
  BY DEF FallBack, Worker, Kind
<1> HIDE DEF w
<1>2. PICK k \in WorkerRec : worker' = [worker EXCEPT ![w] = k] /\ k.pc = "key"
  BY <1>1, LaunchFacts
<1> QED
  BY <1>1, <1>2, QuietKeeps DEF SecretsTyped

LEMMA AnswerKeeps ==
  ASSUME SecretsTyped, NEW c \in Call, Answer(c)
  PROVE  Kept
<1>1. PICK a \in {"ok", "failed"} : call' = [call EXCEPT ![c].answer = a]
  BY DEF Answer
<1>2. UNCHANGED <<key, store, worker, deaths, collided, stale>>
  BY DEF Answer
<1>3. call[c] \in CallRec
  BY DEF SecretsTyped
<1> DEFINE r == [call[c] EXCEPT !.answer = a]
<1>4. r \in CallRec /\ r.kind = call[c].kind
  BY <1>3 DEF CallRec
<1>5. call' = [call EXCEPT ![c] = r]
  BY <1>1
<1> HIDE DEF r
<1>6. call' \in [Call -> CallRec] /\ \A d \in Call : call'[d].kind = call[d].kind
  BY <1>4, <1>5 DEF SecretsTyped
<1>7. \A w \in Worker : Kind(w)' = Kind(w)
  BY <1>6 DEF Kind, Worker
<1> QED
  BY <1>2, <1>6, <1>7 DEF Kept, SecretsTyped, HasKey, PairOK, Held

LEMMA AskKeeps ==
  ASSUME SecretsTyped, NEW c \in Call, Ask(c)
  PROVE  Kept
<1>1. PICK kind \in Kinds, names \in (SUBSET Name) \ {{}}, via \in {"engine", "local"} :
        /\ call' = [call EXCEPT ![c].kind = kind, ![c].names = names]
        /\ Launch(<<c, via>>, IF kind = "start" THEN names ELSE {})
  BY DEF Ask
<1>2. UNCHANGED <<key, store, deaths, collided, stale>> /\ call[c].kind = None
  BY DEF Ask
<1>3. call[c] \in CallRec
  BY DEF SecretsTyped
<1> DEFINE r == [call[c] EXCEPT !.kind = kind, !.names = names]
           w == <<c, via>>
<1>4. r \in CallRec /\ r.kind = kind
  BY <1>3 DEF CallRec
<1>5. call' = [call EXCEPT ![c] = r]
  BY <1>1 DEF SecretsTyped
<1> HIDE DEF r
<1>6. call' \in [Call -> CallRec] /\ call'[c].kind = kind
      /\ \A d \in Call \ {c} : call'[d] = call[d]
  BY <1>4, <1>5 DEF SecretsTyped
<1>7. w \in Worker /\ w[1] = c /\ worker[w].pc = "none"
  BY <1>2 DEF SecretsTyped, Worker, Kind
<1>8. PICK k \in WorkerRec : worker' = [worker EXCEPT ![w] = k] /\ k.pc = "key"
  <2>1. (IF kind = "start" THEN names ELSE {}) \in SUBSET Name
    OBVIOUS
  <2> HIDE DEF w
  <2> QED
    BY <1>1, <1>7, <2>1, LaunchFacts DEF w
<1> HIDE DEF w
<1>9. /\ worker' \in [Worker -> WorkerRec] /\ worker'[w] = k
      /\ \A v \in Worker \ {w} : worker'[v] = worker[v]
  BY <1>7, <1>8, WorkerMoves
<1>10. ASSUME NEW v \in Worker
       PROVE  /\ HasKey(v)' => worker'[v].key # None
              /\ worker'[v].pc # "none" => Kind(v)' # None
              /\ worker'[v].pc \in {"create", "writekey", "load", "work", "write"} => worker'[v] = worker[v]
              /\ worker[v].pc \in {"create", "writekey", "load", "work", "write"} => worker'[v] = worker[v]
  <2>1. CASE v = w
    BY <1>6, <1>7, <1>8, <1>9, <2>1, SecretsFacts DEF HasKey, Kind
  <2>2. CASE v # w
    <3>1. v[1] \in Call /\ worker'[v] = worker[v]
      BY <1>9, <2>2 DEF Worker
    <3>2. Kind(v) # None => Kind(v)' # None
      BY <1>2, <1>6, <3>1 DEF Kind
    <3> QED
      BY <3>1, <3>2 DEF SecretsTyped, HasKey
  <2> QED
    BY <2>1, <2>2
<1>11. SecretsTyped'
  BY <1>2, <1>6, <1>9, <1>10 DEF SecretsTyped
<1>12. PairOK => PairOK'
  <2>1. \A v \in Worker : worker'[v].pc = "writekey" <=> worker[v].pc = "writekey"
    BY <1>10
  <2>2. \A v \in Worker : worker'[v].pc = "write" <=> worker[v].pc = "write"
    BY <1>10
  <2>3. \A v \in Worker : HasKey(v)' => HasKey(v) /\ worker'[v] = worker[v]
    BY <1>10 DEF HasKey
  <2> QED
    BY <1>2, <2>1, <2>2, <2>3 DEF PairOK
<1>13. \A m \in Maker : Held(m) => Held(m)'
  BY <1>2, <1>10 DEF Held
<1> QED
  BY <1>2, <1>11, <1>12, <1>13 DEF Kept

LEMMA SecretsStepKeeps ==
  ASSUME SecretsTyped, SecretsStep \/ \E c \in Call : Ask(c)
  PROVE  Kept
<1>1. ASSUME NEW w \in Worker, Access(w) PROVE Kept
  BY <1>1, ReadKeyKeeps, CreateKeyKeeps, WriteKeyKeeps, LoadStoreKeeps, WriteStoreKeeps, WorkKeeps DEF Access
<1> QED
  BY <1>1, DieKeeps, FallBackKeeps, AnswerKeeps, AskKeeps DEF SecretsStep

-----------------------------------------------------------------------------
(* Directories *)

LEMMA FileFacts ==
  /\ "key" \notin Volume /\ "store" \notin Volume /\ None \notin Snap /\ None \notin AllOps
  /\ \A file \in {Missing, Torn} :
       file \notin Version /\ file \notin Data /\ file \notin Directory /\ file \notin Manifest /\ file \notin Tarball
BY FilesDiffer DEF FilesDiffer

LEMMA ContentFacts ==
  /\ Content("key") = {Missing, Torn} \cup Maker
  /\ Content("store") = {Missing, Torn} \cup Stored
  /\ \A v \in Volume : Content(v) = {Missing, Torn} \cup Data
<1>1. \A v \in Volume : v # "key" /\ v # "store"
  BY FileFacts
<1> QED
  BY <1>1 DEF Content

LEMMA DirectoryFacts ==
  /\ \A d \in Directory, f \in File : d[f] \in Content(f)
  /\ \A d \in Directory, f \in File : \A x \in Content(f) :
       /\ [d EXCEPT ![f] = x] \in Directory
       /\ [d EXCEPT ![f] = x][f] = x
       /\ \A g \in File \ {f} : [d EXCEPT ![f] = x][g] = d[g]
  /\ NoFiles \in Directory /\ \A f \in File : NoFiles[f] = Missing
<1>1. \A f \in File : Missing \in Content(f)
  BY DEF Content
<1>2. \A f \in File : Content(f) \subseteq UNION {Content(g) : g \in File}
  OBVIOUS
<1> DEFINE U == UNION {Content(g) : g \in File}
<1>3. Directory = {d \in [File -> U] : \A f \in File : d[f] \in Content(f)}
  BY DEF Directory
<1> HIDE DEF U
<1>4. ASSUME NEW d \in Directory, NEW f \in File, NEW x \in Content(f)
      PROVE  /\ [d EXCEPT ![f] = x] \in Directory
             /\ [d EXCEPT ![f] = x][f] = x
             /\ \A g \in File \ {f} : [d EXCEPT ![f] = x][g] = d[g]
  <2>1. x \in U /\ d \in [File -> U] /\ \A g \in File : d[g] \in Content(g)
    BY <1>2, <1>3, <1>4 DEF U
  <2>2. /\ [d EXCEPT ![f] = x] \in [File -> U]
        /\ [d EXCEPT ![f] = x][f] = x
        /\ \A g \in File \ {f} : [d EXCEPT ![f] = x][g] = d[g]
    BY <2>1
  <2>3. \A g \in File : [d EXCEPT ![f] = x][g] \in Content(g)
    BY <2>1, <2>2
  <2> QED
    BY <1>3, <2>2, <2>3
<1>5. NoFiles \in Directory
  <2>1. NoFiles \in [File -> U]
    BY <1>1, <1>2 DEF NoFiles, U
  <2> QED
    BY <1>1, <1>3, <2>1 DEF NoFiles
<1>6. \A d \in Directory, f \in File : d[f] \in Content(f)
  BY <1>3
<1> QED
  BY <1>4, <1>5, <1>6 DEF NoFiles

\* Two copies with the same files are the same.
LEMMA SameFiles ==
  ASSUME NEW d \in Directory, NEW e \in Directory, \A f \in File : d[f] = e[f]
  PROVE  d = e
<1> DEFINE U == UNION {Content(g) : g \in File}
<1>1. d \in [File -> U] /\ e \in [File -> U]
  BY DEF Directory
<1> HIDE DEF U
<1> QED
  BY <1>1

LEMMA MadeFacts ==
  ASSUME NEW d \in Directory \cup {Missing}
  PROVE  /\ Made(d) \in Directory /\ (d # Missing => Made(d) = d)
         /\ \A f \in File : \A x \in Content(f) :
              /\ Laid(d, f, x) \in Directory /\ Laid(d, f, x)[f] = x
              /\ \A g \in File \ {f} : Laid(d, f, x)[g] = Made(d)[g]
<1>1. Made(d) \in Directory /\ (d # Missing => Made(d) = d)
  BY DirectoryFacts DEF Made
<1> QED
  BY <1>1, DirectoryFacts DEF Laid

-----------------------------------------------------------------------------
(* One command moves on *)

LEMMA JobMoves ==
  ASSUME FilesTyped, NEW j \in Job, NEW r \in JobRec, job' = [job EXCEPT ![j] = r]
  PROVE  /\ job' \in [Job -> JobRec] /\ job'[j] = r
         /\ \A k \in Job \ {j} : job'[k] = job[k]
BY DEF FilesTyped

\* The files of every id but this one stay as they are, and a pledge is for ever.
Elsewhere(i) ==
  /\ \A a \in Snap \ {i} : dir'[a] = dir[a] /\ manifest'[a] = manifest[a] /\ pledge'[a] = pledge[a]
  /\ \A a \in Snap : pledge[a] # Missing => pledge'[a] = pledge[a]

\* What the other commands rely on of the tarball.
TarballStays(j) ==
  \A k \in Job \ {j} : job[k].op \in {"import", "export"} =>
    \/ UNCHANGED tarball
    \/ /\ tarball' # Missing /\ tarball'.id = tarball.id /\ tarball'.man = tarball.man
       /\ tarball.whole => tarball'.whole \/ job[k].op = "export" \/ job[k].id \in hurt'

\* Nobody else is at work on this id, or it is hurt.
Unshared(j, i) == \A k \in Job \ {j} : Active(k) /\ job[k].id = i => i \notin Snap \/ i \in hurt'

\* What the others know stays true.
LEMMA OthersKeep ==
  ASSUME JobsInv, FilesInv, NEW j \in Job, NEW r \in JobRec, job' = [job EXCEPT ![j] = r],
         NEW i, Elsewhere(i), Unshared(j, i), TarballStays(j), hurt \subseteq hurt'
  PROVE  \A k \in Job \ {j} :
           JobOK(k)' /\ (job'[k].id \notin hurt' => FilesOK(k)') /\ LoadOK(k)'
<1>1. SUFFICES ASSUME NEW k \in Job \ {j}
               PROVE  JobOK(k)' /\ (job'[k].id \notin hurt' => FilesOK(k)') /\ LoadOK(k)'
  OBVIOUS
<1>2. job'[k] = job[k] /\ JobOK(k) /\ LoadOK(k)
  BY JobMoves DEF JobsInv, FilesInv
<1>3. JobOK(k)'
  BY <1>2 DEF JobOK, Active, TarballStays
<1>4. LoadOK(k)'
  <2>1. CASE job[k].op = "load"
    <3>1. job[k].id \in Snap /\ pledge[job[k].id] # Missing
      BY <1>2, <2>1 DEF JobOK, JobsInv, PledgeOK
    <3>2. pledge'[job[k].id] = pledge[job[k].id]
      BY <3>1 DEF Elsewhere
    <3>3. Owed(k)' = Owed(k)
      BY <1>2, <3>2 DEF Owed
    <3> QED
      BY <1>2, <3>3 DEF LoadOK, Active
  <2>2. CASE job[k].op # "load"
    BY <1>2, <2>2 DEF LoadOK
  <2> QED
    BY <2>1, <2>2
<1>5. ASSUME job[k].id \notin hurt' PROVE FilesOK(k)'
  <2>1. FilesOK(k)
    BY <1>5 DEF FilesInv
  <2>2. CASE Active(k) /\ job[k].id \in Snap
    <3>1. job[k].id # i
      BY <1>5, <2>2 DEF Unshared
    <3>2. PICK a \in Snap : a = job[k].id
      BY <2>2
    <3>3. dir'[a] = dir[a] /\ manifest'[a] = manifest[a] /\ pledge'[a] = pledge[a]
      BY <3>1, <3>2 DEF Elsewhere
    <3>4. job[k].op = "import" => tarball'.whole
      BY <1>5, <2>1, FileFacts DEF FilesOK, TarballStays, AllOps
    <3> QED
      BY <1>2, <2>1, <3>2, <3>3, <3>4 DEF FilesOK, At, Active, Written
  <2>3. CASE ~Active(k) \/ job[k].id \notin Snap
    <3>1. job[k].op \notin {"save", "delete", "export", "import"}
      BY <1>2, <2>3, FileFacts DEF JobOK, AllOps
    <3>2. job[k].op = "gc" => job[k].pc # "unlist"
      <4>1. job[k].id \in Snap \cup {None}
        BY DEF JobsInv, FilesTyped, JobRec
      <4> QED
        BY <1>2, <2>3, <4>1 DEF JobOK, Active
    <3>3. ~(job[k].op = "load" /\ Active(k))
      BY <1>2, <2>3 DEF JobOK
    <3> QED
      BY <1>2, <3>1, <3>2, <3>3 DEF FilesOK, At, Active
  <2> QED
    BY <2>2, <2>3
<1> QED
  BY <1>2, <1>3, <1>4, <1>5

\* The ids nobody works on stay as they are.
LEMMA SettledKeep ==
  ASSUME JobsInv, FilesInv, NEW j \in Job, NEW r \in JobRec, job' = [job EXCEPT ![j] = r],
         NEW i, Elsewhere(i), hurt \subseteq hurt',
         job[j].op \in {"save", "delete", "gc", "import"} =>
           job[j].id \in {i, None} \cup hurt' \/ (r.id = job[j].id /\ r.op = job[j].op)
  PROVE  \A a \in Snap \ hurt' : a # i => SettledOK(a)'
<1>1. SUFFICES ASSUME NEW a \in Snap \ hurt', a # i, \A k \in Job : ~Changes(k, a)'
               PROVE  (Written(a) \/ Gone(a))'
  BY DEF SettledOK
<1>2. job'[j] = r /\ \A k \in Job \ {j} : job'[k] = job[k]
  BY JobMoves DEF JobsInv
<1>3. \A k \in Job \ {j} : ~Changes(k, a)
  BY <1>1, <1>2 DEF Changes
<1>4. ~Changes(j, a)
  BY <1>1, <1>2, FileFacts DEF Changes
<1>5. SettledOK(a)
  BY <1>1 DEF FilesInv
<1>6. Written(a) \/ Gone(a)
  BY <1>3, <1>4, <1>5 DEF SettledOK
<1>7. dir'[a] = dir[a] /\ manifest'[a] = manifest[a] /\ pledge'[a] = pledge[a]
  BY <1>1 DEF Elsewhere
<1> QED
  BY <1>6, <1>7 DEF Written, Gone

LEMMA PledgeKeeps ==
  ASSUME JobsInv, NEW j \in Job, NEW r \in JobRec, job' = [job EXCEPT ![j] = r],
         \A a \in Snap : pledge'[a] # pledge[a] =>
           /\ pledge'[a] # Missing
           /\ \A k \in Job \ {j} : ~(job[k].op = "save" /\ job[k].id = a),
         \A a \in Snap : manifest'[a] \in Manifest => manifest[a] \in Manifest \/ pledge'[a] # Missing,
         tarball' # Missing => pledge'[tarball'.id] # Missing,
         r.op = "gc" => \A a \in r.ids : pledge'[a] # Missing,
         r.op = "load" => pledge'[r.id] # Missing,
         r.op = "save" => /\ pledge'[r.id] = Missing
                          /\ \A k \in Job \ {j} : job[k].op = "save" => job[k].id # r.id
  PROVE  PledgeOK'
<1>1. job' \in [Job -> JobRec] /\ job'[j] = r /\ \A k \in Job \ {j} : job'[k] = job[k]
  BY JobMoves DEF JobsInv
<1>2. PledgeOK /\ \A k \in Job : JobOK(k)
  BY DEF JobsInv
<1>3. \A a \in Snap : pledge[a] # Missing => pledge'[a] # Missing
  OBVIOUS
<1>4. \A a \in Snap : manifest'[a] \in Manifest => pledge'[a] # Missing
  BY <1>2, <1>3 DEF PledgeOK
<1>5. ASSUME NEW k \in Job, job'[k].op = "gc", NEW a \in job'[k].ids PROVE pledge'[a] # Missing
  <2>1. CASE k = j
    BY <1>1, <1>5, <2>1
  <2>2. CASE k # j
    <3>1. job[k].op = "gc" /\ a \in job[k].ids /\ a \in Snap
      BY <1>1, <1>5, <2>2 DEF JobRec
    <3> QED
      BY <1>2, <1>3, <3>1 DEF PledgeOK
  <2> QED
    BY <2>1, <2>2
<1>6. ASSUME NEW k \in Job, job'[k].op = "save" PROVE pledge'[job'[k].id] = Missing
  <2>1. CASE k = j
    BY <1>1, <1>6, <2>1
  <2>2. CASE k # j
    <3>1. job'[k] = job[k] /\ job[k].id \in Snap /\ pledge[job[k].id] = Missing
      BY <1>1, <1>2, <1>6, <2>2 DEF PledgeOK, JobOK
    <3> QED
      BY <1>6, <2>2, <3>1
  <2> QED
    BY <2>1, <2>2
<1>7. ASSUME NEW k \in Job, NEW l \in Job, job'[k].op = "save", job'[l].op = "save",
             job'[k].id = job'[l].id
      PROVE  k = l
  BY <1>1, <1>2, <1>7 DEF PledgeOK
<1>8. ASSUME NEW k \in Job, job'[k].op = "load" PROVE pledge'[job'[k].id] # Missing
  <2>1. CASE k = j
    BY <1>1, <1>8, <2>1
  <2>2. CASE k # j
    <3>1. job'[k] = job[k] /\ job[k].id \in Snap /\ pledge[job[k].id] # Missing
      BY <1>1, <1>2, <1>8, <2>2 DEF PledgeOK, JobOK
    <3> QED
      BY <1>3, <3>1
  <2> QED
    BY <2>1, <2>2
<1> QED
  BY <1>4, <1>5, <1>6, <1>7, <1>8 DEF PledgeOK

\* A command that goes on touches what it touched, or less.
LEMMA SoleKeeps ==
  ASSUME JobsInv, NEW j \in Job, NEW r \in JobRec, job' = [job EXCEPT ![j] = r], hurt \subseteq hurt',
         r.pc \notin {"idle", "ok", "failed"} =>
           Active(j) /\ ({r.id} \cup r.ids) \cap Snap \subseteq Touches(j)
  PROVE  Sole'
<1>1. job'[j] = r /\ \A k \in Job \ {j} : job'[k] = job[k]
  BY JobMoves DEF JobsInv
<1>2. ASSUME NEW k \in Job, Active(k)' PROVE Active(k) /\ \A i \in Snap : i \in Touches(k)' => i \in Touches(k)
  BY <1>1, <1>2 DEF Active, Touches
<1> QED
  BY <1>2 DEF Sole, JobsInv

\* A command that begins hurts the ids that others are working on.
LEMMA SoleBegins ==
  ASSUME JobsInv, NEW j \in Job, NEW r \in JobRec, job' = [job EXCEPT ![j] = r], hurt \subseteq hurt',
         Overlaps({r.id} \cup r.ids) \cap Snap \subseteq hurt', ~Active(j)
  PROVE  Sole'
<1>1. job'[j] = r /\ \A k \in Job \ {j} : job'[k] = job[k]
  BY JobMoves DEF JobsInv
<1>2. ASSUME NEW k \in Job \ {j}, Active(k), NEW i \in Snap, i \in Touches(k), i \in {r.id} \cup r.ids
      PROVE  i \in hurt'
  BY <1>2 DEF Overlaps
<1>3. ASSUME NEW k \in Job \ {j}, Active(k)' PROVE Active(k) /\ Touches(k)' = Touches(k)
  BY <1>1, <1>3 DEF Active, Touches
<1>4. Touches(j)' = {r.id} \cup r.ids
  BY <1>1 DEF Touches
<1> QED
  BY <1>2, <1>3, <1>4 DEF Sole, JobsInv

\* A command that neither restores the secrets nor is between their two copies.
LEMMA ReadableKeeps ==
  ASSUME JobsInv, ReadableOK, NEW j \in Job, NEW r \in JobRec, job' = [job EXCEPT ![j] = r],
         NEW i, Elsewhere(i), Unshared(j, i), hurt \subseteq hurt',
         PairOK => PairOK', \A m \in Maker : Held(m) => Held(m)',
         r.pc \notin {"writekey", "restorestore", "writestore"}, ~Restoring(j),
         ~(r.op = "save" /\ r.pc = "store"),
         r.op = "save" /\ r.pc \in {"manifest", "listed"} /\ r.id \notin hurt' => Coherent(dir'[r.id]),
         i \in Snap \ hurt' /\ pledge'[i] # Missing => Coherent(pledge'[i])
  PROVE  ReadableOK'
<1>1. job' \in [Job -> JobRec] /\ job'[j] = r /\ \A k \in Job \ {j} : job'[k] = job[k]
  BY JobMoves DEF JobsInv
<1>2. ~Restoring(j)' /\ ~At(j, "save", "store")'
  BY <1>1 DEF Restoring, At
<1>3. \A k \in Job \ {j} : (Restoring(k)' <=> Restoring(k)) /\ (At(k, "save", "store")' <=> At(k, "save", "store"))
  BY <1>1 DEF Restoring, At
<1>4. \A k, l \in Job : Restoring(k)' /\ (Restoring(l)' \/ At(l, "save", "store")') => k = l
  <2>1. \A k, l \in Job : Restoring(k) /\ (Restoring(l) \/ At(l, "save", "store")) => k = l
    BY DEF ReadableOK
  <2> QED
    BY <1>2, <1>3, <2>1
<1>5. (\A k \in Job : ~Restoring(k)') => PairOK'
  <2>1. (\A k \in Job : ~Restoring(k)) => PairOK
    BY DEF ReadableOK
  <2> QED
    BY <1>3, <2>1
<1>6. ASSUME NEW k \in Job, job'[k].id \notin hurt'
      PROVE  /\ Restoring(k)' => RestoreOK(k)'
             /\ At(k, "save", "store")' /\ dir'[job'[k].id]["key"] # Missing => Held(dir[job[k].id]["key"])'
             /\ job'[k].op = "save" /\ job'[k].pc \in {"manifest", "listed"} => Coherent(dir'[job'[k].id])
  <2>1. CASE k = j
    BY <1>1, <1>2, <1>6, <2>1
  <2>2. CASE k # j
    <3>1. job'[k] = job[k] /\ JobOK(k) /\ job[k].id \notin hurt
      BY <1>1, <1>6, <2>2 DEF JobsInv
    <3>2. ASSUME Restoring(k) \/ job[k].op = "save"
          PROVE  /\ job[k].id \in Snap /\ dir'[job[k].id] = dir[job[k].id]
                 /\ pledge'[job[k].id] = pledge[job[k].id]
      <4>1. Active(k) /\ job[k].id \in Snap
        <5>1. CASE Restoring(k)
          BY <3>1, <5>1 DEF JobOK, Active, Restoring, Point
        <5>2. CASE job[k].op = "save"
          BY <3>1, <5>2, FileFacts DEF JobOK, AllOps
        <5> QED
          BY <3>2, <5>1, <5>2
      <4>2. job[k].id # i
        BY <1>6, <2>2, <3>1, <4>1 DEF Unshared
      <4> QED
        BY <4>1, <4>2 DEF Elsewhere
    <3>3. /\ Restoring(k) => RestoreOK(k)
          /\ At(k, "save", "store") /\ dir[job[k].id]["key"] # Missing => Held(dir[job[k].id]["key"])
          /\ job[k].op = "save" /\ job[k].pc \in {"manifest", "listed"} => Coherent(dir[job[k].id])
      BY <3>1 DEF ReadableOK
    <3>4. ASSUME Restoring(k) PROVE RestoreOK(k)'
      <4>1. PICK a \in Snap : a = job[k].id
        BY <3>2, <3>4
      <4>2. PICK copy : copy = pledge[a]
        OBVIOUS
      <4>3. copy = pledge'[a] /\ job'[k].id = a
        BY <3>1, <3>2, <3>4, <4>1, <4>2
      <4>4. Held(copy["key"]) => Held(copy["key"])'
        BY DEF Held
      <4>5. /\ job[k].pc = "writekey" => job[k].read = copy["key"]
            /\ job[k].pc = "restorestore" => IF copy["key"] = Missing THEN PairOK ELSE Held(copy["key"])
            /\ job[k].pc = "writestore" => Held(copy["key"]) /\ job[k].read = copy["store"]
        BY <3>3, <3>4, <4>1, <4>2 DEF RestoreOK
      <4>6. /\ job'[k].pc = "writekey" => job'[k].read = copy["key"]
            /\ job'[k].pc = "restorestore" => IF copy["key"] = Missing THEN PairOK' ELSE Held(copy["key"])'
            /\ job'[k].pc = "writestore" => Held(copy["key"])' /\ job'[k].read = copy["store"]
        BY <3>1, <4>4, <4>5
      <4>7. copy["key"] = pledge'[job'[k].id]["key"] /\ copy["store"] = pledge'[job'[k].id]["store"]
        BY <4>3
      <4> QED
        BY <4>6, <4>7 DEF RestoreOK, Held
    <3>5. ASSUME At(k, "save", "store"), dir'[job[k].id]["key"] # Missing
          PROVE  Held(dir[job[k].id]["key"])'
      <4>1. PICK m : m = dir[job[k].id]["key"]
        OBVIOUS
      <4>2. m = dir'[job'[k].id]["key"]
        BY <3>1, <3>2, <3>5, <4>1 DEF At
      <4>3. Held(m)
        BY <3>1, <3>3, <3>5, <4>1, <4>2
      <4>4. Held(m)'
        BY <4>3 DEF Held
      <4> QED
        BY <4>2, <4>4 DEF Held
    <3> QED
      BY <1>3, <2>2, <3>1, <3>2, <3>3, <3>4, <3>5
  <2> QED
    BY <2>1, <2>2
<1>7. \A a \in Snap \ hurt' : pledge'[a] # Missing => Coherent(pledge'[a])
  <2>1. \A a \in Snap \ hurt : pledge[a] # Missing => Coherent(pledge[a])
    BY DEF ReadableOK
  <2>2. \A a \in Snap \ {i} : pledge'[a] = pledge[a]
    BY DEF Elsewhere
  <2> QED
    BY <2>1, <2>2
<1> QED
  BY <1>4, <1>5, <1>6, <1>7 DEF ReadableOK

-----------------------------------------------------------------------------
(* The steps of workers, users and services *)

LEMMA TogetherFacts ==
  ASSUME FilesTyped, Together
  PROVE  done' \in 0..MaxOps /\ done' = done + 1 /\ overlaps' \in 0..MaxOverlaps
<1>1. MaxOps \in Nat /\ MaxOverlaps \in Nat
  BY SnapshotsAssumption DEF SnapshotsAssumption
<1>2. done' \in 0..MaxOps /\ done' = done + 1
  BY <1>1 DEF Together, FilesTyped
<1>3. overlaps' = overlaps \/ (overlaps < MaxOverlaps /\ overlaps' = overlaps + 1)
  BY DEF Together
<1> QED
  BY <1>1, <1>2, <1>3 DEF FilesTyped

LEMMA SecretsKeep ==
  ASSUME IInv, SecretsStep \/ \E c \in Call : Ask(c),
         UNCHANGED <<vol, dir, manifest, tarball, job, hurt, pledge>>,
         done' \in 0..MaxOps, overlaps' \in 0..MaxOverlaps
  PROVE  IInv'
<1>1. Kept
  BY SecretsStepKeeps DEF IInv
<1>2. JobsInv'
  <2>1. FilesTyped' /\ \A j \in Job : JobOK(j)'
    BY DEF IInv, JobsInv, FilesTyped, JobOK, Active
  <2>2. PledgeOK' /\ Sole'
    BY DEF IInv, JobsInv, PledgeOK, Sole, Active, Touches
  <2> QED
    BY <2>1, <2>2 DEF JobsInv
<1>3. FilesInv'
  BY DEF IInv, FilesInv, SettledOK, Changes, Written, Gone, FilesOK, At, Active, TarballOK, LoadOK, Owed
<1>4. ASSUME ~collided', ~Cloned PROVE ReadableOK'
  <2>1. ReadableOK /\ (PairOK => PairOK') /\ \A m \in Maker : Held(m) => Held(m)'
    BY <1>1, <1>4 DEF IInv, Kept
  <2>2. \A j \in Job : (Restoring(j)' <=> Restoring(j)) /\ (At(j, "save", "store")' <=> At(j, "save", "store"))
    BY DEF Restoring, At
  <2>3. ASSUME NEW j \in Job, job[j].id \notin hurt, Restoring(j) PROVE RestoreOK(j)'
    <3>1. RestoreOK(j)
      BY <2>1, <2>3 DEF ReadableOK
    <3>2. \A m : Held(m) => Held(m)'
      BY <2>1 DEF Held
    <3>3. PICK m : m = pledge[job[j].id]["key"]
      OBVIOUS
    <3>4. Held(m) => Held(m)'
      BY <3>2
    <3> QED
      BY <2>1, <3>1, <3>3, <3>4 DEF RestoreOK, Held
  <2>4. ASSUME NEW j \in Job, job[j].id \notin hurt, At(j, "save", "store"), dir[job[j].id]["key"] # Missing
        PROVE  Held(dir[job[j].id]["key"])'
    <3>1. PICK m : m = dir[job[j].id]["key"]
      OBVIOUS
    <3>2. Held(m)
      BY <2>1, <2>4, <3>1 DEF ReadableOK
    <3>3. Held(m)'
      BY <2>1, <3>2 DEF Held
    <3> QED
      BY <3>1, <3>3 DEF Held
  <2> QED
    BY <2>1, <2>2, <2>3, <2>4 DEF ReadableOK
<1> QED
  BY <1>1, <1>2, <1>3, <1>4 DEF IInv, Kept

\* The step of a command, from what it leaves to itself and to its id.
LEMMA JobStep ==
  ASSUME IInv, NEW j \in Job, NEW r \in JobRec, job' = [job EXCEPT ![j] = r],
         NEW i, Elsewhere(i), Unshared(j, i), TarballStays(j), hurt \subseteq hurt',
         job[j].op \in {"save", "delete", "gc", "import"} =>
           job[j].id \in {i, None} \cup hurt' \/ (r.id = job[j].id /\ r.op = job[j].op),
         SecretsTyped', FilesTyped', JobOK(j)', PledgeOK', Sole',
         i \in Snap \ hurt' => SettledOK(i)',
         r.id \notin hurt' => FilesOK(j)', TarballOK', LoadOK(j)',
         ~collided' /\ ~Cloned => ReadableOK'
  PROVE  IInv'
<1>1. JobsInv /\ FilesInv
  BY DEF IInv
<1>2. job'[j] = r
  BY <1>1, JobMoves DEF JobsInv
<1>3. \A k \in Job \ {j} : JobOK(k)' /\ (job'[k].id \notin hurt' => FilesOK(k)') /\ LoadOK(k)'
  BY <1>1, OthersKeep
<1>4. \A a \in Snap \ hurt' : a # i => SettledOK(a)'
  BY <1>1, SettledKeep
<1>5. ASSUME NEW a \in Snap \ hurt' PROVE SettledOK(a)'
  <2>1. CASE a = i
    <3>1. SettledOK(i)'
      BY <1>5, <2>1
    <3>2. SettledOK(a)' <=> SettledOK(i)'
      BY <2>1 DEF SettledOK, Changes, Written, Gone
    <3> QED
      BY <3>1, <3>2
  <2> QED
    BY <1>4, <1>5, <2>1
<1>6. \A k \in Job : JobOK(k)'
  BY <1>3
<1>7. ASSUME NEW k \in Job, job'[k].id \notin hurt' PROVE FilesOK(k)'
  BY <1>2, <1>3, <1>7
<1>8. \A k \in Job : LoadOK(k)'
  BY <1>3
<1>9. JobsInv'
  BY <1>6 DEF JobsInv
<1>10. FilesInv'
  BY <1>5, <1>7, <1>8 DEF FilesInv
<1> QED
  BY <1>9, <1>10 DEF IInv

\* The same for a command that leaves the secrets alone.
LEMMA QuietJobStep ==
  ASSUME IInv, NEW j \in Job, NEW r \in JobRec, job' = [job EXCEPT ![j] = r],
         NEW i, Elsewhere(i), Unshared(j, i), TarballStays(j), hurt \subseteq hurt',
         job[j].op \in {"save", "delete", "gc", "import"} =>
           job[j].id \in {i, None} \cup hurt' \/ (r.id = job[j].id /\ r.op = job[j].op),
         UNCHANGED secretsVars, FilesTyped', JobOK(j)', PledgeOK', Sole',
         i \in Snap \ hurt' => SettledOK(i)',
         r.id \notin hurt' => FilesOK(j)', TarballOK', LoadOK(j)',
         r.pc \notin {"writekey", "restorestore", "writestore"}, ~Restoring(j),
         ~(r.op = "save" /\ r.pc = "store"),
         ~collided /\ ~Cloned =>
           /\ r.op = "save" /\ r.pc \in {"manifest", "listed"} /\ r.id \notin hurt' => Coherent(dir'[r.id])
           /\ i \in Snap \ hurt' /\ pledge'[i] # Missing => Coherent(pledge'[i])
  PROVE  IInv'
<1>1. JobsInv
  BY DEF IInv
<1>2. /\ UNCHANGED <<key, store, call, worker, deaths, collided, stale>>
  BY DEF secretsVars
<1>3. SecretsTyped'
  BY <1>2 DEF IInv, SecretsTyped, HasKey, Kind
<1>4. PairOK => PairOK'
  BY <1>2 DEF PairOK, HasKey
<1>5. \A m \in Maker : Held(m) => Held(m)'
  BY <1>2 DEF Held
<1>6. ASSUME ~collided', ~Cloned PROVE ReadableOK'
  <2>1. ReadableOK /\ ~collided
    BY <1>2, <1>6 DEF IInv
  <2> QED
    BY <1>1, <1>4, <1>5, <1>6, <2>1, ReadableKeeps
<1> QED
  BY <1>3, <1>6, JobStep

LEMMA IdleFacts ==
  /\ Idle \in JobRec /\ Idle.pc = "idle" /\ Idle.op = None /\ Idle.id = None /\ Idle.man = None
  /\ Idle.todo = {} /\ Idle.warned = FALSE /\ Idle.back = {} /\ Idle.ids = {}
<1>1. Missing \in Content("key")
  BY ContentFacts
<1> QED
  BY <1>1 DEF Idle, JobRec

LEMMA BeginFacts ==
  ASSUME FilesTyped, NEW j \in Job, NEW op \in AllOps, NEW id \in Snap \cup {None}, NEW rec \in JobRec,
         Begins(j, op, id, rec)
  PROVE  \E r \in JobRec :
           /\ job' = [job EXCEPT ![j] = r] /\ r.op = op /\ r.id = id /\ r.pc = rec.pc
           /\ r.man = rec.man /\ r.todo = rec.todo /\ r.warned = rec.warned /\ r.back = rec.back
           /\ r.ids = rec.ids
<1> DEFINE r == [rec EXCEPT !.op = op, !.id = id]
<1>1. /\ r \in JobRec /\ r.op = op /\ r.id = id /\ r.pc = rec.pc
      /\ r.man = rec.man /\ r.todo = rec.todo /\ r.warned = rec.warned /\ r.back = rec.back
      /\ r.ids = rec.ids
  BY DEF JobRec
<1>2. job' = [job EXCEPT ![j] = r]
  BY DEF Begins
<1> QED
  BY <1>1, <1>2

LEMMA EndsFacts ==
  ASSUME FilesTyped, NEW j \in Job, NEW pc \in {"ok", "failed"}, Ends(j, pc)
  PROVE  \E r \in JobRec :
           /\ job' = [job EXCEPT ![j] = r]
           /\ job[j].op # "load" => r = Idle
           /\ job[j].op = "load" => /\ r.pc = pc /\ r.op = "load" /\ r.id = job[j].id /\ r.man = job[j].man
                                    /\ r.warned = job[j].warned /\ r.back = job[j].back /\ r.ids = {}
<1>1. job[j] \in JobRec
  BY DEF FilesTyped
<1>2. CASE job[j].op # "load"
  BY <1>2, IdleFacts DEF Ends
<1>3. CASE job[j].op = "load"
  <2> DEFINE r == [Idle EXCEPT !.pc = pc, !.op = "load", !.id = job[j].id, !.man = job[j].man,
                      !.warned = job[j].warned, !.back = job[j].back]
  <2>1. "load" \in AllOps
    BY DEF AllOps
  <2>2. /\ r \in JobRec /\ r.pc = pc /\ r.op = "load" /\ r.id = job[j].id /\ r.man = job[j].man
        /\ r.warned = job[j].warned /\ r.back = job[j].back /\ r.ids = {}
    BY <1>1, <2>1, IdleFacts DEF JobRec
  <2>3. job' = [job EXCEPT ![j] = r]
    BY <1>3 DEF Ends
  <2> QED
    BY <1>3, <2>2, <2>3
<1> QED
  BY <1>2, <1>3

\* Nobody is at work on an id that was not hurt when a command begins with it.
LEMMA Untouched ==
  ASSUME JobsInv, FilesInv, NEW j \in Job, ~Active(j), NEW i \in Snap, i \notin hurt,
         i \notin Overlaps({i})
  PROVE  Written(i) \/ Gone(i)
<1>1. ASSUME NEW k \in Job PROVE ~Changes(k, i)
  <2>1. JobOK(k)
    BY DEF JobsInv
  <2>2. ~Active(k) \/ job[k].id # i
    BY DEF Overlaps, Touches
  <2> QED
    BY <2>1, <2>2, FileFacts DEF JobOK, Changes, AllOps
<1> QED
  BY <1>1 DEF FilesInv, SettledOK

-----------------------------------------------------------------------------
(* The beginnings *)

\* A command begins that writes no files yet.
LEMMA BeginStep ==
  ASSUME IInv, NEW j \in Job, ~Active(j), Together, NEW r \in JobRec, job' = [job EXCEPT ![j] = r],
         UNCHANGED <<secretsVars, vol, dir, manifest, pledge>>,
         hurt \subseteq hurt', hurt' \subseteq Snap, Overlaps({r.id} \cup r.ids) \cap Snap \subseteq hurt',
         tarball' \in Tarball \cup {Missing}, TarballStays(j),
         tarball' # Missing => pledge[tarball'.id] # Missing,
         r.op # "save", r.op = "gc" => \A a \in r.ids : pledge[a] # Missing,
         r.op = "load" => pledge[r.id] # Missing,
         r.pc \notin {"writekey", "restorestore", "writestore"},
         JobOK(j)', r.id \notin hurt' => FilesOK(j)', TarballOK', LoadOK(j)'
  PROVE  IInv'
<1>1. JobsInv /\ FilesInv /\ FilesTyped /\ JobOK(j)
  BY DEF IInv, JobsInv
<1>2. Elsewhere(None) /\ Unshared(j, None)
  BY FileFacts DEF Elsewhere, Unshared
<1>3. job[j].op \notin {"save", "delete", "gc", "import"} /\ ~Restoring(j)
  BY <1>1, FileFacts DEF JobOK, AllOps, Active, Restoring
<1>4. FilesTyped'
  <2>1. job' \in [Job -> JobRec]
    BY <1>1, JobMoves
  <2>2. done' \in 0..MaxOps /\ overlaps' \in 0..MaxOverlaps
    BY <1>1, TogetherFacts
  <2> QED
    BY <1>1, <2>1, <2>2 DEF FilesTyped
<1>5. PledgeOK'
  BY <1>1, PledgeKeeps
<1>6. Sole'
  BY <1>1, SoleBegins
<1>7. UNCHANGED secretsVars
  OBVIOUS
<1> QED
  BY <1>2, <1>3, <1>4, <1>5, <1>6, <1>7, FileFacts, QuietJobStep

LEMMA SaveBeginKeeps ==
  ASSUME IInv, NEW j \in Job, SaveBegin(j)
  PROVE  IInv'
<1>1. JobsInv /\ FilesInv /\ FilesTyped /\ JobOK(j) /\ PledgeOK
  BY DEF IInv, JobsInv
<1>2. ~Active(j) /\ Together /\ UNCHANGED <<secretsVars, vol, manifest, tarball, hurt, pledge>>
  BY DEF SaveBegin, Begin
<1>3. PICK id \in Snap, found \in SUBSET Volume :
        /\ pledge[id] = Missing /\ \A k \in Job : job[k].id # id
        /\ dir' = [dir EXCEPT ![id] = NoFiles]
        /\ Begins(j, "save", id, [Idle EXCEPT !.pc = "volumes", !.todo = found,
                                    !.man = [exported |-> {}, secrets |-> TRUE, at |-> done']])
  BY DEF SaveBegin
<1> DEFINE man == [exported |-> {}, secrets |-> TRUE, at |-> done']
           rec == [Idle EXCEPT !.pc = "volumes", !.todo = found, !.man = man]
<1>4. done' \in 0..MaxOps /\ overlaps' \in 0..MaxOverlaps
  BY <1>1, <1>2, TogetherFacts
<1>5. man \in Manifest /\ man.exported = {}
  BY <1>4 DEF Manifest
<1>6. Begins(j, "save", id, rec)
  BY <1>3
<1> HIDE DEF man
<1>7. rec \in JobRec /\ rec.pc = "volumes" /\ rec.todo = found /\ rec.man = man /\ rec.ids = {}
  BY <1>5, IdleFacts DEF JobRec, File
<1> HIDE DEF rec
<1>8. PICK r \in JobRec :
        /\ job' = [job EXCEPT ![j] = r] /\ r.op = "save" /\ r.id = id /\ r.pc = "volumes"
        /\ r.man = man /\ r.todo = found /\ r.ids = {}
  <2>1. "save" \in AllOps
    BY DEF AllOps
  <2> QED
    BY <1>1, <1>6, <1>7, <2>1, BeginFacts
<1>9. job' \in [Job -> JobRec] /\ job'[j] = r
  BY <1>1, <1>8, JobMoves
<1>10. dir'[id] = NoFiles /\ NoFiles \in Directory /\ NoFiles # Missing
  BY <1>1, <1>3, DirectoryFacts, FileFacts DEF FilesTyped
<1>11. Elsewhere(id) /\ Unshared(j, id) /\ TarballStays(j)
  BY <1>1, <1>2, <1>3 DEF Elsewhere, Unshared, TarballStays, FilesTyped
<1>12. FilesTyped'
  BY <1>1, <1>2, <1>3, <1>4, <1>9, DirectoryFacts DEF FilesTyped
<1>13. job[j].op \notin {"save", "delete", "gc", "import"} /\ ~Restoring(j)
  BY <1>1, <1>2, FileFacts DEF JobOK, AllOps, Active, Restoring
<1>14. PledgeOK'
  <2>1. \A k \in Job \ {j} : job[k].op = "save" => job[k].id # r.id
    BY <1>3, <1>8
  <2> QED
    BY <1>1, <1>2, <1>3, <1>8, <2>1, PledgeKeeps DEF PledgeOK
<1>15. Sole'
  <2>1. \A k \in Job : Active(k) => id \notin Touches(k)
    <3>1. \A k \in Job : JobOK(k)
      BY DEF IInv, JobsInv
    <3> QED
      BY <1>1, <1>3, <3>1 DEF Touches, JobOK, PledgeOK
  <2>2. Overlaps({r.id} \cup r.ids) = {}
    BY <1>8, <2>1 DEF Overlaps
  <2> QED
    BY <1>1, <1>2, <1>8, <2>2, SoleBegins
<1>16. JobOK(j)'
  <2>1. <<"save", "volumes">> \in Point /\ "save" # None
    BY FileFacts DEF Point, AllOps
  <2> QED
    BY <1>5, <1>8, <1>9, <2>1 DEF JobOK, Active
<1>17. FilesOK(j)'
  <2>1. NoFiles["store"] = Missing
    BY DEF NoFiles, File, SecretFile
  <2> QED
    BY <1>5, <1>8, <1>9, <1>10, <2>1 DEF FilesOK, At, Good
<1>18. TarballOK'
  BY <1>1, <1>2 DEF FilesInv, TarballOK
<1>19. LoadOK(j)'
  BY <1>8, <1>9 DEF LoadOK
<1>20. SettledOK(id)'
  BY <1>8, <1>9 DEF SettledOK, Changes
<1>21. ~(id \in Snap \ hurt' /\ pledge'[id] # Missing)
  BY <1>2, <1>3
<1>22. hurt \subseteq hurt' /\ UNCHANGED secretsVars
  BY <1>2
<1> QED
  BY <1>8, <1>11, <1>12, <1>13, <1>14, <1>15, <1>16, <1>17, <1>18, <1>19, <1>20, <1>21, <1>22, QuietJobStep

\* A listed snapshot that nobody else is at work on is what was saved.
LEMMA LoadBeginKeeps ==
  ASSUME IInv, NEW j \in Job, LoadBegin(j)
  PROVE  IInv'
<1>1. JobsInv /\ FilesInv /\ FilesTyped /\ JobOK(j)
  BY DEF IInv, JobsInv
<1>2. ~Active(j) /\ Together /\ UNCHANGED <<secretsVars, vol, dir, manifest, tarball, pledge>>
  BY DEF LoadBegin, Begin
<1>3. PICK id \in ListManifests :
        /\ LET secrets == manifest[id].secrets
           IN  Begins(j, "load", id,
                 [Idle EXCEPT !.pc = IF secrets THEN "key" ELSE "volumes", !.man = manifest[id],
                    !.todo = manifest[id].exported \cup (IF secrets THEN SecretFile ELSE {})])
        /\ hurt' = hurt \cup Overlaps({id})
  BY DEF LoadBegin
<1>4. id \in Snap /\ manifest[id] \in Manifest
  BY DEF ListManifests
<1> DEFINE todo == manifest[id].exported \cup (IF manifest[id].secrets THEN SecretFile ELSE {})
           pc == IF manifest[id].secrets THEN "key" ELSE "volumes"
           rec == [Idle EXCEPT !.pc = pc, !.man = manifest[id], !.todo = todo]
<1>5. Begins(j, "load", id, rec)
  BY <1>3
<1>6. todo \subseteq File /\ pc \in {"key", "volumes"} /\ manifest[id].exported \subseteq todo
      /\ (manifest[id].secrets => SecretFile \subseteq todo)
  BY <1>4 DEF Manifest, File
<1> HIDE DEF todo, pc
<1>7. /\ rec \in JobRec /\ rec.pc = pc /\ rec.todo = todo /\ rec.man = manifest[id]
      /\ rec.ids = {} /\ rec.back = {}
  BY <1>4, <1>6, IdleFacts DEF JobRec
<1> HIDE DEF rec
<1>8. PICK r \in JobRec :
        /\ job' = [job EXCEPT ![j] = r] /\ r.op = "load" /\ r.id = id /\ r.pc = pc
        /\ r.man = manifest[id] /\ r.todo = todo /\ r.ids = {} /\ r.back = {}
  <2>1. "load" \in AllOps
    BY DEF AllOps
  <2> QED
    BY <1>1, <1>4, <1>5, <1>7, <2>1, BeginFacts
<1>9. job'[j] = r
  BY <1>1, <1>8, JobMoves
<1>10. hurt \subseteq hurt' /\ hurt' \subseteq Snap /\ Overlaps({r.id} \cup r.ids) \cap Snap \subseteq hurt'
  BY <1>1, <1>3, <1>4, <1>8 DEF Overlaps, FilesTyped
<1>11. JobOK(j)'
  <2>1. <<"load", pc>> \in Point /\ "load" # None
    BY <1>6, FileFacts DEF Point, AllOps
  <2> QED
    BY <1>4, <1>6, <1>8, <1>9, <2>1 DEF JobOK, Active
<1>12. ASSUME id \notin hurt' PROVE FilesOK(j)'
  <2>1. Written(id)
    <3>1. Written(id) \/ Gone(id)
      BY <1>1, <1>2, <1>3, <1>4, <1>12, Untouched
    <3> QED
      BY <1>4, <3>1, FileFacts DEF Gone
  <2>2. Written(id)'
    BY <1>2, <2>1 DEF Written
  <2>3. Written(job[j].id)'
    BY <1>8, <1>9, <2>2 DEF Written
  <2> QED
    BY <1>2, <1>8, <1>9, <2>3 DEF FilesOK, At
<1>13. TarballOK'
  BY <1>1, <1>2, <1>10 DEF FilesInv, TarballOK
<1>14. LoadOK(j)'
  <2>1. Owed(j)' \subseteq todo
    BY <1>6, <1>8, <1>9 DEF Owed
  <2> QED
    BY <1>6, <1>8, <1>9, <2>1 DEF LoadOK
<1>15. /\ tarball # Missing => pledge[tarball.id] # Missing
       /\ pledge[id] # Missing
  BY <1>1, <1>4 DEF JobsInv, PledgeOK
<1> QED
  BY <1>1, <1>2, <1>6, <1>8, <1>10, <1>11, <1>12, <1>13, <1>14, <1>15, BeginStep DEF FilesTyped, TarballStays

LEMMA DeleteBeginKeeps ==
  ASSUME IInv, NEW j \in Job, DeleteBegin(j)
  PROVE  IInv'
<1>1. JobsInv /\ FilesInv /\ FilesTyped /\ JobOK(j)
  BY DEF IInv, JobsInv
<1>2. ~Active(j) /\ Together /\ UNCHANGED <<secretsVars, vol, dir, manifest, tarball, pledge>>
  BY DEF DeleteBegin, Begin
<1>3. PICK id \in Snap :
        Begins(j, "delete", id, [Idle EXCEPT !.pc = "dir"]) /\ hurt' = hurt \cup Overlaps({id})
  BY DEF DeleteBegin
<1> DEFINE rec == [Idle EXCEPT !.pc = "dir"]
<1>4. rec \in JobRec /\ rec.pc = "dir" /\ rec.ids = {}
  BY IdleFacts DEF JobRec
<1>5. Begins(j, "delete", id, rec)
  BY <1>3
<1> HIDE DEF rec
<1>6. "delete" \in AllOps
  BY DEF AllOps
<1>7. PICK r \in JobRec :
        job' = [job EXCEPT ![j] = r] /\ r.op = "delete" /\ r.id = id /\ r.pc = "dir" /\ r.ids = {}
  BY <1>1, <1>4, <1>5, <1>6, BeginFacts
<1>8. job'[j] = r
  BY <1>1, <1>7, JobMoves
<1>9. hurt \subseteq hurt' /\ hurt' \subseteq Snap /\ Overlaps({r.id} \cup r.ids) \cap Snap \subseteq hurt'
  BY <1>1, <1>3, <1>7 DEF Overlaps, FilesTyped
<1>10. JobOK(j)'
  <2>1. <<"delete", "dir">> \in Point /\ "delete" # None
    BY <1>6, FileFacts DEF Point
  <2> QED
    BY <1>7, <1>8, <2>1 DEF JobOK, Active
<1>11. FilesOK(j)' /\ LoadOK(j)'
  BY <1>7, <1>8 DEF FilesOK, At, LoadOK
<1>12. TarballOK'
  BY <1>1, <1>2, <1>9 DEF FilesInv, TarballOK
<1>13. tarball # Missing => pledge[tarball.id] # Missing
  BY <1>1 DEF JobsInv, PledgeOK
<1> QED
  BY <1>1, <1>2, <1>7, <1>9, <1>10, <1>11, <1>12, <1>13, BeginStep DEF FilesTyped, TarballStays

LEMMA GCBeginKeeps ==
  ASSUME IInv, NEW j \in Job, GCBegin(j)
  PROVE  IInv'
<1>1. JobsInv /\ FilesInv /\ FilesTyped /\ JobOK(j)
  BY DEF IInv, JobsInv
<1>2. ~Active(j) /\ Together /\ UNCHANGED <<secretsVars, vol, dir, manifest, tarball, pledge>>
  BY DEF GCBegin, Begin
<1>3. PICK ids \in SUBSET ListManifests :
        Begins(j, "gc", None, [Idle EXCEPT !.pc = "next", !.ids = ids]) /\ hurt' = hurt \cup Overlaps(ids)
  BY DEF GCBegin
<1>4. ids \subseteq Snap /\ \A a \in ids : manifest[a] \in Manifest
  BY DEF ListManifests
<1> DEFINE rec == [Idle EXCEPT !.pc = "next", !.ids = ids]
<1>5. rec \in JobRec /\ rec.pc = "next" /\ rec.ids = ids
  BY <1>4, IdleFacts DEF JobRec
<1>6. Begins(j, "gc", None, rec)
  BY <1>3
<1> HIDE DEF rec
<1>7. "gc" \in AllOps
  BY DEF AllOps
<1>8. PICK r \in JobRec :
        job' = [job EXCEPT ![j] = r] /\ r.op = "gc" /\ r.id = None /\ r.pc = "next" /\ r.ids = ids
  BY <1>1, <1>5, <1>6, <1>7, BeginFacts
<1>9. job'[j] = r
  BY <1>1, <1>8, JobMoves
<1>10. hurt \subseteq hurt' /\ hurt' \subseteq Snap /\ Overlaps({r.id} \cup r.ids) \cap Snap \subseteq hurt'
  BY <1>1, <1>3, <1>4, <1>8, FileFacts DEF Overlaps, FilesTyped
<1>11. JobOK(j)'
  <2>1. <<"gc", "next">> \in Point /\ "gc" # None
    BY <1>7, FileFacts DEF Point
  <2> QED
    BY <1>8, <1>9, <2>1 DEF JobOK, Active
<1>12. FilesOK(j)' /\ LoadOK(j)'
  BY <1>8, <1>9 DEF FilesOK, At, LoadOK
<1>13. TarballOK'
  BY <1>1, <1>2, <1>10 DEF FilesInv, TarballOK
<1>14. /\ tarball # Missing => pledge[tarball.id] # Missing
       /\ \A a \in r.ids : pledge[a] # Missing
  BY <1>1, <1>4, <1>8 DEF JobsInv, PledgeOK
<1> QED
  BY <1>1, <1>2, <1>8, <1>10, <1>11, <1>12, <1>13, <1>14, BeginStep DEF FilesTyped, TarballStays

LEMMA ExportBeginKeeps ==
  ASSUME IInv, NEW j \in Job, ExportBegin(j)
  PROVE  IInv'
<1>1. JobsInv /\ FilesInv /\ FilesTyped /\ JobOK(j)
  BY DEF IInv, JobsInv
<1>2. ~Active(j) /\ Together /\ UNCHANGED <<secretsVars, vol, dir, manifest, pledge>>
  BY DEF ExportBegin, Begin
<1>3. PICK id \in ListManifests :
        /\ Begins(j, "export", id, [Idle EXCEPT !.pc = "walk"])
        /\ tarball' = [id |-> id, man |-> manifest[id], files |-> NoFiles, whole |-> FALSE]
        /\ hurt' = hurt \cup Overlaps({id})
  BY DEF ExportBegin, resolveSnapshotID
<1>4. id \in Snap /\ manifest[id] \in Manifest
  BY DEF ListManifests
<1>5. \A k \in Job : job[k].op \notin {"export", "import"}
  BY DEF ExportBegin
<1> DEFINE rec == [Idle EXCEPT !.pc = "walk"]
<1>6. rec \in JobRec /\ rec.pc = "walk" /\ rec.ids = {}
  BY IdleFacts DEF JobRec
<1>7. Begins(j, "export", id, rec)
  BY <1>3
<1> HIDE DEF rec
<1>8. "export" \in AllOps
  BY DEF AllOps
<1>9. PICK r \in JobRec :
        job' = [job EXCEPT ![j] = r] /\ r.op = "export" /\ r.id = id /\ r.pc = "walk" /\ r.ids = {}
  BY <1>1, <1>4, <1>6, <1>7, <1>8, BeginFacts
<1>10. job'[j] = r
  BY <1>1, <1>9, JobMoves
<1>11. hurt \subseteq hurt' /\ hurt' \subseteq Snap /\ Overlaps({r.id} \cup r.ids) \cap Snap \subseteq hurt'
  BY <1>1, <1>3, <1>4, <1>9 DEF Overlaps, FilesTyped
<1>12. /\ tarball' \in Tarball /\ tarball' # Missing
       /\ tarball'.id = id /\ tarball'.man = manifest[id] /\ ~tarball'.whole
  <2>1. NoFiles \in Directory
    BY DirectoryFacts
  <2>2. tarball' \in Tarball
    BY <1>3, <1>4, <2>1 DEF Tarball
  <2>3. tarball'.id = id /\ tarball'.man = manifest[id] /\ ~tarball'.whole
    BY <1>3
  <2> QED
    BY <2>2, <2>3, FileFacts
<1>13. JobOK(j)'
  <2>1. <<"export", "walk">> \in Point /\ "export" # None
    BY <1>8, FileFacts DEF Point
  <2> QED
    BY <1>4, <1>9, <1>10, <1>12, <2>1 DEF JobOK, Active
<1>14. id \notin hurt' => Written(id)
  <2>1. id \notin hurt' => Written(id) \/ Gone(id)
    BY <1>1, <1>2, <1>3, <1>4, Untouched
  <2> QED
    BY <1>4, <2>1, FileFacts DEF Gone
<1>15. ASSUME id \notin hurt' PROVE FilesOK(j)'
  <2>1. Written(job[j].id)'
    BY <1>2, <1>9, <1>10, <1>14, <1>15 DEF Written
  <2> QED
    BY <1>9, <1>10, <2>1 DEF FilesOK, At
<1>16. LoadOK(j)'
  BY <1>9, <1>10 DEF LoadOK
<1>17. TarballOK'
  BY <1>2, <1>12, <1>14 DEF TarballOK, Written
<1>18. pledge[id] # Missing
  BY <1>1, <1>4 DEF JobsInv, PledgeOK
<1>19. TarballStays(j)
  BY <1>5 DEF TarballStays
<1> QED
  BY <1>2, <1>9, <1>11, <1>12, <1>13, <1>15, <1>16, <1>17, <1>18, <1>19, BeginStep

\* The tarball of an unhurt snapshot has the files that its manifest was written for,
\* and so has its directory, if there is one.
LEMMA ImportBeginKeeps ==
  ASSUME IInv, NEW j \in Job, ImportBegin(j)
  PROVE  IInv'
<1>1. JobsInv /\ FilesInv /\ FilesTyped /\ JobOK(j)
  BY DEF IInv, JobsInv
<1>2. /\ ~Active(j) /\ Together /\ UNCHANGED <<secretsVars, vol, dir, manifest, tarball, pledge>>
      /\ tarball # Missing
  BY DEF ImportBegin, Begin
<1> DEFINE id == tarball.id
           todo == {f \in File : tarball.files[f] # Missing}
           rec == [Idle EXCEPT !.pc = "unpack", !.man = tarball.man, !.todo = todo]
<1>3. /\ Begins(j, "import", id, rec)
      /\ hurt' = hurt \cup Overlaps({id}) \cup (IF tarball.whole THEN {} ELSE {id})
  BY DEF ImportBegin
<1>4. tarball \in Tarball /\ id \in Snap /\ tarball.man \in Manifest /\ tarball.files \in Directory
  BY <1>1, <1>2 DEF FilesTyped, Tarball
<1>5. todo \in SUBSET File
  OBVIOUS
<1> HIDE DEF todo
<1>6. rec \in JobRec /\ rec.pc = "unpack" /\ rec.man = tarball.man /\ rec.todo = todo /\ rec.ids = {}
  BY <1>4, <1>5, IdleFacts DEF JobRec
<1> HIDE DEF rec
<1>7. "import" \in AllOps
  BY DEF AllOps
<1>8. PICK r \in JobRec :
        /\ job' = [job EXCEPT ![j] = r] /\ r.op = "import" /\ r.id = id /\ r.pc = "unpack"
        /\ r.man = tarball.man /\ r.todo = todo /\ r.ids = {}
  BY <1>1, <1>3, <1>4, <1>6, <1>7, BeginFacts
<1>9. job'[j] = r
  BY <1>1, <1>8, JobMoves
<1>10. hurt \subseteq hurt' /\ hurt' \subseteq Snap /\ Overlaps({r.id} \cup r.ids) \cap Snap \subseteq hurt'
  BY <1>1, <1>3, <1>4, <1>8 DEF Overlaps, FilesTyped
<1>11. JobOK(j)'
  <2>1. <<"import", "unpack">> \in Point /\ "import" # None
    BY <1>7, FileFacts DEF Point
  <2> QED
    BY <1>2, <1>4, <1>8, <1>9, <2>1 DEF JobOK, Active
<1>12. pledge[id] # Missing
  BY <1>1, <1>2 DEF JobsInv, PledgeOK
<1>13. ASSUME id \notin hurt' PROVE FilesOK(j)'
  <2>1. tarball.whole /\ id \notin hurt /\ id \notin Overlaps({id})
    BY <1>3, <1>13
  <2>2. tarball.files = pledge[id]
    BY <1>1, <1>2, <2>1 DEF FilesInv, TarballOK
  <2>3. Written(id) \/ Gone(id)
    BY <1>1, <1>2, <1>4, <2>1, Untouched
  <2>4. PICK d : d = dir[id]
    OBVIOUS
  <2>5. \A f \in File \ todo : Made(d)[f] = pledge[id][f]
    <3>1. CASE Written(id)
      BY <1>12, <2>4, <3>1 DEF Made, Written
    <3>2. CASE Gone(id)
      <4>1. \A f \in File \ todo : tarball.files[f] = Missing
        BY DEF todo
      <4> QED
        BY <2>2, <2>4, <3>2, <4>1, DirectoryFacts DEF Made, Gone
    <3> QED
      BY <2>3, <3>1, <3>2
  <2>6. d = dir'[job'[j].id] /\ pledge'[job'[j].id] = pledge[id]
    BY <1>2, <1>8, <1>9, <2>4
  <2> QED
    BY <1>2, <1>8, <1>9, <2>1, <2>5, <2>6 DEF FilesOK, At, Made
<1>14. LoadOK(j)'
  BY <1>8, <1>9 DEF LoadOK
<1>15. TarballOK'
  BY <1>1, <1>2, <1>10 DEF FilesInv, TarballOK
<1>16. TarballStays(j)
  BY <1>2 DEF TarballStays
<1> QED
  BY <1>1, <1>2, <1>4, <1>8, <1>10, <1>11, <1>12, <1>13, <1>14, <1>15, <1>16, BeginStep

-----------------------------------------------------------------------------
(* The steps that leave the secrets of the project alone *)

LEMMA AloneWithId ==
  ASSUME JobsInv, NEW j \in Job, Active(j), hurt \subseteq hurt'
  PROVE  Unshared(j, job[j].id)
BY DEF JobsInv, Sole, Unshared, Touches

\* A command goes on, with its id.
LEMMA MoveStep ==
  ASSUME IInv, NEW j \in Job, Active(j), NEW r \in JobRec, job' = [job EXCEPT ![j] = r],
         NEW i, i = job[j].id, r.op = job[j].op, r.id = i, r.ids = job[j].ids,
         UNCHANGED <<secretsVars, tarball, done, overlaps, hurt, pledge>>,
         vol' \in [Volume -> Data \cup {Missing}],
         dir' \in [Snap -> Directory \cup {Missing}],
         manifest' \in [Snap -> Manifest \cup {Missing, Torn}],
         \A a \in Snap \ {i} : dir'[a] = dir[a] /\ manifest'[a] = manifest[a],
         \A a \in Snap : manifest'[a] \in Manifest => manifest[a] \in Manifest,
         r.op \in {"save", "delete", "gc", "import"} \/ UNCHANGED <<dir, manifest>>,
         r.pc \notin {"writekey", "restorestore", "writestore"}, ~Restoring(j),
         ~(r.op = "save" /\ r.pc = "store"),
         JobOK(j)', r.id \notin hurt => FilesOK(j)', LoadOK(j)',
         ~collided /\ ~Cloned =>
           (r.op = "save" /\ r.pc \in {"manifest", "listed"} /\ r.id \notin hurt => Coherent(dir'[r.id]))
  PROVE  IInv'
<1>1. JobsInv /\ FilesInv /\ FilesTyped /\ JobOK(j) /\ PledgeOK
  BY DEF IInv, JobsInv
<1>2. hurt \subseteq hurt' /\ UNCHANGED <<secretsVars, hurt, pledge, tarball, done, overlaps>>
  OBVIOUS
<1>3. Elsewhere(i) /\ Unshared(j, i) /\ TarballStays(j)
  BY <1>1, <1>2, AloneWithId DEF Elsewhere, TarballStays
<1>4. job' \in [Job -> JobRec] /\ job'[j] = r /\ \A k \in Job \ {j} : job'[k] = job[k]
  BY <1>1, JobMoves
<1>5. FilesTyped'
  BY <1>1, <1>2, <1>4 DEF FilesTyped
<1>6. PledgeOK'
  <2>1. r.op = "gc" => \A a \in r.ids : pledge[a] # Missing
    BY <1>1 DEF PledgeOK
  <2>2. r.op = "save" => pledge[r.id] = Missing /\ \A k \in Job \ {j} : job[k].op = "save" => job[k].id # r.id
    <3>1. /\ \A k \in Job : job[k].op = "save" => pledge[job[k].id] = Missing
          /\ \A k, l \in Job : job[k].op = "save" /\ job[l].op = "save" /\ job[k].id = job[l].id => k = l
      BY <1>1 DEF PledgeOK
    <3>2. ASSUME r.op = "save", NEW k \in Job \ {j}, job[k].op = "save" PROVE job[k].id # r.id
      BY <3>1, <3>2
    <3>3. job[j].op = "save" => pledge[job[j].id] = Missing
      BY <1>1 DEF PledgeOK
    <3>4. job[j].op = "save" => pledge[r.id] = Missing
      BY <3>3
    <3> QED
      BY <3>2, <3>4
  <2>3. tarball # Missing => pledge[tarball.id] # Missing
    BY <1>1 DEF PledgeOK
  <2>4. r.op = "load" => pledge[r.id] # Missing
    <3>1. job[j].op = "load" => pledge[job[j].id] # Missing
      BY <1>1 DEF PledgeOK
    <3> QED
      BY <3>1
  <2> QED
    BY <1>1, <1>2, <2>1, <2>2, <2>3, <2>4, PledgeKeeps
<1>7. Sole'
  BY <1>1, <1>2, SoleKeeps DEF Touches
<1>8. ASSUME i \in Snap \ hurt' PROVE SettledOK(i)'
  <2>1. CASE r.op \in {"save", "delete", "gc", "import"}
    BY <1>4, <2>1 DEF SettledOK, Changes
  <2>2. CASE UNCHANGED <<dir, manifest>>
    <3>1. \A k \in Job : Changes(k, i)' <=> Changes(k, i)
      BY <1>4 DEF Changes
    <3>2. SettledOK(i)
      BY <1>1, <1>2, <1>8 DEF FilesInv
    <3> QED
      BY <1>2, <2>2, <3>1, <3>2 DEF SettledOK, Written, Gone
  <2> QED
    BY <2>1, <2>2
<1>9. TarballOK'
  BY <1>1, <1>2 DEF FilesInv, TarballOK
<1>10. ~collided /\ ~Cloned =>
         (i \in Snap \ hurt' /\ pledge'[i] # Missing => Coherent(pledge'[i]))
  BY <1>2 DEF IInv, ReadableOK
<1>11. ~collided /\ ~Cloned =>
         (r.op = "save" /\ r.pc \in {"manifest", "listed"} /\ r.id \notin hurt' => Coherent(dir'[r.id]))
  BY <1>2
<1>12. r.id \notin hurt' => FilesOK(j)'
  BY <1>2
<1>13. job[j].op \in {"save", "delete", "gc", "import"} =>
         job[j].id \in {i, None} \cup hurt' \/ (r.id = job[j].id /\ r.op = job[j].op)
  OBVIOUS
<1> QED
  BY <1>2, <1>3, <1>5, <1>6, <1>7, <1>8, <1>9, <1>10, <1>11, <1>12, <1>13, QuietJobStep

\* A command ends.
LEMMA EndStep ==
  ASSUME IInv, NEW j \in Job, Active(j), NEW pc \in {"ok", "failed"}, Ends(j, pc),
         NEW i, i = job[j].id,
         UNCHANGED <<secretsVars, vol, done, overlaps, hurt>>,
         dir' \in [Snap -> Directory \cup {Missing}],
         manifest' \in [Snap -> Manifest \cup {Missing, Torn}],
         pledge' \in [Snap -> Directory \cup {Missing}],
         tarball' \in Tarball \cup {Missing},
         Elsewhere(i), TarballStays(j),
         \A a \in Snap : pledge'[a] # pledge[a] =>
           /\ pledge'[a] # Missing
           /\ \A k \in Job \ {j} : ~(job[k].op = "save" /\ job[k].id = a),
         \A a \in Snap : manifest'[a] \in Manifest => manifest[a] \in Manifest \/ pledge'[a] # Missing,
         tarball' # Missing => pledge'[tarball'.id] # Missing,
         ~Restoring(j),
         i \in Snap \ hurt => SettledOK(i)',
         TarballOK', LoadOK(j)',
         ~collided /\ ~Cloned =>
           (i \in Snap \ hurt /\ pledge'[i] # Missing => Coherent(pledge'[i]))
  PROVE  IInv'
<1>1. JobsInv /\ FilesInv /\ FilesTyped /\ JobOK(j) /\ PledgeOK
  BY DEF IInv, JobsInv
<1>2. hurt \subseteq hurt' /\ UNCHANGED <<secretsVars, vol, hurt, done, overlaps>>
  OBVIOUS
<1>3. PICK r \in JobRec :
        /\ job' = [job EXCEPT ![j] = r]
        /\ job[j].op # "load" => r = Idle
        /\ job[j].op = "load" => /\ r.pc = pc /\ r.op = "load" /\ r.id = job[j].id /\ r.man = job[j].man
                                 /\ r.warned = job[j].warned /\ r.back = job[j].back /\ r.ids = {}
  BY <1>1, EndsFacts
<1>4. job' \in [Job -> JobRec] /\ job'[j] = r
  BY <1>1, <1>3, JobMoves
<1>5. /\ r.pc \in {"idle", "ok", "failed"} /\ r.op \in {"load", None} /\ r.ids = {}
      /\ r.op = "load" => r.id = job[j].id /\ r.man = job[j].man /\ job[j].op = "load"
      /\ r.op = None => r.id = None
  BY <1>3, IdleFacts, FileFacts DEF AllOps
<1>6. "load" # None /\ "save" # None /\ "gc" # None /\ "delete" # None /\ "import" # None /\ "export" # None
  BY FileFacts DEF AllOps
<1>7. Elsewhere(i) /\ Unshared(j, i)
  BY <1>1, <1>2, AloneWithId
<1>8. FilesTyped'
  BY <1>1, <1>2, <1>4 DEF FilesTyped
<1>9. PledgeOK'
  <2>1. r.op = "load" => pledge'[r.id] # Missing
    <3>1. r.op = "load" => r.id \in Snap /\ pledge[r.id] # Missing
      BY <1>1, <1>5 DEF PledgeOK, JobOK
    <3> QED
      BY <3>1
  <2> QED
    BY <1>1, <1>3, <1>5, <1>6, <2>1, PledgeKeeps
<1>10. Sole'
  BY <1>1, <1>2, <1>3, <1>5, SoleKeeps
<1>11. JobOK(j)'
  BY <1>1, <1>4, <1>5, <1>6 DEF JobOK, Active
<1>12. FilesOK(j)'
  BY <1>4, <1>5, <1>6 DEF FilesOK, At, Active
<1>13. i \in Snap \ hurt' => SettledOK(i)'
  BY <1>2
<1>14. ~collided /\ ~Cloned =>
         (i \in Snap \ hurt' /\ pledge'[i] # Missing => Coherent(pledge'[i]))
  BY <1>2
<1>15. job[j].op \in {"save", "delete", "gc", "import"} =>
         job[j].id \in {i, None} \cup hurt' \/ (r.id = job[j].id /\ r.op = job[j].op)
  OBVIOUS
<1>16. /\ r.pc \notin {"writekey", "restorestore", "writestore"} /\ ~(r.op = "save" /\ r.pc = "store")
       /\ ~(r.op = "save" /\ r.pc \in {"manifest", "listed"})
  BY <1>5
<1> QED
  BY <1>2, <1>3, <1>7, <1>8, <1>9, <1>10, <1>11, <1>12, <1>13, <1>14, <1>15, <1>16, QuietJobStep

\* What a command has in memory while it works, by its type.
LEMMA ActiveFacts ==
  ASSUME JobsInv, NEW j \in Job, NEW pc, At(j, job[j].op, pc), pc \notin {"idle", "ok", "failed"}
  PROVE  /\ Active(j) /\ JobOK(j) /\ job[j] \in JobRec
         /\ job[j].op # "gc" \/ pc # "next" => job[j].id \in Snap
<1>1. Active(j) /\ JobOK(j) /\ job[j] \in JobRec
  BY DEF At, Active, JobsInv, FilesTyped
<1>2. job[j].op # "gc" \/ pc # "next" => job[j].id \in Snap
  <2>1. <<job[j].op, pc>> \in Point /\ job[j].id \in Snap \cup {None}
    BY <1>1 DEF JobOK, At, JobRec
  <2>2. job[j].op \in {"save", "load", "delete", "gc", "export", "import"}
    BY <2>1 DEF Point
  <2> QED
    BY <1>1, <2>1, <2>2 DEF JobOK, At
<1> QED
  BY <1>1, <1>2

\* A volume is copied: what did not fail is counted.
LEMMA SaveVolumeKeeps ==
  ASSUME IInv, NEW j \in Job, SaveVolume(j)
  PROVE  IInv'
<1>1. JobsInv /\ FilesInv /\ FilesTyped
  BY DEF IInv, JobsInv
<1>2. /\ job[j].op = "save" /\ job[j].pc = "volumes"
      /\ UNCHANGED <<secretsVars, vol, manifest, tarball, done, overlaps, hurt, pledge>>
  BY DEF SaveVolume, At
<1>3. Active(j) /\ JobOK(j) /\ job[j] \in JobRec /\ job[j].id \in Snap
  BY <1>1, <1>2, ActiveFacts DEF At
<1>4. /\ job[j].ids = {} /\ job[j].man \in Manifest /\ job[j].todo \subseteq Volume
      /\ job[j].todo \cap job[j].man.exported = {}
  BY <1>2, <1>3 DEF JobOK
<1>5. PICK i \in Snap : i = job[j].id
  BY <1>3
<1>6. PICK v \in job[j].todo, ok \in BOOLEAN, copy \in {Missing, Torn} \cup Data :
        /\ job' = [job EXCEPT ![j].todo = @ \ {v}, ![j].man.exported = IF ok THEN @ \cup {v} ELSE @]
        /\ dir' = dir \/ dir' = [dir EXCEPT ![i] = IF @ = Missing THEN @ ELSE [@ EXCEPT ![v] = copy]]
        /\ ok => dir' = [dir EXCEPT ![i] = IF @ = Missing THEN @ ELSE [@ EXCEPT ![v] = copy]]
        /\ ok => copy # Missing
  <2>1. PICK v \in job[j].todo :
          \/ /\ vol[v] = Missing
             /\ job' = [job EXCEPT ![j].todo = @ \ {v}]
             /\ UNCHANGED dir
          \/ /\ vol[v] # Missing
             /\ \E out \in exportVolume(v) :
                  /\ dir' = [dir EXCEPT ![i] = IF @ = Missing THEN @ ELSE [@ EXCEPT ![v] = out.copy]]
                  /\ job' = [job EXCEPT ![j].todo = @ \ {v},
                               ![j].man.exported = IF out.ok THEN @ \cup {v} ELSE @]
    BY <1>5 DEF SaveVolume
  <2>2. v \in Volume
    BY <1>4
  <2>3. CASE vol[v] = Missing
    <3>1. [job EXCEPT ![j].todo = @ \ {v}, ![j].man.exported = IF FALSE THEN @ \cup {v} ELSE @]
            = [job EXCEPT ![j].todo = @ \ {v}]
      <4>1. job \in [Job -> JobRec] /\ job[j].man = [job[j].man EXCEPT !.exported = @]
        BY <1>1, <1>4 DEF FilesTyped, Manifest
      <4> QED
        BY <4>1 DEF JobRec
    <3>2. Missing \in {Missing, Torn} \cup Data /\ FALSE \in BOOLEAN
      OBVIOUS
    <3> QED
      BY <2>1, <2>3, <3>1, <3>2
  <2>4. CASE vol[v] # Missing
    <3>1. PICK out \in exportVolume(v) :
            /\ dir' = [dir EXCEPT ![i] = IF @ = Missing THEN @ ELSE [@ EXCEPT ![v] = out.copy]]
            /\ job' = [job EXCEPT ![j].todo = @ \ {v},
                         ![j].man.exported = IF out.ok THEN @ \cup {v} ELSE @]
      BY <2>1, <2>4
    <3>2. vol[v] \in Data /\ vol[v] # Missing /\ Torn # Missing
      BY <1>1, <2>2, <2>4, SecretsFacts DEF FilesTyped
    <3>3. \/ out = [ok |-> TRUE, copy |-> vol[v]]
          \/ out = [ok |-> TRUE, copy |-> Torn]
          \/ out = [ok |-> FALSE, copy |-> Torn]
          \/ out = [ok |-> FALSE, copy |-> Missing]
      BY <3>1 DEF exportVolume, tarDirectory
    <3>4. out.ok \in BOOLEAN /\ out.copy \in {Missing, Torn} \cup Data /\ (out.ok => out.copy # Missing)
      <4>1. CASE out = [ok |-> TRUE, copy |-> vol[v]]
        <5>1. out.ok = TRUE /\ out.copy = vol[v]
          BY <4>1
        <5> QED
          BY <3>2, <5>1
      <4>2. CASE out = [ok |-> TRUE, copy |-> Torn]
        <5>1. out.ok = TRUE /\ out.copy = Torn
          BY <4>2
        <5> QED
          BY <3>2, <5>1
      <4>3. CASE out = [ok |-> FALSE, copy |-> Torn]
        <5>1. out.ok = FALSE /\ out.copy = Torn
          BY <4>3
        <5> QED
          BY <5>1
      <4>4. CASE out = [ok |-> FALSE, copy |-> Missing]
        <5>1. out.ok = FALSE /\ out.copy = Missing
          BY <4>4
        <5> QED
          BY <5>1
      <4> QED
        BY <3>3, <4>1, <4>2, <4>3, <4>4
    <3> QED
      BY <3>1, <3>4
  <2> QED
    BY <2>3, <2>4
<1>7. v \in Volume /\ v \in File /\ copy \in Content(v)
  BY <1>4, ContentFacts DEF File, SecretFile
<1>8. PICK man : man = [job[j].man EXCEPT !.exported = IF ok THEN @ \cup {v} ELSE @]
  OBVIOUS
<1>9. man \in Manifest /\ man.exported = IF ok THEN job[j].man.exported \cup {v} ELSE job[j].man.exported
  BY <1>4, <1>7, <1>8 DEF Manifest
<1>10. PICK r \in JobRec :
        /\ job' = [job EXCEPT ![j] = r] /\ r.op = "save" /\ r.pc = "volumes" /\ r.id = i /\ r.ids = {}
        /\ r.man = man /\ r.todo = job[j].todo \ {v}
  <2>1. job \in [Job -> JobRec]
    BY <1>1 DEF FilesTyped
  <2>2. job'[j].man = man
    BY <1>6, <1>8, <2>1 DEF JobRec
  <2>3. PICK r : r = job'[j]
    OBVIOUS
  <2>4. job' = [job EXCEPT ![j] = r]
    <3>1. job' = [job EXCEPT ![j].todo = @ \ {v}, ![j].man.exported = IF ok THEN @ \cup {v} ELSE @]
      BY <1>6
    <3>2. job' = [job EXCEPT ![j] = job'[j]]
      BY <2>1, <3>1
    <3> QED
      BY <2>3, <3>2
  <2>5. r.todo = job[j].todo \ {v} /\ r.op = "save" /\ r.pc = "volumes" /\ r.id = i /\ r.ids = {}
    BY <1>2, <1>4, <1>5, <1>6, <2>1, <2>3 DEF JobRec
  <2>6. r = [job[j] EXCEPT !.todo = @ \ {v}, !.man = man]
    BY <1>3, <1>6, <2>1, <2>2, <2>3 DEF JobRec
  <2>7. r \in JobRec
    BY <1>3, <1>9, <2>6 DEF JobRec
  <2> QED
    BY <2>2, <2>3, <2>4, <2>5, <2>7
<1>11. job'[j] = r
  BY <1>1, <1>10, JobMoves
<1>12. /\ dir' \in [Snap -> Directory \cup {Missing}]
       /\ \A a \in Snap \ {i} : dir'[a] = dir[a]
       /\ dir[i] # Missing => /\ dir'[i] # Missing
                              /\ ok => dir'[i][v] = copy
                              /\ \A u \in File \ {v} : dir'[i][u] = dir[i][u]
  <2> DEFINE d == IF dir[i] = Missing THEN Missing ELSE [dir[i] EXCEPT ![v] = copy]
  <2>1. dir[i] \in Directory \cup {Missing}
    BY <1>1 DEF FilesTyped
  <2>2. /\ d \in Directory \cup {Missing}
        /\ dir[i] # Missing => d \in Directory /\ d[v] = copy /\ \A u \in File \ {v} : d[u] = dir[i][u]
    BY <1>6, <1>7, <2>1, DirectoryFacts DEF File, SecretFile
  <2>3. (dir' = dir /\ ~ok) \/ dir' = [dir EXCEPT ![i] = d]
    BY <1>6
  <2> HIDE DEF d
  <2>4. CASE dir' = dir /\ ~ok
    BY <1>1, <2>4 DEF FilesTyped
  <2>5. CASE dir' = [dir EXCEPT ![i] = d]
    <3>1. /\ dir' \in [Snap -> Directory \cup {Missing}] /\ dir'[i] = d
          /\ \A a \in Snap \ {i} : dir'[a] = dir[a]
      BY <1>1, <2>2, <2>5 DEF FilesTyped
    <3> QED
      BY <2>2, <3>1, FileFacts
  <2> QED
    BY <2>3, <2>4, <2>5
<1>13. JobOK(j)'
  <2>1. <<"save", "volumes">> \in Point /\ "save" # None
    BY FileFacts DEF Point, AllOps
  <2> QED
    BY <1>4, <1>7, <1>9, <1>10, <1>11, <2>1 DEF JobOK, Active
<1>14. i \notin hurt => FilesOK(j)'
  <2>1. ASSUME i \notin hurt PROVE dir'[i] # Missing /\ Good(man, dir'[i]) /\ dir'[i]["store"] = Missing
    <3>1. dir[i] # Missing /\ Good(job[j].man, dir[i]) /\ dir[i]["store"] = Missing
      BY <1>1, <1>2, <1>5, <2>1 DEF FilesInv, FilesOK
    <3>2. ASSUME NEW u \in man.exported PROVE dir'[i][u] # Missing
      <4>1. CASE u = v
        <5>1. ok
          BY <1>4, <1>9, <4>1
        <5> QED
          BY <1>6, <1>12, <3>1, <4>1, <5>1
      <4>2. CASE u # v
        <5>1. u \in job[j].man.exported /\ u \in File
          BY <1>4, <1>9, <4>2 DEF Manifest, File
        <5> QED
          BY <1>12, <3>1, <4>2, <5>1 DEF Good
      <4> QED
        BY <4>1, <4>2
    <3>3. "store" \in File \ {v}
      BY <1>7, FileFacts DEF File, SecretFile
    <3> QED
      BY <1>12, <3>1, <3>2, <3>3 DEF Good
  <2> QED
    BY <1>10, <1>11, <2>1 DEF FilesOK, At
<1>15. LoadOK(j)'
  BY <1>10, <1>11 DEF LoadOK
<1>16. ~Restoring(j)
  BY <1>2 DEF Restoring
<1>17. /\ UNCHANGED <<secretsVars, tarball, done, overlaps, hurt, pledge>>
       /\ vol' \in [Volume -> Data \cup {Missing}]
       /\ manifest' \in [Snap -> Manifest \cup {Missing, Torn}] /\ manifest' = manifest
  BY <1>1, <1>2 DEF FilesTyped
<1> QED
  BY <1>2, <1>3, <1>4, <1>5, <1>10, <1>12, <1>13, <1>14, <1>15, <1>16, <1>17, MoveStep

LEMMA BecomesFacts ==
  ASSUME FilesTyped, NEW j \in Job,
         NEW pc \in {"store", "manifest", "listed", "unlist", "restorestore", "volumes"}, Becomes(j, pc)
  PROVE  \E r \in JobRec :
           /\ job' = [job EXCEPT ![j] = r] /\ r.pc = pc /\ r.op = job[j].op /\ r.id = job[j].id
           /\ r.man = job[j].man /\ r.todo = job[j].todo /\ r.read = job[j].read
           /\ r.warned = job[j].warned /\ r.back = job[j].back /\ r.ids = job[j].ids
<1> DEFINE r == [job[j] EXCEPT !.pc = pc]
<1>1. job[j] \in JobRec
  BY DEF FilesTyped
<1>2. /\ r \in JobRec /\ r.pc = pc /\ r.op = job[j].op /\ r.id = job[j].id
      /\ r.man = job[j].man /\ r.todo = job[j].todo /\ r.read = job[j].read
      /\ r.warned = job[j].warned /\ r.back = job[j].back /\ r.ids = job[j].ids
  BY <1>1 DEF JobRec
<1>3. job' = [job EXCEPT ![j] = r]
  BY DEF Becomes
<1> QED
  BY <1>2, <1>3

\* The manifest is emptied, and so not listed.
LEMMA EmptyManifestKeeps ==
  ASSUME IInv, NEW j \in Job, EmptyManifest(j)
  PROVE  IInv'
<1>1. JobsInv /\ FilesInv /\ FilesTyped
  BY DEF IInv, JobsInv
<1>2. /\ job[j].op \in {"save", "import"} /\ job[j].pc = "manifest" /\ Becomes(j, "listed")
      /\ UNCHANGED <<secretsVars, vol, dir, tarball, done, overlaps, hurt, pledge>>
  BY DEF EmptyManifest
<1>3. Active(j) /\ JobOK(j) /\ job[j] \in JobRec /\ job[j].id \in Snap
  BY <1>1, <1>2, ActiveFacts DEF At
<1>4. PICK i \in Snap : i = job[j].id
  BY <1>3
<1>5. manifest' = [manifest EXCEPT ![i] = Torn]
  BY <1>4 DEF EmptyManifest
<1>6. PICK r \in JobRec :
        /\ job' = [job EXCEPT ![j] = r] /\ r.pc = "listed" /\ r.op = job[j].op /\ r.id = i
        /\ r.man = job[j].man /\ r.todo = job[j].todo /\ r.ids = job[j].ids
  BY <1>1, <1>2, <1>4, BecomesFacts
<1>7. job'[j] = r
  BY <1>1, <1>6, JobMoves
<1>8. /\ manifest' \in [Snap -> Manifest \cup {Missing, Torn}]
      /\ \A a \in Snap \ {i} : manifest'[a] = manifest[a]
      /\ \A a \in Snap : manifest'[a] \in Manifest => manifest[a] \in Manifest
  BY <1>1, <1>5, FileFacts DEF FilesTyped
<1>9. JobOK(j)'
  <2>1. <<r.op, "listed">> \in Point /\ r.op # None
    BY <1>2, <1>6, FileFacts DEF Point, AllOps
  <2> QED
    BY <1>2, <1>3, <1>4, <1>6, <1>7, <2>1 DEF JobOK, Active
<1>10. i \notin hurt => FilesOK(j)'
  <2>1. i \notin hurt => FilesOK(j)
    BY <1>1, <1>4 DEF FilesInv
  <2> QED
    BY <1>2, <1>4, <1>6, <1>7, <2>1 DEF FilesOK, At, Good
<1>11. LoadOK(j)'
  BY <1>2, <1>6, <1>7 DEF LoadOK
<1>12. ~collided /\ ~Cloned => (r.op = "save" /\ i \notin hurt => Coherent(dir'[i]))
  BY <1>2, <1>4, <1>6 DEF IInv, ReadableOK
<1>13. ~Restoring(j)
  BY <1>2 DEF Restoring
<1>14. /\ vol' \in [Volume -> Data \cup {Missing}] /\ dir' \in [Snap -> Directory \cup {Missing}]
       /\ \A a \in Snap \ {i} : dir'[a] = dir[a]
  BY <1>1, <1>2 DEF FilesTyped
<1> QED
  BY <1>2, <1>3, <1>4, <1>6, <1>8, <1>9, <1>10, <1>11, <1>12, <1>13, <1>14, MoveStep

LEMMA RemoveDirKeeps ==
  ASSUME IInv, NEW j \in Job, RemoveDir(j)
  PROVE  IInv'
<1>1. JobsInv /\ FilesInv /\ FilesTyped
  BY DEF IInv, JobsInv
<1>2. /\ job[j].op \in {"delete", "gc"} /\ job[j].pc = "dir" /\ Becomes(j, "unlist")
      /\ UNCHANGED <<secretsVars, vol, manifest, tarball, done, overlaps, hurt, pledge>>
  BY DEF RemoveDir
<1>3. Active(j) /\ JobOK(j) /\ job[j] \in JobRec /\ job[j].id \in Snap
  BY <1>1, <1>2, ActiveFacts DEF At
<1>4. PICK i \in Snap : i = job[j].id
  BY <1>3
<1>5. dir' = [dir EXCEPT ![i] = Missing]
  BY <1>4 DEF RemoveDir
<1>6. PICK r \in JobRec :
        /\ job' = [job EXCEPT ![j] = r] /\ r.pc = "unlist" /\ r.op = job[j].op /\ r.id = i
        /\ r.ids = job[j].ids
  BY <1>1, <1>2, <1>4, BecomesFacts
<1>7. job'[j] = r
  BY <1>1, <1>6, JobMoves
<1>8. /\ dir' \in [Snap -> Directory \cup {Missing}] /\ dir'[i] = Missing
      /\ \A a \in Snap \ {i} : dir'[a] = dir[a]
  BY <1>1, <1>5 DEF FilesTyped
<1>9. JobOK(j)'
  <2>1. <<r.op, "unlist">> \in Point /\ r.op # None
    BY <1>2, <1>6, FileFacts DEF Point, AllOps
  <2> QED
    BY <1>2, <1>3, <1>4, <1>6, <1>7, <2>1 DEF JobOK, Active
<1>10. FilesOK(j)'
  BY <1>2, <1>6, <1>7, <1>8 DEF FilesOK, At
<1>11. LoadOK(j)'
  BY <1>2, <1>6, <1>7 DEF LoadOK
<1>12. ~Restoring(j)
  BY <1>2 DEF Restoring
<1>13. /\ vol' \in [Volume -> Data \cup {Missing}]
       /\ manifest' \in [Snap -> Manifest \cup {Missing, Torn}] /\ manifest' = manifest
  BY <1>1, <1>2 DEF FilesTyped
<1> QED
  BY <1>2, <1>3, <1>4, <1>6, <1>8, <1>9, <1>10, <1>11, <1>12, <1>13, MoveStep

\* What is unpacked is what the manifest was written for.
LEMMA ImportFileKeeps ==
  ASSUME IInv, NEW j \in Job, ImportFile(j)
  PROVE  IInv'
<1>1. JobsInv /\ FilesInv /\ FilesTyped
  BY DEF IInv, JobsInv
<1>2. /\ job[j].op = "import" /\ job[j].pc = "unpack"
      /\ UNCHANGED <<secretsVars, vol, manifest, tarball, done, overlaps, hurt, pledge>>
  BY DEF ImportFile, At
<1>3. Active(j) /\ JobOK(j) /\ job[j] \in JobRec /\ job[j].id \in Snap
  BY <1>1, <1>2, ActiveFacts DEF At
<1>4. PICK i \in Snap : i = job[j].id
  BY <1>3
<1>5. PICK f \in job[j].todo :
        /\ dir' = [dir EXCEPT ![i] = Laid(@, f, tarball.files[f])]
        /\ job' = [job EXCEPT ![j].todo = @ \ {f}]
  BY <1>4 DEF ImportFile
<1>6. /\ f \in File /\ tarball \in Tarball /\ tarball # Missing /\ tarball.id = i
      /\ tarball.files \in Directory
  BY <1>1, <1>2, <1>3, <1>4, <1>5 DEF JobOK, JobRec, FilesTyped, Tarball
<1> DEFINE x == tarball.files[f]
           r == [job[j] EXCEPT !.todo = @ \ {f}]
<1>7. x \in Content(f)
  BY <1>6, DirectoryFacts
<1>8. /\ r \in JobRec /\ r.op = "import" /\ r.pc = "unpack" /\ r.id = i /\ r.man = job[j].man
      /\ r.todo = job[j].todo \ {f} /\ r.ids = job[j].ids
  BY <1>2, <1>3, <1>4 DEF JobRec
<1>9. job' = [job EXCEPT ![j] = r]
  BY <1>5
<1> HIDE DEF r
<1>10. job'[j] = r
  BY <1>1, <1>8, <1>9, JobMoves
<1>11. PICK d : d = dir[i]
  OBVIOUS
<1>12. /\ d \in Directory \cup {Missing} /\ Laid(d, f, x) \in Directory /\ Laid(d, f, x)[f] = x
       /\ \A g \in File \ {f} : Laid(d, f, x)[g] = Made(d)[g]
  <2>1. d \in Directory \cup {Missing}
    BY <1>1, <1>11 DEF FilesTyped
  <2> QED
    BY <1>6, <1>7, <2>1, MadeFacts
<1>13. /\ dir' \in [Snap -> Directory \cup {Missing}] /\ dir'[i] = Laid(d, f, x)
       /\ \A a \in Snap \ {i} : dir'[a] = dir[a]
  BY <1>1, <1>5, <1>11, <1>12 DEF FilesTyped
<1>14. JobOK(j)'
  <2>1. <<"import", "unpack">> \in Point /\ "import" # None
    BY FileFacts DEF Point, AllOps
  <2> QED
    BY <1>2, <1>3, <1>4, <1>8, <1>10, <2>1 DEF JobOK, Active
<1>15. ASSUME i \notin hurt PROVE FilesOK(j)'
  <2>1. tarball.whole /\ \A g \in File \ job[j].todo : Made(d)[g] = pledge[i][g]
    BY <1>1, <1>2, <1>4, <1>11, <1>15 DEF FilesInv, FilesOK, At
  <2>2. tarball.files = pledge[i]
    BY <1>1, <1>6, <1>15, <2>1 DEF FilesInv, TarballOK
  <2>3. \A g \in File \ r.todo : dir'[i][g] = pledge[i][g]
    BY <1>8, <1>12, <1>13, <2>1, <2>2
  <2>4. dir'[i] # Missing
    BY <1>12, <1>13, FileFacts
  <2>5. \A g \in File \ r.todo : Made(dir[i])'[g] = pledge[i][g]
    BY <2>3, <2>4 DEF Made
  <2> QED
    BY <1>2, <1>8, <1>10, <2>1, <2>5 DEF FilesOK, At, Made
<1>16. LoadOK(j)'
  BY <1>8, <1>10 DEF LoadOK
<1>17. ~Restoring(j)
  BY <1>2 DEF Restoring
<1>18. /\ vol' \in [Volume -> Data \cup {Missing}]
       /\ manifest' \in [Snap -> Manifest \cup {Missing, Torn}] /\ manifest' = manifest
  BY <1>1, <1>2 DEF FilesTyped
<1> QED
  BY <1>2, <1>3, <1>4, <1>8, <1>9, <1>13, <1>14, <1>15, <1>16, <1>17, <1>18, MoveStep

\* A copy that is not there is not owed.
LEMMA OwedFacts ==
  ASSUME IInv, NEW j \in Job, Active(j), job[j].op = "load", job[j].id \notin hurt, job[j].id \in Snap,
         NEW f \in File, CopyOf(j, f) = Missing
  PROVE  f \notin Owed(j)
<1>1. FilesInv /\ JobOK(j)
  BY DEF IInv, JobsInv
<1>2. /\ dir[job[j].id] = pledge[job[j].id] /\ pledge[job[j].id] # Missing
      /\ Good(job[j].man, pledge[job[j].id])
  BY <1>1 DEF FilesInv, FilesOK, Written
<1>3. pledge[job[j].id][f] = Missing
  BY <1>2 DEF CopyOf
<1> QED
  BY <1>2, <1>3 DEF Owed, Good

\* The data that a restore leaves in a volume.
LEMMA DataFacts ==
  ASSUME NEW data \in Data \cup {Missing}, NEW copy \in Data
  PROVE  /\ Over(data, copy) \in Data /\ Holds(Over(data, copy), copy)
         /\ \A x \in PartOver(data) : x \in Data
<1>1. ASSUME NEW p \in Path PROVE copy[p] \in Version \cup {Missing} /\ Files(data)[p] \in Version \cup {Missing}
  BY DEF Data, Files
<1>2. Over(data, copy) \in Data
  BY <1>1 DEF Data, Over
<1>3. Holds(Over(data, copy), copy)
  BY DEF Holds, Over
<1> QED
  BY <1>2, <1>3 DEF PartOver

\* What is put back is what was saved, or the user is warned.
LEMMA RestoreVolumeKeeps ==
  ASSUME IInv, NEW j \in Job, RestoreVolume(j)
  PROVE  IInv'
<1>1. JobsInv /\ FilesInv /\ FilesTyped
  BY DEF IInv, JobsInv
<1>2. /\ job[j].op = "load" /\ job[j].pc = "volumes"
      /\ UNCHANGED <<secretsVars, dir, manifest, tarball, done, overlaps, hurt, pledge>>
  BY DEF RestoreVolume, At
<1>3. Active(j) /\ JobOK(j) /\ job[j] \in JobRec /\ job[j].id \in Snap /\ LoadOK(j)
  BY <1>1, <1>2, ActiveFacts DEF At, FilesInv
<1>4. PICK i \in Snap : i = job[j].id
  BY <1>3
<1>5. job[j].man \in Manifest /\ job[j].todo \subseteq File /\ job[j].warned \in BOOLEAN /\ job[j].back \subseteq File
  BY <1>2, <1>3 DEF JobOK, JobRec
<1>6. vol \in [Volume -> Data \cup {Missing}] /\ dir[i] \in Directory \cup {Missing} /\ job \in [Job -> JobRec]
  BY <1>1 DEF FilesTyped
<1>7. PICK v \in job[j].todo \ SecretFile :
        LET copy == CopyOf(j, v)
        IN  \/ /\ copy = Missing
               /\ job' = [job EXCEPT ![j].todo = @ \ {v}]
               /\ UNCHANGED vol
            \/ /\ copy # Missing
               /\ \E out \in importVolume(v, copy) :
                    /\ vol' = [vol EXCEPT ![v] = out.data]
                    /\ job' = [job EXCEPT ![j].todo = @ \ {v}, ![j].warned = @ \/ ~out.ok,
                         ![j].back = IF out.ok /\ copy # Torn /\ Holds(out.data, copy)
                                        THEN @ \cup {v} ELSE @]
  BY DEF RestoreVolume
<1>8. v \in Volume /\ v \in File
  BY <1>5, <1>7 DEF File
<1>9. PICK copy \in {Missing, Torn} \cup Data : copy = CopyOf(j, v)
  <2>1. dir[i] # Missing => dir[i][v] \in Content(v)
    BY <1>6, <1>8, DirectoryFacts
  <2> QED
    BY <1>4, <1>8, <2>1, ContentFacts DEF CopyOf
<1>10. PICK r \in JobRec :
         /\ vol' \in [Volume -> Data \cup {Missing}]
         /\ job' = [job EXCEPT ![j] = r]
         /\ r.op = "load" /\ r.pc = "volumes" /\ r.id = i /\ r.man = job[j].man
         /\ r.todo = job[j].todo \ {v} /\ r.ids = job[j].ids
         /\ ~r.warned => ~job[j].warned
         /\ job[j].back \subseteq r.back
         /\ Mounted /\ ~r.warned /\ copy # Missing => v \in r.back
  <2>1. CASE copy = Missing
    <3>1. job' = [job EXCEPT ![j].todo = @ \ {v}] /\ UNCHANGED vol
      BY <1>7, <1>9, <2>1
    <3> DEFINE r == [job[j] EXCEPT !.todo = @ \ {v}]
    <3>2. /\ r \in JobRec /\ r.op = "load" /\ r.pc = "volumes" /\ r.id = i /\ r.man = job[j].man
          /\ r.todo = job[j].todo \ {v} /\ r.ids = job[j].ids /\ r.warned = job[j].warned
          /\ r.back = job[j].back
      BY <1>2, <1>3, <1>4 DEF JobRec
    <3>3. job' = [job EXCEPT ![j] = r]
      BY <3>1
    <3> HIDE DEF r
    <3> QED
      BY <1>6, <2>1, <3>1, <3>2, <3>3
  <2>2. CASE copy # Missing
    <3>1. PICK out \in importVolume(v, copy) :
            /\ vol' = [vol EXCEPT ![v] = out.data]
            /\ job' = [job EXCEPT ![j].todo = @ \ {v}, ![j].warned = @ \/ ~out.ok,
                 ![j].back = IF out.ok /\ copy # Torn /\ Holds(out.data, copy) THEN @ \cup {v} ELSE @]
      BY <1>7, <1>9, <2>2
    <3>2. vol[v] \in Data \cup {Missing}
      BY <1>6, <1>8
    <3>3. /\ out.ok \in BOOLEAN /\ out.data \in Data \cup {Missing}
          /\ out.ok /\ Mounted => copy # Torn /\ Holds(out.data, copy)
      <4>1. \/ copy # Torn /\ out = [ok |-> TRUE, data |-> Over(vol[v], copy)]
            \/ \E x \in PartOver(vol[v]) : out = [ok |-> FALSE, data |-> x]
            \/ out = [ok |-> FALSE, data |-> vol[v]]
            \/ ~Mounted /\ \E x \in PartOver(vol[v]) : out = [ok |-> TRUE, data |-> x]
        BY <3>1 DEF importVolume, untarToDirectory
      <4>2. CASE copy # Torn /\ out = [ok |-> TRUE, data |-> Over(vol[v], copy)]
        <5>1. out.ok = TRUE /\ out.data = Over(vol[v], copy) /\ copy \in Data
          BY <2>2, <4>2
        <5> QED
          BY <3>2, <4>2, <5>1, DataFacts
      <4>3. CASE \E x \in PartOver(vol[v]) : out = [ok |-> FALSE, data |-> x]
        <5>1. out.ok = FALSE /\ out.data \in PartOver(vol[v])
          BY <4>3
        <5> QED
          BY <5>1 DEF PartOver
      <4>4. CASE out = [ok |-> FALSE, data |-> vol[v]]
        <5>1. out.ok = FALSE /\ out.data = vol[v]
          BY <4>4
        <5> QED
          BY <3>2, <5>1
      <4>5. CASE ~Mounted /\ \E x \in PartOver(vol[v]) : out = [ok |-> TRUE, data |-> x]
        <5>1. out.ok = TRUE /\ out.data \in PartOver(vol[v])
          BY <4>5
        <5> QED
          BY <4>5, <5>1 DEF PartOver
      <4> QED
        BY <4>1, <4>2, <4>3, <4>4, <4>5
    <3>4. PICK ok \in BOOLEAN, back \in BOOLEAN :
            ok = out.ok /\ back = (out.ok /\ copy # Torn /\ Holds(out.data, copy))
      BY <3>3
    <3>5. job' = [job EXCEPT ![j].todo = @ \ {v}, ![j].warned = @ \/ ~ok,
                    ![j].back = IF back THEN @ \cup {v} ELSE @]
      BY <3>1, <3>4
    <3>6. PICK r : r = job'[j]
      OBVIOUS
    <3>7. job' = [job EXCEPT ![j] = r]
      <4>1. job' = [job EXCEPT ![j] = job'[j]]
        BY <1>6, <3>5
      <4> QED
        BY <3>6, <4>1
    <3>8. r = [job[j] EXCEPT !.todo = @ \ {v}, !.warned = @ \/ ~ok, !.back = IF back THEN @ \cup {v} ELSE @]
      BY <1>6, <3>5, <3>6 DEF JobRec
    <3>9. /\ r \in JobRec /\ r.op = "load" /\ r.pc = "volumes" /\ r.id = i /\ r.man = job[j].man
          /\ r.todo = job[j].todo \ {v} /\ r.ids = job[j].ids
          /\ r.warned = (job[j].warned \/ ~ok)
          /\ r.back = IF back THEN job[j].back \cup {v} ELSE job[j].back
      BY <1>2, <1>3, <1>4, <1>8, <3>8 DEF JobRec
    <3>10. Mounted /\ ok => back
      BY <3>3, <3>4
    <3>11. vol' \in [Volume -> Data \cup {Missing}]
      BY <1>6, <3>1, <3>3
    <3>12. (~r.warned => ~job[j].warned /\ ok) /\ job[j].back \subseteq r.back /\ (back => v \in r.back)
      BY <3>9
    <3> QED
      BY <3>7, <3>9, <3>10, <3>11, <3>12
  <2> QED
    BY <2>1, <2>2
<1>11. job'[j] = r
  BY <1>1, <1>10, JobMoves
<1>12. JobOK(j)'
  <2>1. <<"load", "volumes">> \in Point /\ "load" # None
    BY FileFacts DEF Point, AllOps
  <2> QED
    BY <1>2, <1>3, <1>4, <1>10, <1>11, <2>1 DEF JobOK, Active
<1>13. ASSUME i \notin hurt PROVE FilesOK(j)'
  <2>1. Written(i) /\ job[j].man = manifest[i]
    BY <1>1, <1>2, <1>3, <1>4, <1>13 DEF FilesInv, FilesOK
  <2>2. Written(job[j].id)'
    BY <1>2, <1>10, <1>11, <2>1 DEF Written
  <2> QED
    BY <1>2, <1>10, <1>11, <2>1, <2>2 DEF FilesOK, At
<1>14. LoadOK(j)'
  <2>1. ASSUME Mounted, ~r.warned, i \notin hurt PROVE Owed(j) \subseteq r.back \cup r.todo
    <3>1. Owed(j) \subseteq job[j].back \cup job[j].todo
      BY <1>2, <1>3, <1>4, <1>10, <2>1 DEF LoadOK
    <3>2. v \in Owed(j) => v \in r.back
      <4>1. copy = Missing => v \notin Owed(j)
        BY <1>2, <1>3, <1>4, <1>8, <1>9, <2>1, OwedFacts
      <4> QED
        BY <1>10, <2>1, <4>1
    <3> QED
      BY <1>10, <3>1, <3>2
  <2>2. Owed(j)' = Owed(j)
    BY <1>2, <1>4, <1>10, <1>11 DEF Owed
  <2> QED
    BY <1>2, <1>10, <1>11, <2>1, <2>2 DEF LoadOK
<1>15. ~Restoring(j)
  BY <1>2 DEF Restoring
<1>16. /\ manifest' \in [Snap -> Manifest \cup {Missing, Torn}] /\ dir' \in [Snap -> Directory \cup {Missing}]
       /\ UNCHANGED <<dir, manifest>>
  BY <1>1, <1>2 DEF FilesTyped
<1> QED
  BY <1>2, <1>3, <1>4, <1>10, <1>12, <1>13, <1>14, <1>15, <1>16, MoveStep

\* A command other than a Load has nothing in memory once it ended.
LEMMA EndsQuietly ==
  ASSUME FilesTyped, NEW j \in Job, NEW pc \in {"ok", "failed"}, Ends(j, pc), job[j].op # "load"
  PROVE  /\ job'[j].op = None /\ job'[j].id = None /\ LoadOK(j)'
         /\ \A k \in Job \ {j} : job'[k] = job[k]
<1>1. job' = [job EXCEPT ![j] = Idle]
  BY DEF Ends
<1>2. job'[j] = Idle /\ \A k \in Job \ {j} : job'[k] = job[k]
  BY <1>1 DEF FilesTyped
<1>3. "load" # None
  BY FileFacts DEF AllOps
<1> QED
  BY <1>2, <1>3, IdleFacts DEF LoadOK

LEMMA ImportUnpackedKeeps ==
  ASSUME IInv, NEW j \in Job, ImportUnpacked(j)
  PROVE  IInv'
<1>1. JobsInv /\ FilesInv /\ FilesTyped /\ PledgeOK
  BY DEF IInv, JobsInv
<1>2. /\ job[j].op = "import" /\ job[j].pc = "unpack" /\ job[j].todo = {}
      /\ UNCHANGED <<secretsVars, vol, manifest, tarball, done, overlaps, hurt, pledge>>
      /\ IF tarball.whole THEN Becomes(j, "manifest") ELSE Ends(j, "failed")
  BY DEF ImportUnpacked, At
<1>3. Active(j) /\ JobOK(j) /\ job[j] \in JobRec /\ job[j].id \in Snap
  BY <1>1, <1>2, ActiveFacts DEF At
<1>4. PICK i \in Snap : i = job[j].id
  BY <1>3
<1>5. PICK d : d = Made(dir[i])
  OBVIOUS
<1>6. dir' = [dir EXCEPT ![i] = d]
  BY <1>4, <1>5 DEF ImportUnpacked
<1>7. d \in Directory
  BY <1>1, <1>5, MadeFacts DEF FilesTyped
<1>8. /\ dir' \in [Snap -> Directory \cup {Missing}] /\ dir'[i] = d
      /\ \A a \in Snap \ {i} : dir'[a] = dir[a]
  BY <1>1, <1>6, <1>7 DEF FilesTyped
<1>9. tarball \in Tarball /\ tarball # Missing /\ tarball.id = i
  BY <1>1, <1>2, <1>3, <1>4 DEF JobOK, FilesTyped
<1>10. pledge[i] \in Directory
  BY <1>1, <1>9 DEF PledgeOK, FilesTyped
<1>11. ASSUME i \notin hurt PROVE d = pledge[i] /\ tarball.whole
  <2>1. tarball.whole /\ \A f \in File : d[f] = pledge[i][f]
    BY <1>1, <1>2, <1>4, <1>5, <1>11 DEF FilesInv, FilesOK, At
  <2> QED
    BY <1>7, <1>10, <2>1, SameFiles
<1>12. ~Restoring(j)
  BY <1>2 DEF Restoring
<1>13. /\ vol' \in [Volume -> Data \cup {Missing}]
       /\ manifest' \in [Snap -> Manifest \cup {Missing, Torn}] /\ manifest' = manifest
  BY <1>1, <1>2 DEF FilesTyped
<1>14. CASE tarball.whole
  <2>1. PICK r \in JobRec :
          /\ job' = [job EXCEPT ![j] = r] /\ r.pc = "manifest" /\ r.op = "import" /\ r.id = i
          /\ r.man = job[j].man /\ r.ids = job[j].ids
    BY <1>1, <1>2, <1>4, <1>14, BecomesFacts
  <2>2. job'[j] = r
    BY <1>1, <2>1, JobMoves
  <2>3. JobOK(j)'
    <3>1. <<"import", "manifest">> \in Point /\ "import" # None
      BY FileFacts DEF Point, AllOps
    <3> QED
      BY <1>2, <1>3, <1>4, <2>1, <2>2, <3>1 DEF JobOK, Active
  <2>4. i \notin hurt => FilesOK(j)'
    BY <1>2, <1>8, <1>11, <2>1, <2>2 DEF FilesOK, At
  <2>5. LoadOK(j)'
    BY <2>1, <2>2 DEF LoadOK
  <2> QED
    BY <1>2, <1>3, <1>4, <1>8, <1>12, <1>13, <2>1, <2>3, <2>4, <2>5, MoveStep
<1>15. CASE ~tarball.whole
  <2>1. Ends(j, "failed") /\ i \in hurt
    BY <1>2, <1>4, <1>11, <1>15
  <2>2. LoadOK(j)'
    BY <1>1, <1>2, <2>1, EndsQuietly
  <2>3. Elsewhere(i) /\ TarballStays(j)
    BY <1>2, <1>8 DEF Elsewhere, TarballStays
  <2>4. TarballOK'
    BY <1>1, <1>2 DEF FilesInv, TarballOK
  <2>5. /\ pledge' \in [Snap -> Directory \cup {Missing}] /\ tarball' \in Tarball \cup {Missing}
        /\ tarball' # Missing => pledge'[tarball'.id] # Missing
    BY <1>1, <1>2 DEF FilesTyped, PledgeOK
  <2> QED
    BY <1>2, <1>3, <1>4, <1>8, <1>12, <1>13, <2>1, <2>2, <2>3, <2>4, <2>5, EndStep
<1> QED
  BY <1>14, <1>15

\* The manifest of a Save counts what was copied, that of an Import what was unpacked.
LEMMA WriteManifestKeeps ==
  ASSUME IInv, NEW j \in Job, WriteManifest(j)
  PROVE  IInv'
<1>1. JobsInv /\ FilesInv /\ FilesTyped /\ PledgeOK
  BY DEF IInv, JobsInv
<1>2. /\ job[j].op \in {"save", "import"} /\ job[j].pc = "listed" /\ Ends(j, "ok")
      /\ UNCHANGED <<secretsVars, vol, dir, tarball, done, overlaps, hurt>>
  BY DEF WriteManifest
<1>3. Active(j) /\ JobOK(j) /\ job[j] \in JobRec /\ job[j].id \in Snap
  BY <1>1, <1>2, ActiveFacts DEF At
<1>4. PICK i \in Snap : i = job[j].id
  BY <1>3
<1>5. PICK man \in Manifest, d \in Directory : man = job[j].man /\ d = Made(dir[i])
  <2>1. job[j].man \in Manifest
    BY <1>2, <1>3 DEF JobOK
  <2>2. Made(dir[i]) \in Directory
    BY <1>1, MadeFacts DEF FilesTyped
  <2> QED
    BY <2>1, <2>2
<1>6. /\ manifest' = [manifest EXCEPT ![i] = man]
      /\ pledge' = IF job[j].op = "save" THEN [pledge EXCEPT ![i] = d] ELSE pledge
  BY <1>4, <1>5 DEF WriteManifest
<1>7. /\ manifest' \in [Snap -> Manifest \cup {Missing, Torn}] /\ manifest'[i] = man
      /\ pledge' \in [Snap -> Directory \cup {Missing}]
      /\ job[j].op = "save" => pledge'[i] = d
      /\ job[j].op # "save" => pledge'[i] = pledge[i]
      /\ \A a \in Snap \ {i} : manifest'[a] = manifest[a] /\ pledge'[a] = pledge[a]
  BY <1>1, <1>6 DEF FilesTyped
<1>8. job[j].op = "save" => pledge[i] = Missing
  BY <1>1, <1>4 DEF PledgeOK
<1>9. Elsewhere(i) /\ TarballStays(j)
  BY <1>2, <1>7, <1>8 DEF Elsewhere, TarballStays
<1>10. job[j].op = "import" => tarball # Missing /\ tarball.id = i /\ tarball.man = man /\ pledge[i] # Missing
  BY <1>1, <1>3, <1>4, <1>5 DEF JobOK, PledgeOK
<1>11. pledge'[i] # Missing
  BY <1>2, <1>7, <1>10, FileFacts
<1>12. \A a \in Snap : pledge'[a] # pledge[a] =>
         /\ pledge'[a] # Missing
         /\ \A k \in Job \ {j} : ~(job[k].op = "save" /\ job[k].id = a)
  <2>1. ASSUME job[j].op = "save", NEW k \in Job \ {j} PROVE ~(job[k].op = "save" /\ job[k].id = i)
    BY <1>1, <1>4, <2>1 DEF PledgeOK
  <2> QED
    BY <1>7, <1>11, <2>1
<1>13. \A a \in Snap : manifest'[a] \in Manifest => manifest[a] \in Manifest \/ pledge'[a] # Missing
  BY <1>7, <1>11
<1>14. \A a \in Snap : pledge[a] # Missing => pledge'[a] = pledge[a]
  BY <1>7, <1>8
<1>15. tarball # Missing => tarball.id \in Snap /\ pledge[tarball.id] # Missing
  BY <1>1 DEF PledgeOK, FilesTyped, Tarball
<1>16. tarball' # Missing => pledge'[tarball'.id] # Missing
  BY <1>2, <1>14, <1>15
<1>17. TarballOK'
  <2>1. TarballOK
    BY <1>1 DEF FilesInv
  <2>2. tarball # Missing => pledge'[tarball.id] = pledge[tarball.id]
    BY <1>14, <1>15
  <2> QED
    BY <1>2, <2>1, <2>2 DEF TarballOK
<1>18. ASSUME i \in Snap \ hurt PROVE Written(i)'
  <2>1. CASE job[j].op = "save"
    <3>1. dir[i] # Missing /\ Good(man, dir[i])
      BY <1>1, <1>4, <1>5, <1>18, <2>1 DEF FilesInv, FilesOK
    <3>2. d = dir[i]
      BY <1>1, <1>5, <3>1, MadeFacts DEF FilesTyped
    <3> QED
      BY <1>2, <1>7, <1>11, <2>1, <3>1, <3>2 DEF Written
  <2>2. CASE job[j].op = "import"
    <3>1. dir[i] = pledge[i]
      BY <1>1, <1>2, <1>4, <1>18, <2>2 DEF FilesInv, FilesOK
    <3>2. Good(man, pledge[i])
      BY <1>1, <1>10, <1>18, <2>2 DEF FilesInv, TarballOK
    <3> QED
      BY <1>2, <1>7, <1>11, <2>2, <3>1, <3>2 DEF Written
  <2> QED
    BY <1>2, <2>1, <2>2
<1>19. i \in Snap \ hurt => SettledOK(i)'
  BY <1>18 DEF SettledOK
<1>20. LoadOK(j)'
  BY <1>1, <1>2, EndsQuietly
<1>21. ASSUME ~collided, ~Cloned, i \in Snap \ hurt PROVE Coherent(pledge'[i])
  <2>1. ReadableOK
    BY <1>21 DEF IInv
  <2>2. CASE job[j].op = "save"
    <3>1. Coherent(dir[i]) /\ dir[i] # Missing
      BY <1>1, <1>2, <1>4, <1>21, <2>1, <2>2 DEF ReadableOK, FilesInv, FilesOK
    <3>2. d = dir[i]
      BY <1>1, <1>5, <3>1, MadeFacts DEF FilesTyped
    <3> QED
      BY <1>7, <2>2, <3>1, <3>2
  <2>3. CASE job[j].op = "import"
    BY <1>7, <1>10, <1>21, <2>1, <2>3 DEF ReadableOK
  <2> QED
    BY <1>2, <2>2, <2>3
<1>22. ~Restoring(j)
  BY <1>2 DEF Restoring
<1>23. dir' \in [Snap -> Directory \cup {Missing}] /\ tarball' \in Tarball \cup {Missing}
  BY <1>1, <1>2 DEF FilesTyped
<1> QED
  BY <1>2, <1>3, <1>4, <1>7, <1>9, <1>12, <1>13, <1>16, <1>17, <1>19, <1>20, <1>21, <1>22, <1>23, EndStep

LEMMA LoadDoneKeeps ==
  ASSUME IInv, NEW j \in Job, LoadDone(j)
  PROVE  IInv'
<1>1. JobsInv /\ FilesInv /\ FilesTyped /\ PledgeOK
  BY DEF IInv, JobsInv
<1>2. /\ job[j].op = "load" /\ job[j].pc = "volumes" /\ job[j].todo = {} /\ Ends(j, "ok")
      /\ UNCHANGED <<secretsVars, vol, dir, manifest, tarball, done, overlaps, hurt, pledge>>
  BY DEF LoadDone, At
<1>3. Active(j) /\ JobOK(j) /\ job[j] \in JobRec /\ job[j].id \in Snap /\ LoadOK(j)
  BY <1>1, <1>2, ActiveFacts DEF At, FilesInv
<1>4. PICK i \in Snap : i = job[j].id
  BY <1>3
<1>5. PICK r \in JobRec :
        /\ job' = [job EXCEPT ![j] = r] /\ r.pc = "ok" /\ r.op = "load" /\ r.id = i /\ r.man = job[j].man
        /\ r.warned = job[j].warned /\ r.back = job[j].back
  BY <1>1, <1>2, <1>4, EndsFacts
<1>6. job'[j] = r /\ \A k \in Job \ {j} : job'[k] = job[k]
  BY <1>1, <1>5, JobMoves
<1>7. LoadOK(j)'
  <2>1. Owed(j)' = Owed(j)
    BY <1>2, <1>4, <1>5, <1>6 DEF Owed
  <2> QED
    BY <1>2, <1>3, <1>4, <1>5, <1>6, <2>1 DEF LoadOK, Active
<1>8. \A k \in Job : Changes(k, i)' <=> Changes(k, i)
  BY <1>2, <1>5, <1>6 DEF Changes
<1>9. i \in Snap \ hurt => SettledOK(i)'
  <2>1. i \in Snap \ hurt => SettledOK(i)
    BY <1>1 DEF FilesInv
  <2> QED
    BY <1>2, <1>8, <2>1 DEF SettledOK, Written, Gone
<1>10. TarballOK' /\ TarballStays(j) /\ Elsewhere(i) /\ ~Restoring(j)
  BY <1>1, <1>2 DEF FilesInv, TarballOK, TarballStays, Elsewhere, Restoring
<1>11. ~collided /\ ~Cloned => (i \in Snap \ hurt /\ pledge'[i] # Missing => Coherent(pledge'[i]))
  BY <1>2 DEF IInv, ReadableOK
<1>12. /\ dir' \in [Snap -> Directory \cup {Missing}] /\ tarball' \in Tarball \cup {Missing}
       /\ manifest' \in [Snap -> Manifest \cup {Missing, Torn}]
       /\ pledge' \in [Snap -> Directory \cup {Missing}]
       /\ tarball' # Missing => pledge'[tarball'.id] # Missing
  BY <1>1, <1>2 DEF FilesTyped, PledgeOK
<1> QED
  BY <1>2, <1>3, <1>4, <1>7, <1>9, <1>10, <1>11, <1>12, EndStep

LEMMA DeleteManifestKeeps ==
  ASSUME IInv, NEW j \in Job, DeleteManifest(j)
  PROVE  IInv'
<1>1. JobsInv /\ FilesInv /\ FilesTyped /\ PledgeOK
  BY DEF IInv, JobsInv
<1>2. /\ job[j].op = "delete" /\ job[j].pc = "unlist"
      /\ UNCHANGED <<secretsVars, vol, dir, tarball, done, overlaps, hurt, pledge>>
  BY DEF DeleteManifest, At
<1>3. Active(j) /\ JobOK(j) /\ job[j] \in JobRec /\ job[j].id \in Snap
  BY <1>1, <1>2, ActiveFacts DEF At
<1>4. PICK i \in Snap : i = job[j].id
  BY <1>3
<1>5. PICK pc \in {"ok", "failed"} : Ends(j, pc)
  BY DEF DeleteManifest
<1>6. manifest' = [manifest EXCEPT ![i] = Missing]
  BY <1>4 DEF DeleteManifest
<1>7. /\ manifest' \in [Snap -> Manifest \cup {Missing, Torn}] /\ manifest'[i] = Missing
      /\ \A a \in Snap \ {i} : manifest'[a] = manifest[a]
      /\ \A a \in Snap : manifest'[a] \in Manifest => manifest[a] \in Manifest
  BY <1>1, <1>6, FileFacts DEF FilesTyped
<1>8. i \in Snap \ hurt => SettledOK(i)'
  <2>1. i \notin hurt => dir[i] = Missing
    BY <1>1, <1>2, <1>4 DEF FilesInv, FilesOK
  <2> QED
    BY <1>2, <1>7, <2>1 DEF SettledOK, Gone
<1>9. LoadOK(j)'
  BY <1>1, <1>2, <1>5, EndsQuietly
<1>10. TarballOK' /\ TarballStays(j) /\ Elsewhere(i) /\ ~Restoring(j)
  BY <1>1, <1>2, <1>7 DEF FilesInv, TarballOK, TarballStays, Elsewhere, Restoring
<1>11. ~collided /\ ~Cloned => (i \in Snap \ hurt /\ pledge'[i] # Missing => Coherent(pledge'[i]))
  BY <1>2 DEF IInv, ReadableOK
<1>12. /\ dir' \in [Snap -> Directory \cup {Missing}] /\ tarball' \in Tarball \cup {Missing}
       /\ pledge' \in [Snap -> Directory \cup {Missing}]
       /\ tarball' # Missing => pledge'[tarball'.id] # Missing
  BY <1>1, <1>2 DEF FilesTyped, PledgeOK
<1> QED
  BY <1>2, <1>3, <1>4, <1>5, <1>7, <1>8, <1>9, <1>10, <1>11, <1>12, EndStep

\* The tarball has all the files, or those of an id that is hurt.
LEMMA ExportWalkKeeps ==
  ASSUME IInv, NEW j \in Job, ExportWalk(j)
  PROVE  IInv'
<1>1. JobsInv /\ FilesInv /\ FilesTyped /\ PledgeOK
  BY DEF IInv, JobsInv
<1>2. /\ job[j].op = "export" /\ job[j].pc = "walk"
      /\ UNCHANGED <<secretsVars, vol, dir, manifest, done, overlaps, hurt, pledge>>
  BY DEF ExportWalk, At
<1>3. Active(j) /\ JobOK(j) /\ job[j] \in JobRec /\ job[j].id \in Snap
  BY <1>1, <1>2, ActiveFacts DEF At
<1>4. PICK i \in Snap : i = job[j].id
  BY <1>3
<1>5. PICK pc \in {"ok", "failed"} : Ends(j, pc)
  BY DEF ExportWalk
<1>6. PICK files : files = IF dir[i] = Missing THEN NoFiles ELSE dir[i]
  OBVIOUS
<1>7. tarball' = [id |-> i, man |-> tarball.man, files |-> files, whole |-> TRUE]
  BY <1>4, <1>6 DEF ExportWalk
<1>8. tarball \in Tarball /\ tarball # Missing /\ tarball.id = i
  BY <1>1, <1>2, <1>3, <1>4 DEF JobOK, FilesTyped
<1>9. files \in Directory
  BY <1>1, <1>6, DirectoryFacts DEF FilesTyped
<1>10. /\ tarball' \in Tarball /\ tarball' # Missing /\ tarball'.id = i /\ tarball'.man = tarball.man
       /\ tarball'.files = files /\ tarball'.whole
  <2>1. tarball' \in Tarball
    BY <1>7, <1>8, <1>9 DEF Tarball
  <2>2. tarball'.id = i /\ tarball'.man = tarball.man /\ tarball'.files = files /\ tarball'.whole
    BY <1>7
  <2> QED
    BY <2>1, <2>2, FileFacts
<1>11. TarballOK'
  <2>1. i \notin hurt => dir[i] = pledge[i] /\ pledge[i] # Missing
    BY <1>1, <1>2, <1>3, <1>4 DEF FilesInv, FilesOK, Written
  <2>2. i \notin hurt => Good(tarball.man, pledge[i])
    BY <1>1, <1>8 DEF FilesInv, TarballOK
  <2> QED
    BY <1>2, <1>6, <1>10, <2>1, <2>2 DEF TarballOK
<1>12. job'[j].op = None /\ LoadOK(j)' /\ \A k \in Job \ {j} : job'[k] = job[k]
  BY <1>1, <1>2, <1>5, EndsQuietly
<1>13. \A k \in Job : Changes(k, i)' <=> Changes(k, i)
  <2>1. None \notin {"save", "delete", "gc", "import"}
    BY FileFacts DEF AllOps
  <2> QED
    BY <1>2, <1>12, <2>1 DEF Changes
<1>14. i \in Snap \ hurt => SettledOK(i)'
  <2>1. i \in Snap \ hurt => SettledOK(i)
    BY <1>1 DEF FilesInv
  <2> QED
    BY <1>2, <1>13, <2>1 DEF SettledOK, Written, Gone
<1>15. TarballStays(j) /\ Elsewhere(i) /\ ~Restoring(j)
  BY <1>2, <1>8, <1>10 DEF TarballStays, Elsewhere, Restoring
<1>16. ~collided /\ ~Cloned => (i \in Snap \ hurt /\ pledge'[i] # Missing => Coherent(pledge'[i]))
  BY <1>2 DEF IInv, ReadableOK
<1>17. /\ dir' \in [Snap -> Directory \cup {Missing}] /\ tarball' \in Tarball \cup {Missing}
       /\ manifest' \in [Snap -> Manifest \cup {Missing, Torn}]
       /\ pledge' \in [Snap -> Directory \cup {Missing}]
       /\ tarball' # Missing => pledge'[tarball'.id] # Missing
  BY <1>1, <1>2, <1>8, <1>10 DEF FilesTyped, PledgeOK
<1> QED
  BY <1>2, <1>3, <1>4, <1>5, <1>11, <1>12, <1>14, <1>15, <1>16, <1>17, EndStep

LEMMA GCNextKeeps ==
  ASSUME IInv, NEW j \in Job, GCNext(j)
  PROVE  IInv'
<1>1. JobsInv /\ FilesInv /\ FilesTyped /\ PledgeOK
  BY DEF IInv, JobsInv
<1>2. /\ job[j].op = "gc" /\ job[j].pc = "next"
      /\ UNCHANGED <<secretsVars, vol, dir, manifest, tarball, done, overlaps, hurt, pledge>>
  BY DEF GCNext, At
<1>3. Active(j) /\ JobOK(j) /\ job[j] \in JobRec
  BY <1>1, <1>2, ActiveFacts DEF At
<1>4. job[j].id = None /\ job[j].ids \subseteq Snap
  BY <1>2, <1>3 DEF JobOK, JobRec
<1>5. Elsewhere(None) /\ Unshared(j, None) /\ TarballStays(j) /\ ~Restoring(j) /\ TarballOK' /\ None \notin Snap
  BY <1>1, <1>2, FileFacts DEF Elsewhere, Unshared, TarballStays, Restoring, FilesInv, TarballOK
<1>6. /\ dir' \in [Snap -> Directory \cup {Missing}] /\ tarball' \in Tarball \cup {Missing}
      /\ manifest' \in [Snap -> Manifest \cup {Missing, Torn}]
      /\ pledge' \in [Snap -> Directory \cup {Missing}]
      /\ tarball' # Missing => pledge'[tarball'.id] # Missing
  BY <1>1, <1>2 DEF FilesTyped, PledgeOK
<1>7. CASE job[j].ids = {}
  <2>1. Ends(j, "ok")
    BY <1>7 DEF GCNext
  <2>2. LoadOK(j)'
    BY <1>1, <1>2, <2>1, EndsQuietly
  <2>3. PICK i : i = None
    OBVIOUS
  <2> QED
    BY <1>2, <1>3, <1>4, <1>5, <1>6, <2>1, <2>2, <2>3, EndStep
<1>8. CASE job[j].ids # {}
  <2>1. PICK a \in job[j].ids : job' = [job EXCEPT ![j].pc = "dir", ![j].id = a]
    BY <1>8 DEF GCNext
  <2> DEFINE r == [job[j] EXCEPT !.pc = "dir", !.id = a]
  <2>2. r \in JobRec /\ r.op = "gc" /\ r.pc = "dir" /\ r.id = a /\ r.ids = job[j].ids
    BY <1>2, <1>3, <1>4, <2>1 DEF JobRec
  <2>3. job' = [job EXCEPT ![j] = r]
    BY <2>1
  <2> HIDE DEF r
  <2>4. job' \in [Job -> JobRec] /\ job'[j] = r
    BY <1>1, <2>2, <2>3, JobMoves
  <2>5. FilesTyped'
    BY <1>1, <1>2, <1>6, <2>4 DEF FilesTyped
  <2>6. a \in Snap /\ a # None
    BY <1>4, <2>1, FileFacts
  <2>7. JobOK(j)'
    <3>1. <<"gc", "dir">> \in Point /\ "gc" # None
      BY FileFacts DEF Point, AllOps
    <3> QED
      BY <1>2, <2>1, <2>2, <2>4, <2>6, <3>1 DEF JobOK, Active
  <2>8. PledgeOK'
    <3>1. \A b \in r.ids : pledge'[b] # Missing
      BY <1>1, <1>2, <2>2 DEF PledgeOK
    <3> QED
      BY <1>1, <1>2, <1>6, <2>2, <2>3, <3>1, PledgeKeeps
  <2>9. Sole'
    <3>1. ({r.id} \cup r.ids) \cap Snap \subseteq Touches(j)
      BY <2>1, <2>2 DEF Touches
    <3> QED
      BY <1>1, <1>2, <1>3, <2>2, <2>3, <3>1, SoleKeeps
  <2>10. FilesOK(j)' /\ LoadOK(j)'
    BY <2>2, <2>4 DEF FilesOK, At, LoadOK
  <2>11. hurt \subseteq hurt' /\ UNCHANGED secretsVars
    BY <1>2
  <2> QED
    BY <1>2, <1>4, <1>5, <2>2, <2>3, <2>5, <2>7, <2>8, <2>9, <2>10, <2>11, QuietJobStep
<1> QED
  BY <1>7, <1>8

LEMMA GCManifestKeeps ==
  ASSUME IInv, NEW j \in Job, GCManifest(j)
  PROVE  IInv'
<1>1. JobsInv /\ FilesInv /\ FilesTyped /\ PledgeOK
  BY DEF IInv, JobsInv
<1>2. /\ job[j].op = "gc" /\ job[j].pc = "unlist"
      /\ UNCHANGED <<secretsVars, vol, dir, tarball, done, overlaps, hurt, pledge>>
  BY DEF GCManifest, At
<1>3. Active(j) /\ JobOK(j) /\ job[j] \in JobRec /\ job[j].id \in Snap
  BY <1>1, <1>2, ActiveFacts DEF At
<1>4. PICK i \in Snap : i = job[j].id
  BY <1>3
<1>5. /\ manifest' = [manifest EXCEPT ![i] = Missing]
      /\ job' = [job EXCEPT ![j].pc = "next", ![j].id = None, ![j].ids = @ \ {i}]
  BY <1>4 DEF GCManifest, NextId
<1>6. /\ manifest' \in [Snap -> Manifest \cup {Missing, Torn}] /\ manifest'[i] = Missing
      /\ \A a \in Snap \ {i} : manifest'[a] = manifest[a]
      /\ \A a \in Snap : manifest'[a] \in Manifest => manifest[a] \in Manifest
  BY <1>1, <1>5, FileFacts DEF FilesTyped
<1> DEFINE r == [job[j] EXCEPT !.pc = "next", !.id = None, !.ids = @ \ {i}]
<1>7. r \in JobRec /\ r.op = "gc" /\ r.pc = "next" /\ r.id = None /\ r.ids = job[j].ids \ {i}
  BY <1>2, <1>3, <1>4 DEF JobRec
<1>8. job' = [job EXCEPT ![j] = r]
  BY <1>5
<1> HIDE DEF r
<1>9. job' \in [Job -> JobRec] /\ job'[j] = r
  BY <1>1, <1>7, <1>8, JobMoves
<1>10. FilesTyped'
  BY <1>1, <1>2, <1>6, <1>9 DEF FilesTyped
<1>11. JobOK(j)'
  <2>1. <<"gc", "next">> \in Point /\ "gc" # None
    BY FileFacts DEF Point, AllOps
  <2> QED
    BY <1>2, <1>7, <1>9, <2>1 DEF JobOK, Active
<1>12. PledgeOK'
  <2>1. \A b \in r.ids : pledge'[b] # Missing
    BY <1>1, <1>2, <1>7 DEF PledgeOK
  <2>2. tarball' # Missing => pledge'[tarball'.id] # Missing
    BY <1>1, <1>2 DEF PledgeOK
  <2> QED
    BY <1>1, <1>2, <1>6, <1>7, <1>8, <2>1, <2>2, PledgeKeeps
<1>13. Sole'
  <2>1. ({r.id} \cup r.ids) \cap Snap \subseteq Touches(j)
    BY <1>7, FileFacts DEF Touches
  <2> QED
    BY <1>1, <1>2, <1>3, <1>7, <1>8, <2>1, SoleKeeps
<1>14. i \in Snap \ hurt' => SettledOK(i)'
  <2>1. i \notin hurt => dir[i] = Missing
    BY <1>1, <1>2, <1>4 DEF FilesInv, FilesOK
  <2> QED
    BY <1>2, <1>6, <2>1 DEF SettledOK, Gone
<1>15. FilesOK(j)' /\ LoadOK(j)'
  BY <1>7, <1>9 DEF FilesOK, At, LoadOK
<1>16. Elsewhere(i) /\ TarballStays(j) /\ ~Restoring(j) /\ TarballOK'
  BY <1>1, <1>2, <1>6 DEF Elsewhere, TarballStays, Restoring, FilesInv, TarballOK
<1>17. hurt \subseteq hurt' /\ UNCHANGED secretsVars
  BY <1>2
<1>18. Unshared(j, i)
  BY <1>1, <1>3, <1>4, <1>17, AloneWithId
<1>19. ~collided /\ ~Cloned => (i \in Snap \ hurt' /\ pledge'[i] # Missing => Coherent(pledge'[i]))
  BY <1>2 DEF IInv, ReadableOK
<1> QED
  BY <1>4, <1>7, <1>8, <1>10, <1>11, <1>12, <1>13, <1>14, <1>15, <1>16, <1>17, <1>18, <1>19, QuietJobStep

\* A service writes its volume, and no snapshot knows.
LEMMA UseKeeps ==
  ASSUME IInv, NEW v \in Volume, Use(v)
  PROVE  IInv'
<1>1. UNCHANGED <<key, store, call, worker, deaths, collided, stale>>
      /\ UNCHANGED <<dir, manifest, tarball, job, done, overlaps, hurt, pledge>>
  BY DEF Use, secretsVars
<1>2. vol' \in [Volume -> Data \cup {Missing}]
  <2>1. vol \in [Volume -> Data \cup {Missing}]
    BY DEF IInv, JobsInv, FilesTyped
  <2>2. Files(vol[v]) \in Data
    BY <2>1 DEF Files, Data
  <2>3. PICK p \in Path, x \in Version \cup {Missing} : vol' = [vol EXCEPT ![v] = [Files(@) EXCEPT ![p] = x]]
    BY DEF Use
  <2>4. PICK data : data = [Files(vol[v]) EXCEPT ![p] = x]
    OBVIOUS
  <2>5. data \in Data
    BY <2>2, <2>4 DEF Data
  <2>6. vol' = [vol EXCEPT ![v] = data]
    BY <2>3, <2>4
  <2> QED
    BY <2>1, <2>5, <2>6
<1>3. SecretsTyped'
  BY <1>1 DEF IInv, SecretsTyped, HasKey, Kind
<1>4. JobsInv'
  <2>1. FilesTyped' /\ \A j \in Job : JobOK(j)'
    BY <1>1, <1>2 DEF IInv, JobsInv, FilesTyped, JobOK, Active
  <2>2. PledgeOK' /\ Sole'
    BY <1>1 DEF IInv, JobsInv, PledgeOK, Sole, Active, Touches
  <2> QED
    BY <2>1, <2>2 DEF JobsInv
<1>5. FilesInv'
  BY <1>1 DEF IInv, FilesInv, SettledOK, Changes, Written, Gone, FilesOK, At, Active, TarballOK, LoadOK, Owed
<1>6. ASSUME ~collided', ~Cloned PROVE ReadableOK'
  <2>1. ReadableOK
    BY <1>1, <1>6 DEF IInv
  <2>2. \A j \in Job : (Restoring(j)' <=> Restoring(j)) /\ (At(j, "save", "store")' <=> At(j, "save", "store"))
    BY <1>1 DEF Restoring, At
  <2>3. (PairOK' <=> PairOK) /\ \A j \in Job : RestoreOK(j)' <=> RestoreOK(j)
    BY <1>1 DEF PairOK, HasKey, RestoreOK, Held
  <2>4. \A j \in Job : Held(dir[job[j].id]["key"])' <=> Held(dir[job[j].id]["key"])
    BY <1>1 DEF Held
  <2> QED
    BY <1>1, <2>1, <2>2, <2>3, <2>4 DEF ReadableOK
<1> QED
  BY <1>3, <1>4, <1>5, <1>6 DEF IInv

\* A command that is cut off hurts the ids it was working on.
LEMMA KillKeeps ==
  ASSUME IInv, NEW j \in Job, Kill(j)
  PROVE  IInv'
<1>1. JobsInv /\ FilesInv /\ FilesTyped /\ PledgeOK /\ SecretsTyped
  BY DEF IInv, JobsInv
<1>2. /\ Active(j) /\ deaths' \in 0..MaxDeaths /\ Ends(j, "failed")
      /\ hurt' = hurt \cup (Touches(j) \ {None})
      /\ collided' = (collided \/ Restoring(j))
      /\ UNCHANGED <<key, store, call, worker, stale, vol, dir, manifest, tarball, done, overlaps, pledge>>
  <2>1. deaths' \in 0..MaxDeaths
    BY <1>1, SecretsAssumption DEF Kill, Fault, SecretsTyped, SecretsAssumption
  <2> QED
    BY <2>1 DEF Kill, Restoring
<1>3. JobOK(j) /\ LoadOK(j) /\ job[j] \in JobRec
  BY <1>1 DEF JobsInv, FilesInv, FilesTyped
<1>4. PICK r \in JobRec :
        /\ job' = [job EXCEPT ![j] = r]
        /\ job[j].op # "load" => r = Idle
        /\ job[j].op = "load" => /\ r.pc = "failed" /\ r.op = "load" /\ r.id = job[j].id /\ r.man = job[j].man
                                 /\ r.warned = job[j].warned /\ r.back = job[j].back /\ r.ids = {}
  BY <1>1, <1>2, EndsFacts
<1>5. job' \in [Job -> JobRec] /\ job'[j] = r
  BY <1>1, <1>4, JobMoves
<1>6. /\ r.pc \in {"idle", "failed"} /\ r.op \in {"load", None} /\ r.ids = {}
      /\ r.op = "load" => /\ r.id = job[j].id /\ r.man = job[j].man /\ r.back = job[j].back
                          /\ job[j].op = "load"
      /\ r.op = None => r.id = None
  BY <1>4, IdleFacts, FileFacts DEF AllOps
<1>7. "load" # None /\ "save" # None /\ "gc" # None /\ "delete" # None /\ "import" # None /\ "export" # None
  BY FileFacts DEF AllOps
<1>8. hurt \subseteq hurt' /\ hurt' \subseteq Snap /\ job[j].id \in hurt' \cup {None}
  BY <1>1, <1>2, <1>3 DEF Touches, FilesTyped, JobRec
<1>9. Elsewhere(None) /\ Unshared(j, None) /\ TarballStays(j) /\ None \notin Snap
  BY <1>2, FileFacts DEF Elsewhere, Unshared, TarballStays
<1>10. SecretsTyped'
  BY <1>1, <1>2 DEF SecretsTyped, HasKey, Kind
<1>11. FilesTyped'
  BY <1>1, <1>2, <1>5, <1>8 DEF FilesTyped
<1>12. JobOK(j)'
  BY <1>3, <1>5, <1>6, <1>7 DEF JobOK, Active
<1>13. PledgeOK'
  <2>1. tarball' # Missing => pledge'[tarball'.id] # Missing
    BY <1>1, <1>2 DEF PledgeOK
  <2>2. r.op = "load" => pledge'[r.id] # Missing
    BY <1>1, <1>2, <1>6 DEF PledgeOK
  <2> QED
    BY <1>1, <1>2, <1>4, <1>6, <1>7, <2>1, <2>2, PledgeKeeps
<1>14. Sole'
  BY <1>1, <1>4, <1>6, <1>8, SoleKeeps
<1>15. FilesOK(j)'
  BY <1>5, <1>6, <1>7 DEF FilesOK, At, Active
<1>16. TarballOK'
  BY <1>1, <1>2, <1>8 DEF FilesInv, TarballOK
<1>17. LoadOK(j)'
  <2>1. r.op = "load" => r.id \in hurt'
    BY <1>3, <1>6, <1>8, <1>9 DEF JobOK
  <2> QED
    BY <1>3, <1>5, <1>6, <2>1 DEF LoadOK, Active
<1>18. ASSUME ~collided', ~Cloned PROVE ReadableOK'
  <2>1. ReadableOK /\ ~Restoring(j)
    BY <1>2, <1>18 DEF IInv
  <2>2. (PairOK => PairOK') /\ \A m \in Maker : Held(m) => Held(m)'
    BY <1>2 DEF PairOK, HasKey, Held
  <2>3. /\ r.pc \notin {"writekey", "restorestore", "writestore"} /\ ~(r.op = "save" /\ r.pc = "store")
        /\ r.op # "save"
    BY <1>6, <1>7
  <2> QED
    BY <1>1, <1>4, <1>8, <1>9, <2>1, <2>2, <2>3, ReadableKeeps
<1>19. job[j].op \in {"save", "delete", "gc", "import"} =>
         job[j].id \in {None} \cup hurt' \/ (r.id = job[j].id /\ r.op = job[j].op)
  BY <1>8
<1> QED
  BY <1>4, <1>8, <1>9, <1>10, <1>11, <1>12, <1>13, <1>14, <1>15, <1>16, <1>17, <1>18, <1>19, JobStep

\* A command fails and leaves its id hurt, or the snapshot as it was.
LEMMA FailStep ==
  ASSUME IInv, NEW j \in Job, Active(j), ~Restoring(j), NEW r \in JobRec, job' = [job EXCEPT ![j] = r],
         r = Idle \/ (/\ job[j].op = "gc" /\ r.op = "gc" /\ r.pc = "next" /\ r.id = None
                      /\ r.ids = job[j].ids \ {job[j].id}),
         NEW i \in Snap, i = job[j].id, Fault,
         UNCHANGED <<key, store, call, worker, collided, stale>>,
         UNCHANGED <<vol, manifest, done, overlaps, pledge>>,
         hurt \subseteq hurt', hurt' \subseteq Snap,
         dir' \in [Snap -> Directory \cup {Missing}], \A a \in Snap \ {i} : dir'[a] = dir[a],
         tarball' \in Tarball \cup {Missing}, TarballStays(j),
         tarball' # Missing => pledge[tarball'.id] # Missing,
         i \notin hurt' => SettledOK(i)', TarballOK'
  PROVE  IInv'
<1>1. JobsInv /\ FilesInv /\ FilesTyped /\ PledgeOK /\ SecretsTyped
  BY DEF IInv, JobsInv
<1>2. deaths' \in 0..MaxDeaths
  BY <1>1, SecretsAssumption DEF Fault, SecretsTyped, SecretsAssumption
<1>3. /\ r.op \in {"gc", None} /\ r.id = None /\ r.pc \in {"idle", "next"}
      /\ r.op = "gc" => job[j].op = "gc" /\ r.pc = "next" /\ r.ids \subseteq job[j].ids
      /\ r.op = None => r.pc = "idle" /\ r.ids = {}
  BY IdleFacts, FileFacts DEF AllOps
<1>4. "load" # None /\ "save" # None /\ "gc" # None /\ "delete" # None /\ "import" # None /\ "export" # None
  BY FileFacts DEF AllOps
<1>5. job' \in [Job -> JobRec] /\ job'[j] = r
  BY <1>1, JobMoves
<1>6. Elsewhere(i) /\ Unshared(j, i)
  BY <1>1, AloneWithId DEF Elsewhere
<1>7. SecretsTyped'
  BY <1>1, <1>2 DEF SecretsTyped, HasKey, Kind
<1>8. FilesTyped'
  BY <1>1, <1>5 DEF FilesTyped
<1>9. JobOK(j)'
  <2>1. <<"gc", "next">> \in Point
    BY DEF Point
  <2> QED
    BY <1>3, <1>4, <1>5, <2>1 DEF JobOK, Active
<1>10. PledgeOK'
  <2>1. r.op = "gc" => \A a \in r.ids : pledge'[a] # Missing
    BY <1>1, <1>3 DEF PledgeOK
  <2> QED
    BY <1>1, <1>3, <1>4, <2>1, PledgeKeeps
<1>11. Sole'
  <2>1. r.pc \notin {"idle", "ok", "failed"} => ({r.id} \cup r.ids) \cap Snap \subseteq Touches(j)
    BY <1>3, FileFacts DEF Touches
  <2> QED
    BY <1>1, <2>1, SoleKeeps
<1>12. FilesOK(j)' /\ LoadOK(j)'
  BY <1>3, <1>4, <1>5 DEF FilesOK, At, Active, LoadOK
<1>13. ASSUME ~collided', ~Cloned PROVE ReadableOK'
  <2>1. ReadableOK
    BY <1>13 DEF IInv
  <2>2. (PairOK => PairOK') /\ \A m \in Maker : Held(m) => Held(m)'
    BY DEF PairOK, HasKey, Held
  <2>3. i \in Snap \ hurt' /\ pledge'[i] # Missing => Coherent(pledge'[i])
    BY <2>1 DEF ReadableOK
  <2>4. r.pc \notin {"writekey", "restorestore", "writestore"} /\ r.op # "save"
    BY <1>3, <1>4
  <2> QED
    BY <1>1, <1>6, <2>1, <2>2, <2>3, <2>4, ReadableKeeps
<1> QED
  BY <1>5, <1>6, <1>7, <1>8, <1>9, <1>10, <1>11, <1>12, <1>13, JobStep

\* The same for one that does not write the tarball, and spoils its snapshot.
LEMMA SpoilStep ==
  ASSUME IInv, NEW j \in Job, Active(j), ~Restoring(j), NEW r \in JobRec, job' = [job EXCEPT ![j] = r],
         r = Idle \/ (/\ job[j].op = "gc" /\ r.op = "gc" /\ r.pc = "next" /\ r.id = None
                      /\ r.ids = job[j].ids \ {job[j].id}),
         NEW i \in Snap, i = job[j].id, Fault, Spoils(j),
         UNCHANGED <<key, store, call, worker, collided, stale>>,
         UNCHANGED <<vol, manifest, tarball, done, overlaps, pledge>>,
         dir' \in [Snap -> Directory \cup {Missing}], \A a \in Snap \ {i} : dir'[a] = dir[a]
  PROVE  IInv'
<1>1. FilesTyped /\ FilesInv /\ PledgeOK
  BY DEF IInv, JobsInv
<1>2. hurt \subseteq hurt' /\ hurt' \subseteq Snap /\ i \in hurt'
  BY <1>1 DEF Spoils, FilesTyped
<1>3. TarballStays(j) /\ TarballOK'
  BY <1>1, <1>2 DEF TarballStays, FilesInv, TarballOK
<1>4. tarball' \in Tarball \cup {Missing} /\ (tarball' # Missing => pledge[tarball'.id] # Missing)
  BY <1>1 DEF FilesTyped, PledgeOK
<1> QED
  BY <1>2, <1>3, <1>4, FailStep

LEMMA ManifestFailsKeeps ==
  ASSUME IInv, NEW j \in Job, ManifestFails(j)
  PROVE  IInv'
<1>1. JobsInv /\ FilesTyped
  BY DEF IInv, JobsInv
<1>2. /\ Fault /\ Ends(j, "failed") /\ Spoils(j)
      /\ job[j].op \in {"save", "import"} /\ job[j].pc \in {"manifest", "listed"}
      /\ UNCHANGED <<key, store, call, worker, collided, stale, vol, dir, manifest, tarball, done, overlaps, pledge>>
  BY DEF ManifestFails
<1>3. Active(j) /\ job[j].id \in Snap /\ ~Restoring(j)
  BY <1>1, <1>2, ActiveFacts DEF At, Restoring
<1>4. Idle \in JobRec /\ job' = [job EXCEPT ![j] = Idle]
  BY <1>2, IdleFacts DEF Ends
<1>5. PICK i \in Snap : i = job[j].id
  BY <1>3
<1>6. dir' \in [Snap -> Directory \cup {Missing}] /\ \A a \in Snap \ {i} : dir'[a] = dir[a]
  BY <1>1, <1>2 DEF FilesTyped
<1> QED
  BY <1>2, <1>3, <1>4, <1>5, <1>6, SpoilStep

LEMMA ImportFailsKeeps ==
  ASSUME IInv, NEW j \in Job, ImportFails(j)
  PROVE  IInv'
<1>1. JobsInv /\ FilesTyped
  BY DEF IInv, JobsInv
<1>2. /\ Fault /\ Ends(j, "failed") /\ Spoils(j) /\ job[j].op = "import" /\ job[j].pc = "unpack"
      /\ UNCHANGED <<key, store, call, worker, collided, stale, vol, manifest, tarball, done, overlaps, pledge>>
  BY DEF ImportFails, At
<1>3. Active(j) /\ job[j] \in JobRec /\ job[j].id \in Snap /\ ~Restoring(j)
  BY <1>1, <1>2, ActiveFacts DEF At, Restoring
<1>4. Idle \in JobRec /\ job' = [job EXCEPT ![j] = Idle]
  BY <1>2, IdleFacts DEF Ends
<1>5. PICK i \in Snap : i = job[j].id
  BY <1>3
<1>6. dir' \in [Snap -> Directory \cup {Missing}] /\ \A a \in Snap \ {i} : dir'[a] = dir[a]
  <2>1. CASE UNCHANGED dir
    BY <1>1, <2>1 DEF FilesTyped
  <2>2. CASE ~UNCHANGED dir
    <3>1. PICK f \in job[j].todo : dir' = [dir EXCEPT ![i] = Laid(@, f, Torn)]
      BY <1>5, <2>2 DEF ImportFails
    <3>2. f \in File /\ Torn \in Content(f) /\ dir[i] \in Directory \cup {Missing}
      BY <1>1, <1>3, <3>1 DEF JobRec, Content, FilesTyped
    <3>3. Laid(dir[i], f, Torn) \in Directory
      BY <3>2, MadeFacts
    <3> QED
      BY <1>1, <3>1, <3>3 DEF FilesTyped
  <2> QED
    BY <2>1, <2>2
<1> QED
  BY <1>2, <1>3, <1>4, <1>5, <1>6, SpoilStep

\* Any of the files of a directory are a directory.
LEMMA SomeFiles ==
  ASSUME NEW d \in Directory, NEW left \in SUBSET File
  PROVE  [f \in File |-> IF f \in left THEN d[f] ELSE Missing] \in Directory
<1> DEFINE U == UNION {Content(g) : g \in File}
           e == [f \in File |-> IF f \in left THEN d[f] ELSE Missing]
<1>1. \A f \in File : e[f] \in Content(f)
  <2>1. \A f \in File : Missing \in Content(f) /\ d[f] \in Content(f)
    BY DirectoryFacts DEF Content
  <2> QED
    BY <2>1
<1>2. e \in [File -> U]
  <2>1. \A f \in File : e[f] \in U
    BY <1>1
  <2>2. e = [f \in File |-> e[f]]
    OBVIOUS
  <2> HIDE DEF U, e
  <2> QED
    BY <2>1, <2>2
<1> QED
  BY <1>1, <1>2 DEF Directory

LEMMA RemoveFailsKeeps ==
  ASSUME IInv, NEW j \in Job, RemoveFails(j)
  PROVE  IInv'
<1>1. JobsInv /\ FilesTyped
  BY DEF IInv, JobsInv
<1>2. /\ Fault /\ Spoils(j) /\ job[j].op \in {"delete", "gc"} /\ job[j].pc \in {"dir", "unlist"}
      /\ IF job[j].op = "gc" THEN NextId(j) ELSE Ends(j, "failed")
      /\ UNCHANGED <<key, store, call, worker, collided, stale, vol, manifest, tarball, done, overlaps, pledge>>
  BY DEF RemoveFails
<1>3. Active(j) /\ job[j] \in JobRec /\ job[j].id \in Snap /\ ~Restoring(j)
  BY <1>1, <1>2, ActiveFacts DEF At, Restoring
<1>4. PICK i \in Snap : i = job[j].id
  BY <1>3
<1>5. PICK r \in JobRec :
        /\ job' = [job EXCEPT ![j] = r]
        /\ r = Idle \/ (/\ job[j].op = "gc" /\ r.op = "gc" /\ r.pc = "next" /\ r.id = None
                        /\ r.ids = job[j].ids \ {job[j].id})
  <2>1. CASE job[j].op = "gc"
    <3> DEFINE r == [job[j] EXCEPT !.pc = "next", !.id = None, !.ids = @ \ {job[j].id}]
    <3>1. r \in JobRec /\ r.op = "gc" /\ r.pc = "next" /\ r.id = None /\ r.ids = job[j].ids \ {job[j].id}
      BY <1>3, <2>1 DEF JobRec
    <3>2. job' = [job EXCEPT ![j] = r]
      BY <1>2, <2>1 DEF NextId
    <3> HIDE DEF r
    <3> QED
      BY <2>1, <3>1, <3>2
  <2>2. CASE job[j].op = "delete"
    BY <1>2, <2>2, IdleFacts DEF Ends
  <2> QED
    BY <1>2, <2>1, <2>2
<1>6. dir' \in [Snap -> Directory \cup {Missing}] /\ \A a \in Snap \ {i} : dir'[a] = dir[a]
  <2>1. CASE UNCHANGED dir
    BY <1>1, <2>1 DEF FilesTyped
  <2>2. CASE ~UNCHANGED dir
    <3>1. PICK left \in SUBSET File :
            /\ dir[i] # Missing
            /\ dir' = [dir EXCEPT ![i] = [f \in File |-> IF f \in left THEN @[f] ELSE Missing]]
      BY <1>4, <2>2 DEF RemoveFails
    <3>2. dir[i] \in Directory
      BY <1>1, <3>1 DEF FilesTyped
    <3>3. PICK e \in Directory : e = [f \in File |-> IF f \in left THEN dir[i][f] ELSE Missing]
      BY <3>2, SomeFiles
    <3>4. dir' = [dir EXCEPT ![i] = e]
      BY <3>1, <3>3
    <3> QED
      BY <1>1, <3>4 DEF FilesTyped
  <2> QED
    BY <2>1, <2>2
<1> QED
  BY <1>2, <1>3, <1>4, <1>5, <1>6, SpoilStep

\* Half a tarball is known as one.
LEMMA ExportFailsKeeps ==
  ASSUME IInv, NEW j \in Job, ExportFails(j)
  PROVE  IInv'
<1>1. JobsInv /\ FilesInv /\ FilesTyped /\ PledgeOK
  BY DEF IInv, JobsInv
<1>2. /\ Fault /\ Ends(j, "failed") /\ job[j].op = "export" /\ job[j].pc = "walk" /\ dir[job[j].id] # Missing
      /\ UNCHANGED <<key, store, call, worker, collided, stale, vol, dir, manifest, done, overlaps, hurt, pledge>>
  BY DEF ExportFails, At
<1>3. Active(j) /\ JobOK(j) /\ job[j].id \in Snap /\ ~Restoring(j)
  BY <1>1, <1>2, ActiveFacts DEF At, Restoring
<1>4. PICK i \in Snap : i = job[j].id
  BY <1>3
<1>5. PICK left \in SUBSET File :
        tarball' = [id |-> i, man |-> tarball.man, whole |-> FALSE,
                    files |-> [f \in File |-> IF f \in left THEN dir[i][f] ELSE Missing]]
  BY <1>4 DEF ExportFails
<1>6. PICK files \in Directory : files = [f \in File |-> IF f \in left THEN dir[i][f] ELSE Missing]
  <2>1. dir[i] \in Directory
    BY <1>1, <1>2, <1>4 DEF FilesTyped
  <2> QED
    BY <2>1, SomeFiles
<1>7. tarball \in Tarball /\ tarball # Missing /\ tarball.id = i
  BY <1>1, <1>2, <1>3, <1>4 DEF JobOK, FilesTyped
<1>8. /\ tarball' \in Tarball /\ tarball' # Missing /\ tarball'.id = i /\ tarball'.man = tarball.man
      /\ ~tarball'.whole
  <2>1. tarball' = [id |-> i, man |-> tarball.man, whole |-> FALSE, files |-> files]
    BY <1>5, <1>6
  <2>2. tarball' \in Tarball
    BY <1>7, <2>1 DEF Tarball
  <2>3. tarball'.id = i /\ tarball'.man = tarball.man /\ tarball'.whole = FALSE
    BY <2>1
  <2> QED
    BY <2>2, <2>3, FileFacts
<1>9. TarballOK'
  <2>1. i \notin hurt => Good(tarball.man, pledge[i])
    BY <1>1, <1>7 DEF FilesInv, TarballOK
  <2> QED
    BY <1>2, <1>8, <2>1 DEF TarballOK
<1>10. ASSUME NEW k \in Job \ {j}, job[k].op = "import"
       PROVE  i \in hurt' /\ job[k].id = i
  <2>1. JobOK(k)
    BY <1>1 DEF JobsInv
  <2>2. Active(k) /\ job[k].id = i
    BY <1>7, <1>10, <2>1, FileFacts DEF JobOK, AllOps
  <2>3. i \in Touches(j) /\ i \in Touches(k)
    BY <1>4, <2>2 DEF Touches
  <2> QED
    BY <1>1, <1>2, <1>3, <2>2, <2>3 DEF JobsInv, Sole
<1>11. TarballStays(j)
  BY <1>7, <1>8, <1>10 DEF TarballStays
<1>12. Idle \in JobRec /\ job' = [job EXCEPT ![j] = Idle]
  BY <1>2, IdleFacts DEF Ends
<1>13. i \notin hurt' => SettledOK(i)'
  <2>1. job'[j] = Idle /\ \A k \in Job \ {j} : job'[k] = job[k]
    BY <1>1, <1>12, JobMoves
  <2>2. \A k \in Job : Changes(k, i)' <=> Changes(k, i)
    BY <1>2, <1>4, <2>1, IdleFacts, FileFacts DEF Changes, AllOps
  <2>3. i \notin hurt => SettledOK(i)
    BY <1>1 DEF FilesInv
  <2> QED
    BY <1>2, <2>2, <2>3 DEF SettledOK, Written, Gone
<1>14. hurt \subseteq hurt' /\ hurt' \subseteq Snap /\ dir' \in [Snap -> Directory \cup {Missing}]
       /\ \A a \in Snap \ {i} : dir'[a] = dir[a]
  BY <1>1, <1>2 DEF FilesTyped
<1>15. tarball' # Missing => pledge[tarball'.id] # Missing
  BY <1>1, <1>7, <1>8 DEF PledgeOK
<1> QED
  BY <1>2, <1>3, <1>4, <1>8, <1>9, <1>11, <1>12, <1>13, <1>14, <1>15, FailStep

-----------------------------------------------------------------------------
(* The steps that copy and restore the secrets *)

SameVolumes(d, e) == e # Missing => d # Missing /\ \A v \in Volume : d[v] = e[v]

\* A Save copies one of the two files, or fails to.
LEMMA SaveGoesOn ==
  ASSUME IInv, NEW j \in Job, Active(j), job[j].op = "save", ~Restoring(j),
         NEW i \in Snap, i = job[j].id, NEW r \in JobRec, job' = [job EXCEPT ![j] = r],
         r.op = "save", r.id = i, r.man \in Manifest, r.man.exported = job[j].man.exported,
         r.todo = job[j].todo, r.ids = job[j].ids, r.pc \in {"store", "manifest"},
         UNCHANGED <<key, store, call, worker, stale>>, deaths' \in 0..MaxDeaths, collided' \in BOOLEAN,
         UNCHANGED <<vol, manifest, tarball, done, overlaps, hurt, pledge>>,
         dir' \in [Snap -> Directory \cup {Missing}], \A a \in Snap \ {i} : dir'[a] = dir[a],
         NEW d, d = dir'[i],
         SameVolumes(d, dir[i]),
         r.pc = "store" /\ dir[i] # Missing => d["store"] = dir[i]["store"],
         job[j].pc \in {"volumes", "store"},
         ~collided' /\ ~Cloned => ReadableOK'
  PROVE  IInv'
<1>1. JobsInv /\ FilesInv /\ FilesTyped /\ PledgeOK /\ SecretsTyped /\ JobOK(j)
  BY DEF IInv, JobsInv
<1>2. hurt \subseteq hurt' /\ hurt' = hurt
  OBVIOUS
<1>3. Elsewhere(i) /\ Unshared(j, i) /\ TarballStays(j)
  BY <1>1, <1>2, AloneWithId DEF Elsewhere, TarballStays
<1>4. job' \in [Job -> JobRec] /\ job'[j] = r /\ \A k \in Job \ {j} : job'[k] = job[k]
  BY <1>1, JobMoves
<1>5. SecretsTyped'
  BY <1>1 DEF SecretsTyped, HasKey, Kind
<1>6. FilesTyped'
  BY <1>1, <1>4 DEF FilesTyped
<1>7. JobOK(j)'
  <2>1. <<"save", r.pc>> \in Point /\ "save" # None /\ "gc" # "save"
    BY FileFacts DEF Point, AllOps
  <2> QED
    BY <1>1, <1>4, <2>1 DEF JobOK, Active
<1>8. \A k \in Job \ {j} : job[k].op = "save" => job[k].id # i
  BY <1>1 DEF PledgeOK
<1>9. PledgeOK'
  <2>1. tarball' # Missing => pledge'[tarball'.id] # Missing
    BY <1>1 DEF PledgeOK
  <2>2. pledge'[r.id] = Missing
    BY <1>1 DEF PledgeOK
  <2> QED
    BY <1>1, <1>8, <2>1, <2>2, PledgeKeeps
<1>10. Sole'
  BY <1>1, <1>2, SoleKeeps DEF Touches
<1>11. SettledOK(i)'
  BY <1>4 DEF SettledOK, Changes
<1>12. ASSUME i \notin hurt PROVE FilesOK(j)'
  <2>1. dir[i] # Missing /\ Good(job[j].man, dir[i]) /\ job[j].man \in Manifest /\ dir[i]["store"] = Missing
    BY <1>1, <1>12 DEF FilesInv, FilesOK, JobOK
  <2>2. \A v \in job[j].man.exported : v \in Volume
    BY <2>1 DEF Manifest
  <2>3. dir'[i] # Missing /\ Good(r.man, dir'[i]) /\ (r.pc = "store" => dir'[i]["store"] = Missing)
    BY <2>1, <2>2 DEF Good, SameVolumes
  <2> QED
    BY <1>4, <2>3 DEF FilesOK, At
<1>13. TarballOK' /\ LoadOK(j)'
  BY <1>1, <1>4 DEF FilesInv, TarballOK, LoadOK
<1> QED
  BY <1>2, <1>3, <1>5, <1>6, <1>7, <1>9, <1>10, <1>11, <1>12, <1>13, JobStep

LEMMA SaveStep ==
  ASSUME IInv, NEW j \in Job, Active(j), job[j].op = "save", ~Restoring(j),
         NEW i \in Snap, i = job[j].id, NEW r \in JobRec, job' = [job EXCEPT ![j] = r],
         r.op = "save", r.id = i, r.man = job[j].man, r.todo = job[j].todo, r.ids = job[j].ids,
         r.pc \in {"store", "manifest"},
         UNCHANGED <<key, store, call, worker, deaths, stale>>, collided' = (collided \/ Busy),
         UNCHANGED <<vol, manifest, tarball, done, overlaps, hurt, pledge>>,
         dir' \in [Snap -> Directory \cup {Missing}], \A a \in Snap \ {i} : dir'[a] = dir[a],
         NEW d, d = dir'[i],
         SameVolumes(d, dir[i]),
         r.pc = "store" /\ dir[i] # Missing => d["store"] = dir[i]["store"],
         job[j].pc \in {"volumes", "store"},
         ~Cloned /\ ~collided /\ ~Busy /\ i \notin hurt =>
           /\ r.pc = "store" /\ d["key"] # Missing => Held(d["key"])
           /\ r.pc = "manifest" => Coherent(d)
  PROVE  IInv'
<1>1. JobsInv /\ FilesTyped /\ PledgeOK /\ SecretsTyped /\ JobOK(j)
  BY DEF IInv, JobsInv
<1>2. job' \in [Job -> JobRec] /\ job'[j] = r /\ \A k \in Job \ {j} : job'[k] = job[k]
  BY <1>1, JobMoves
<1>3. \A k \in Job \ {j} : job[k].op = "save" => job[k].id # i
  BY <1>1 DEF PledgeOK
<1>4. r.man \in Manifest /\ r.man.exported = job[j].man.exported /\ deaths' \in 0..MaxDeaths
      /\ collided' \in BOOLEAN
  BY <1>1 DEF JobOK, SecretsTyped
<1>5. ASSUME ~collided', ~Cloned PROVE ReadableOK'
  <2>1. ReadableOK /\ ~collided /\ ~Busy /\ \A k \in Job : ~Restoring(k)
    BY <1>5 DEF IInv, Busy
  <2>2. PairOK
    BY <2>1 DEF ReadableOK
  <2>3. PairOK' /\ \A m : Held(m) => Held(m)'
    BY <2>2 DEF PairOK, HasKey, Held
  <2>4. \A k \in Job : ~Restoring(k)'
    BY <1>2, <2>1 DEF Restoring
  <2>5. ASSUME NEW k \in Job, job'[k].id \notin hurt
        PROVE  /\ At(k, "save", "store")' /\ dir'[job'[k].id]["key"] # Missing =>
                    Held(dir[job[k].id]["key"])'
               /\ job'[k].op = "save" /\ job'[k].pc \in {"manifest", "listed"} => Coherent(dir'[job'[k].id])
    <3>1. CASE k = j
      <4>1. /\ r.pc = "store" /\ d["key"] # Missing => Held(d["key"])
            /\ r.pc = "manifest" => Coherent(d)
        BY <1>2, <1>5, <2>1, <2>5, <3>1
      <4>2. PICK m : m = d["key"]
        OBVIOUS
      <4>3. r.pc = "store" /\ m # Missing => Held(m)'
        BY <2>3, <4>1, <4>2
      <4> QED
        BY <1>2, <3>1, <4>1, <4>2, <4>3 DEF At, Held
    <3>2. CASE k # j
      <4>1. job'[k] = job[k] /\ (job[k].op = "save" => job[k].id \in Snap \ {i})
        BY <1>1, <1>2, <1>3, <3>2 DEF JobsInv, JobOK
      <4>2. PICK m : m = dir[job[k].id]["key"]
        OBVIOUS
      <4>3. job[k].op = "save" => dir'[job'[k].id] = dir[job[k].id]
        BY <4>1
      <4>4. At(k, "save", "store") /\ m # Missing => Held(m)'
        BY <2>1, <2>3, <2>5, <4>1, <4>2 DEF ReadableOK
      <4>5. job[k].op = "save" /\ job[k].pc \in {"manifest", "listed"} => Coherent(dir[job[k].id])
        BY <2>1, <2>5, <4>1 DEF ReadableOK
      <4> QED
        BY <4>1, <4>2, <4>3, <4>4, <4>5 DEF At, Held
    <3> QED
      BY <3>1, <3>2
  <2>6. \A a \in Snap \ hurt : pledge[a] # Missing => Coherent(pledge[a])
    BY <2>1 DEF ReadableOK
  <2> QED
    BY <2>3, <2>4, <2>5, <2>6 DEF ReadableOK
<1> QED
  BY <1>4, <1>5, SaveGoesOn

LEMMA SaveKeyKeeps ==
  ASSUME IInv, NEW j \in Job, SaveKey(j)
  PROVE  IInv'
<1>1. JobsInv /\ FilesInv /\ FilesTyped /\ SecretsTyped
  BY DEF IInv, JobsInv
<1>2. /\ job[j].op = "save" /\ job[j].pc = "volumes" /\ Becomes(j, "store") /\ collided' = (collided \/ Busy)
      /\ UNCHANGED <<key, store, call, worker, deaths, stale>>
      /\ UNCHANGED <<vol, manifest, tarball, done, overlaps, hurt, pledge>>
  BY DEF SaveKey, At
<1>3. Active(j) /\ job[j].id \in Snap /\ ~Restoring(j)
  BY <1>1, <1>2, ActiveFacts DEF At, Restoring
<1>4. PICK i \in Snap : i = job[j].id
  BY <1>3
<1>5. PICK d : d = Laid(dir[i], "key", key)
  OBVIOUS
<1>6. dir' = [dir EXCEPT ![i] = d]
  BY <1>4, <1>5 DEF SaveKey
<1>7. /\ d \in Directory /\ d["key"] = key /\ \A g \in File \ {"key"} : d[g] = Made(dir[i])[g]
      /\ dir[i] # Missing => Made(dir[i]) = dir[i]
  <2>1. dir[i] \in Directory \cup {Missing} /\ key \in Content("key") /\ "key" \in File
    BY <1>1, ContentFacts DEF FilesTyped, SecretsTyped, File, SecretFile
  <2>2. PICK e \in Directory \cup {Missing}, x \in Content("key"), f \in File : e = dir[i] /\ x = key /\ f = "key" /\ x \in Content(f)
    BY <2>1
  <2>3. /\ Laid(e, f, x) \in Directory /\ Laid(e, f, x)[f] = x
        /\ \A g \in File \ {f} : Laid(e, f, x)[g] = Made(e)[g]
        /\ e # Missing => Made(e) = e
    BY <2>2, MadeFacts
  <2> QED
    BY <1>5, <2>2, <2>3
<1>8. /\ dir' \in [Snap -> Directory \cup {Missing}] /\ d = dir'[i]
      /\ \A a \in Snap \ {i} : dir'[a] = dir[a]
  BY <1>1, <1>6, <1>7 DEF FilesTyped
<1>9. SameVolumes(d, dir[i])
  BY <1>7, FileFacts DEF File, SecretFile, SameVolumes
<1>10. dir[i] # Missing => d["store"] = dir[i]["store"]
  BY <1>7 DEF File, SecretFile
<1>11. PICK r \in JobRec :
         /\ job' = [job EXCEPT ![j] = r] /\ r.pc = "store" /\ r.op = "save" /\ r.id = i
         /\ r.man = job[j].man /\ r.todo = job[j].todo /\ r.ids = job[j].ids
  BY <1>1, <1>2, <1>4, BecomesFacts
<1>12. ASSUME ~Cloned, ~collided, ~Busy, d["key"] # Missing PROVE Held(d["key"])
  <2>1. PairOK /\ AtRest
    BY <1>12 DEF IInv, ReadableOK, Busy
  <2>2. \A w \in Worker : worker[w].pc \notin {"create", "writekey"}
    BY <2>1 DEF AtRest, Running
  <2>3. key # Torn
    BY <2>1, <2>2 DEF PairOK
  <2>4. key \in Maker
    BY <1>1, <1>7, <1>12, <2>3 DEF SecretsTyped
  <2> QED
    BY <1>7, <2>2, <2>4 DEF Held
<1>13. ~Cloned /\ ~collided /\ ~Busy /\ i \notin hurt =>
         /\ r.pc = "store" /\ d["key"] # Missing => Held(d["key"])
         /\ r.pc = "manifest" => Coherent(d)
  BY <1>11, <1>12
<1> QED
  BY <1>2, <1>3, <1>4, <1>8, <1>9, <1>10, <1>11, <1>13, SaveStep

\* The store copied second was encrypted with the key copied first.
LEMMA SaveStoreKeeps ==
  ASSUME IInv, NEW j \in Job, SaveStore(j)
  PROVE  IInv'
<1>1. JobsInv /\ FilesInv /\ FilesTyped /\ SecretsTyped
  BY DEF IInv, JobsInv
<1>2. /\ job[j].op = "save" /\ job[j].pc = "store" /\ Becomes(j, "manifest") /\ collided' = (collided \/ Busy)
      /\ UNCHANGED <<key, store, call, worker, deaths, stale>>
      /\ UNCHANGED <<vol, manifest, tarball, done, overlaps, hurt, pledge>>
  BY DEF SaveStore, At
<1>3. Active(j) /\ job[j].id \in Snap /\ ~Restoring(j)
  BY <1>1, <1>2, ActiveFacts DEF At, Restoring
<1>4. PICK i \in Snap : i = job[j].id
  BY <1>3
<1>5. PICK d : d = IF dir[i] = Missing THEN Missing ELSE Laid(dir[i], "store", store)
  OBVIOUS
<1>6. dir' = [dir EXCEPT ![i] = d]
  BY <1>4, <1>5 DEF SaveStore
<1>7. /\ d \in Directory \cup {Missing}
      /\ dir[i] # Missing => /\ d \in Directory /\ d["store"] = store
                             /\ \A g \in File \ {"store"} : d[g] = dir[i][g]
  <2>1. dir[i] \in Directory \cup {Missing} /\ store \in Content("store") /\ "store" \in File
    BY <1>1, ContentFacts DEF FilesTyped, SecretsTyped, File, SecretFile
  <2>2. PICK e \in Directory \cup {Missing}, x \in Content("store"), f \in File :
          e = dir[i] /\ x = store /\ f = "store" /\ x \in Content(f)
    BY <2>1
  <2>3. /\ Laid(e, f, x) \in Directory /\ Laid(e, f, x)[f] = x
        /\ \A g \in File \ {f} : Laid(e, f, x)[g] = Made(e)[g]
        /\ e # Missing => Made(e) = e
    BY <2>2, MadeFacts
  <2> QED
    BY <1>5, <2>2, <2>3
<1>8. /\ dir' \in [Snap -> Directory \cup {Missing}] /\ d = dir'[i]
      /\ \A a \in Snap \ {i} : dir'[a] = dir[a]
  BY <1>1, <1>6, <1>7 DEF FilesTyped
<1>9. SameVolumes(d, dir[i])
  BY <1>7, FileFacts DEF File, SecretFile, SameVolumes
<1>10. PICK r \in JobRec :
         /\ job' = [job EXCEPT ![j] = r] /\ r.pc = "manifest" /\ r.op = "save" /\ r.id = i
         /\ r.man = job[j].man /\ r.todo = job[j].todo /\ r.ids = job[j].ids
  BY <1>1, <1>2, <1>4, BecomesFacts
<1>11. ASSUME ~Cloned, ~collided, ~Busy, i \notin hurt PROVE Coherent(d)
  <2>1. PairOK /\ ReadableOK
    BY <1>11 DEF IInv, ReadableOK, Busy
  <2>2. dir[i] # Missing
    BY <1>1, <1>2, <1>4, <1>11 DEF FilesInv, FilesOK
  <2>3. d["store"] = store /\ d["key"] = dir[i]["key"]
    BY <1>7, <2>2 DEF File, SecretFile
  <2>4. d["key"] # Missing => Held(d["key"])
    BY <1>2, <1>4, <1>11, <2>1, <2>3 DEF ReadableOK, At
  <2> QED
    BY <2>1, <2>3, <2>4 DEF Coherent, Held, PairOK
<1>12. ~Cloned /\ ~collided /\ ~Busy /\ i \notin hurt =>
         /\ r.pc = "store" /\ d["key"] # Missing => Held(d["key"])
         /\ r.pc = "manifest" => Coherent(d)
  BY <1>10, <1>11
<1> QED
  BY <1>2, <1>3, <1>4, <1>8, <1>9, <1>10, <1>12, SaveStep

\* Without both copies there is nothing that could not fit.
LEMMA CopyFailsKeeps ==
  ASSUME IInv, NEW j \in Job, CopyFails(j)
  PROVE  IInv'
<1>1. JobsInv /\ FilesInv /\ FilesTyped /\ SecretsTyped
  BY DEF IInv, JobsInv
<1>2. PICK f \in SecretFile :
        /\ job[j].op = "save" /\ job[j].pc \in {"volumes", "store"}
        /\ \/ UNCHANGED dir
           \/ dir[job[j].id] # Missing /\ dir' = [dir EXCEPT ![job[j].id] = Laid(@, f, Torn)]
        /\ f = "key" \/ job[j].pc = "store"
  BY DEF CopyFails, At, SecretFile
<1>3. /\ job' = [job EXCEPT ![j].pc = "manifest", ![j].man.secrets = FALSE]
      /\ UNCHANGED <<key, store, call, worker, collided, stale>>
      /\ UNCHANGED <<vol, manifest, tarball, done, overlaps, hurt, pledge>>
      /\ Fault
  BY DEF CopyFails
<1>4. Active(j) /\ JobOK(j) /\ job[j] \in JobRec /\ job[j].id \in Snap /\ ~Restoring(j)
  BY <1>1, <1>2, ActiveFacts DEF At, Restoring
<1>5. PICK i \in Snap : i = job[j].id
  BY <1>4
<1>6. deaths' \in 0..MaxDeaths /\ collided' \in BOOLEAN
  BY <1>1, <1>3, SecretsAssumption DEF Fault, SecretsTyped, SecretsAssumption
<1> DEFINE man == [job[j].man EXCEPT !.secrets = FALSE]
           r == [job[j] EXCEPT !.pc = "manifest", !.man = man]
<1>7. man \in Manifest /\ man.exported = job[j].man.exported
  BY <1>2, <1>4 DEF JobOK, Manifest
<1>8. job' = [job EXCEPT ![j] = r]
  BY <1>3
<1> HIDE DEF man
<1>9. /\ r \in JobRec /\ r.pc = "manifest" /\ r.op = "save" /\ r.id = i /\ r.man = man
      /\ r.todo = job[j].todo /\ r.ids = job[j].ids
  BY <1>2, <1>4, <1>5, <1>7 DEF JobRec
<1> HIDE DEF r
<1>10. PICK d : d = dir'[i]
  OBVIOUS
<1>11. /\ dir' \in [Snap -> Directory \cup {Missing}] /\ \A a \in Snap \ {i} : dir'[a] = dir[a]
       /\ dir[i] # Missing => /\ d # Missing /\ \A g \in File \ {f} : d[g] = dir[i][g]
                              /\ d[f] \in {dir[i][f], Torn}
       /\ dir[i] = Missing => d = Missing
  <2>1. CASE UNCHANGED dir
    BY <1>1, <1>10, <2>1 DEF FilesTyped
  <2>2. CASE dir[i] # Missing /\ dir' = [dir EXCEPT ![i] = Laid(@, f, Torn)]
    <3>1. PICK e \in Directory : e = dir[i]
      BY <1>1, <2>2 DEF FilesTyped
    <3>2. f \in File /\ Torn \in Content(f)
      BY DEF File, Content
    <3>3. /\ Laid(e, f, Torn) \in Directory /\ Laid(e, f, Torn)[f] = Torn
          /\ \A g \in File \ {f} : Laid(e, f, Torn)[g] = e[g]
      BY <3>2, FileFacts, MadeFacts
    <3>4. dir' = [dir EXCEPT ![i] = Laid(e, f, Torn)]
      BY <2>2, <3>1
    <3>5. /\ dir' \in [Snap -> Directory \cup {Missing}] /\ dir'[i] = Laid(e, f, Torn)
          /\ \A a \in Snap \ {i} : dir'[a] = dir[a]
      BY <1>1, <3>3, <3>4 DEF FilesTyped
    <3> QED
      BY <1>10, <3>1, <3>3, <3>5, FileFacts
  <2> QED
    BY <1>2, <1>5, <2>1, <2>2
<1>12. SameVolumes(d, dir[i])
  <2>1. \A v \in Volume : v \in File \ {f}
    BY FileFacts DEF File, SecretFile
  <2> QED
    BY <1>11, <2>1 DEF SameVolumes
<1>13. i \notin hurt => Coherent(d)
  <2>1. i \notin hurt => dir[i] # Missing /\ dir[i]["store"] = Missing
    BY <1>1, <1>2, <1>5 DEF FilesInv, FilesOK
  <2>2. "store" \in File /\ f \in File
    BY DEF File, SecretFile
  <2>3. i \notin hurt => d["store"] \in {Missing, Torn}
    BY <1>11, <2>1, <2>2
  <2> QED
    BY <2>3, SecretsFacts DEF Coherent
<1>14. ASSUME ~collided', ~Cloned PROVE ReadableOK'
  <2>1. ReadableOK
    BY <1>3, <1>14 DEF IInv
  <2>2. (PairOK => PairOK') /\ \A m \in Maker : Held(m) => Held(m)'
    BY <1>3 DEF PairOK, HasKey, Held
  <2>3. hurt \subseteq hurt' /\ Elsewhere(i)
    BY <1>3, <1>11 DEF Elsewhere
  <2>4. Unshared(j, i)
    BY <1>1, <1>4, <1>5, <2>3, AloneWithId
  <2>5. r.id \notin hurt' => Coherent(dir'[r.id])
    BY <1>3, <1>9, <1>10, <1>13
  <2>6. i \in Snap \ hurt' /\ pledge'[i] # Missing => Coherent(pledge'[i])
    BY <1>3, <2>1 DEF ReadableOK
  <2> QED
    BY <1>1, <1>4, <1>8, <1>9, <2>1, <2>2, <2>3, <2>4, <2>5, <2>6, ReadableKeeps
<1> QED
  BY <1>2, <1>3, <1>4, <1>5, <1>6, <1>7, <1>8, <1>9, <1>10, <1>11, <1>12, <1>14, SaveGoesOn

\* A Load goes on with the secrets.
LEMMA RestoreGoesOn ==
  ASSUME IInv, NEW j \in Job, Active(j), job[j].op = "load",
         NEW i \in Snap, i = job[j].id, NEW r \in JobRec, job' = [job EXCEPT ![j] = r],
         r.op = "load", r.id = i, r.man = job[j].man, r.ids = job[j].ids,
         r.pc \in {"writekey", "restorestore", "writestore", "volumes"},
         r.pc = "writekey" => r.read \in Content("key") \ {Missing},
         r.pc = "writestore" => r.read \in Content("store") \ {Missing},
         key' \in Maker \cup {Missing, Torn}, store' \in Stored \cup {Missing, Torn},
         collided' \in BOOLEAN, stale' \in BOOLEAN, UNCHANGED <<call, worker>>, deaths' \in 0..MaxDeaths,
         UNCHANGED <<vol, dir, manifest, tarball, done, overlaps, hurt, pledge>>,
         LoadOK(j)', ~collided' /\ ~Cloned => ReadableOK'
  PROVE  IInv'
<1>1. JobsInv /\ FilesInv /\ FilesTyped /\ PledgeOK /\ SecretsTyped /\ JobOK(j) /\ LoadOK(j)
  BY DEF IInv, JobsInv, FilesInv
<1>2. hurt \subseteq hurt' /\ hurt' = hurt
  OBVIOUS
<1>3. Elsewhere(i) /\ Unshared(j, i) /\ TarballStays(j)
  BY <1>1, <1>2, AloneWithId DEF Elsewhere, TarballStays
<1>4. job' \in [Job -> JobRec] /\ job'[j] = r /\ \A k \in Job \ {j} : job'[k] = job[k]
  BY <1>1, JobMoves
<1>5. SecretsTyped'
  BY <1>1 DEF SecretsTyped, HasKey, Kind
<1>6. FilesTyped'
  BY <1>1, <1>4 DEF FilesTyped
<1>7. JobOK(j)'
  <2>1. <<"load", r.pc>> \in Point /\ "load" # None
    BY FileFacts DEF Point, AllOps
  <2> QED
    BY <1>1, <1>4, <2>1 DEF JobOK, Active
<1>8. PledgeOK'
  <2>1. tarball' # Missing => pledge'[tarball'.id] # Missing
    BY <1>1 DEF PledgeOK
  <2>2. pledge'[r.id] # Missing
    BY <1>1 DEF PledgeOK
  <2> QED
    BY <1>1, <2>1, <2>2, PledgeKeeps
<1>9. Sole'
  BY <1>1, <1>2, SoleKeeps DEF Touches
<1>10. i \in Snap \ hurt' => SettledOK(i)'
  <2>1. \A k \in Job : Changes(k, i)' <=> Changes(k, i)
    BY <1>4 DEF Changes
  <2>2. i \in Snap \ hurt => SettledOK(i)
    BY <1>1 DEF FilesInv
  <2> QED
    BY <2>1, <2>2 DEF SettledOK, Written, Gone
<1>11. ASSUME i \notin hurt PROVE FilesOK(j)'
  <2>1. Written(i) /\ job[j].man = manifest[i]
    BY <1>1, <1>11 DEF FilesInv, FilesOK
  <2>2. Written(job[j].id)'
    BY <1>4, <2>1 DEF Written
  <2> QED
    BY <1>4, <2>1, <2>2 DEF FilesOK, At
<1>12. TarballOK'
  BY <1>1 DEF FilesInv, TarballOK
<1> QED
  BY <1>2, <1>3, <1>5, <1>6, <1>7, <1>8, <1>9, <1>10, <1>11, <1>12, JobStep

LEMMA RestoreStep ==
  ASSUME IInv, NEW j \in Job, Active(j), job[j].op = "load",
         NEW i \in Snap, i = job[j].id, NEW r \in JobRec, job' = [job EXCEPT ![j] = r],
         r.op = "load", r.id = i, r.man = job[j].man, r.ids = job[j].ids, r.warned = job[j].warned,
         i \notin hurt => (job[j].back \cup job[j].todo) \cap Owed(j) \subseteq r.back \cup r.todo,
         r.pc \in {"writekey", "restorestore", "writestore", "volumes"},
         r.pc = "writekey" => r.read \in Content("key") \ {Missing},
         r.pc = "writestore" => r.read \in Content("store") \ {Missing},
         key' \in Maker \cup {Missing, Torn}, store' \in Stored \cup {Missing, Torn},
         collided' \in BOOLEAN, stale' \in BOOLEAN, UNCHANGED <<call, worker, deaths>>,
         UNCHANGED <<vol, dir, manifest, tarball, done, overlaps, hurt, pledge>>,
         ~collided' /\ ~Cloned =>
           /\ ~collided /\ ~Disturbed(j)
           /\ r.pc = "volumes" => PairOK'
           /\ r.pc # "volumes" => RestoreOK(j)'
  PROVE  IInv'
<1>1. JobsInv /\ FilesInv /\ FilesTyped /\ SecretsTyped /\ LoadOK(j)
  BY DEF IInv, JobsInv, FilesInv
<1>2. job' \in [Job -> JobRec] /\ job'[j] = r /\ \A k \in Job \ {j} : job'[k] = job[k]
  BY <1>1, JobMoves
<1>3. LoadOK(j)'
  <2>1. Owed(j)' = Owed(j)
    BY <1>2 DEF Owed
  <2>2. ASSUME Mounted, ~r.warned, i \notin hurt PROVE Owed(j) \subseteq r.back \cup r.todo
    <3>1. Owed(j) \subseteq job[j].back \cup job[j].todo
      BY <1>1, <2>2 DEF LoadOK
    <3> QED
      BY <2>2, <3>1
  <2> QED
    BY <1>2, <2>1, <2>2 DEF LoadOK
<1>4. deaths' \in 0..MaxDeaths
  BY <1>1 DEF SecretsTyped
<1>5. ASSUME ~collided', ~Cloned PROVE ReadableOK'
  <2>1. /\ ReadableOK /\ i \notin hurt
        /\ \A k \in Job \ {j} : ~Restoring(k) /\ ~At(k, "save", "store")
    BY <1>5 DEF IInv, Disturbed, InUse
  <2>2. \A k \in Job \ {j} : ~Restoring(k)' /\ ~At(k, "save", "store")'
    BY <1>2, <2>1 DEF Restoring, At
  <2>3. ~At(j, "save", "store")' /\ (Restoring(j)' <=> r.pc # "volumes")
    BY <1>2 DEF Restoring, At
  <2>4. \A k \in Job : job[k].id \notin hurt /\ job[k].op = "save" /\ job[k].pc \in {"manifest", "listed"} =>
          Coherent(dir[job[k].id])
    BY <2>1 DEF ReadableOK
  <2>5. \A k \in Job : job'[k].id \notin hurt /\ job'[k].op = "save" /\ job'[k].pc \in {"manifest", "listed"} =>
          Coherent(dir'[job'[k].id])
    BY <1>2, <2>4
  <2>6. \A a \in Snap \ hurt : pledge[a] # Missing => Coherent(pledge[a])
    BY <2>1 DEF ReadableOK
  <2>7. \A k \in Job : ~At(k, "save", "store")'
    BY <2>2, <2>3
  <2>8. \A k \in Job : Restoring(k)' => k = j /\ RestoreOK(k)'
    BY <1>5, <2>2, <2>3
  <2>9. (\A k \in Job : ~Restoring(k)') => PairOK'
    BY <1>5, <2>3
  <2> QED
    BY <2>5, <2>6, <2>7, <2>8, <2>9 DEF ReadableOK
<1> QED
  BY <1>3, <1>4, <1>5, RestoreGoesOn

\* What a Load restores is what was saved.
LEMMA CopyFacts ==
  ASSUME IInv, NEW j \in Job, Active(j), job[j].op = "load", NEW i \in Snap, i = job[j].id
  PROVE  /\ CopyOf(j, "key") \in {Missing, Torn} \cup Maker
         /\ CopyOf(j, "store") \in {Missing, Torn} \cup Stored
         /\ i \notin hurt => /\ CopyOf(j, "key") = pledge[i]["key"]
                             /\ CopyOf(j, "store") = pledge[i]["store"]
                             /\ pledge[i] # Missing
<1>1. FilesInv /\ FilesTyped
  BY DEF IInv, JobsInv
<1>2. PICK d \in Directory \cup {Missing} : d = dir[i]
  BY <1>1 DEF FilesTyped
<1>3. d # Missing => d["key"] \in Content("key") /\ d["store"] \in Content("store")
  BY <1>2, DirectoryFacts DEF File, SecretFile
<1>4. i \notin hurt => d = pledge[i] /\ pledge[i] # Missing
  BY <1>1, <1>2 DEF FilesInv, FilesOK, Written
<1> QED
  BY <1>2, <1>3, <1>4, ContentFacts DEF CopyOf

Reads(j, pc, read) == job' = [job EXCEPT ![j].pc = pc, ![j].read = read]

LEMMA ReadFacts ==
  ASSUME FilesTyped, NEW j \in Job, NEW pc \in {"writekey", "writestore"},
         NEW read \in Content("key") \cup Content("store"), Reads(j, pc, read)
  PROVE  \E r \in JobRec :
           /\ job' = [job EXCEPT ![j] = r] /\ r.pc = pc /\ r.op = job[j].op /\ r.id = job[j].id
           /\ r.man = job[j].man /\ r.todo = job[j].todo /\ r.read = read
           /\ r.warned = job[j].warned /\ r.back = job[j].back /\ r.ids = job[j].ids
<1> DEFINE r == [job[j] EXCEPT !.pc = pc, !.read = read]
<1>1. job[j] \in JobRec
  BY DEF FilesTyped
<1>2. /\ r \in JobRec /\ r.pc = pc /\ r.op = job[j].op /\ r.id = job[j].id
      /\ r.man = job[j].man /\ r.todo = job[j].todo /\ r.read = read
      /\ r.warned = job[j].warned /\ r.back = job[j].back /\ r.ids = job[j].ids
  BY <1>1 DEF JobRec
<1>3. job' = [job EXCEPT ![j] = r]
  BY DEF Reads
<1> QED
  BY <1>2, <1>3

LEMMA RestoreKeyKeeps ==
  ASSUME IInv, NEW j \in Job, RestoreKey(j)
  PROVE  IInv'
<1>1. JobsInv /\ FilesTyped /\ SecretsTyped
  BY DEF IInv, JobsInv
<1>2. /\ job[j].op = "load" /\ job[j].pc = "key" /\ collided' = (collided \/ Disturbed(j))
      /\ UNCHANGED <<store, call, worker, deaths, stale>>
      /\ UNCHANGED <<vol, dir, manifest, tarball, done, overlaps, hurt, pledge>>
  BY DEF RestoreKey, At
<1>3. Active(j) /\ job[j].id \in Snap
  BY <1>1, <1>2, ActiveFacts DEF At
<1>4. PICK i \in Snap : i = job[j].id
  BY <1>3
<1>5. PICK copy : copy = CopyOf(j, "key")
  OBVIOUS
<1>6. copy \in Content("key") /\ (i \notin hurt => copy = pledge[i]["key"])
  BY <1>2, <1>3, <1>4, <1>5, CopyFacts, ContentFacts
<1>7. /\ collided' \in BOOLEAN /\ stale' \in BOOLEAN /\ store' \in Stored \cup {Missing, Torn}
      /\ ~collided' => ~collided /\ ~Disturbed(j)
  BY <1>1, <1>2 DEF SecretsTyped
<1>8. ~collided' /\ ~Cloned => PairOK /\ i \notin hurt
  <2>1. ASSUME ~collided', ~Cloned PROVE \A k \in Job : ~Restoring(k)
    BY <1>2, <1>7, <2>1 DEF Disturbed, InUse, Restoring
  <2>2. ~collided' /\ ~Cloned => ReadableOK
    BY <1>7 DEF IInv
  <2> QED
    BY <1>4, <1>7, <2>1, <2>2 DEF ReadableOK, Disturbed
<1>9. CASE copy = Missing
  <2>1. job' = [job EXCEPT ![j].pc = "restorestore", ![j].todo = @ \ {"key"}] /\ UNCHANGED key
    BY <1>5, <1>9 DEF RestoreKey
  <2> DEFINE r == [job[j] EXCEPT !.pc = "restorestore", !.todo = @ \ {"key"}]
  <2>2. job' = [job EXCEPT ![j] = r]
    BY <2>1
  <2>3. /\ r \in JobRec /\ r.pc = "restorestore" /\ r.op = "load" /\ r.id = i
        /\ r.man = job[j].man /\ r.todo = job[j].todo \ {"key"} /\ r.warned = job[j].warned
        /\ r.back = job[j].back /\ r.ids = job[j].ids
    <3>1. job[j] \in JobRec
      BY <1>1 DEF FilesTyped
    <3> QED
      BY <1>2, <1>4, <3>1 DEF JobRec
  <2> HIDE DEF r
  <2>4. i \notin hurt => "key" \notin Owed(j)
    BY <1>2, <1>3, <1>4, <1>5, <1>9, OwedFacts DEF File, SecretFile
  <2>5. i \notin hurt => (job[j].back \cup job[j].todo) \cap Owed(j) \subseteq r.back \cup r.todo
    BY <2>3, <2>4
  <2>6. job'[j] = r
    BY <1>1, <2>2, <2>3, JobMoves
  <2>7. ASSUME ~collided', ~Cloned PROVE RestoreOK(j)'
    <3>1. PairOK'
      BY <1>2, <1>8, <2>1, <2>7 DEF PairOK, HasKey
    <3>2. pledge'[i]["key"] = Missing
      BY <1>2, <1>6, <1>8, <1>9, <2>7
    <3> QED
      BY <2>2, <2>3, <2>6, <3>1, <3>2 DEF RestoreOK
  <2>8. key' \in Maker \cup {Missing, Torn}
    BY <1>1, <2>1 DEF SecretsTyped
  <2> QED
    BY <1>2, <1>3, <1>4, <1>7, <2>2, <2>3, <2>5, <2>7, <2>8, RestoreStep
<1>10. CASE copy # Missing
  <2>1. key' = Torn /\ Reads(j, "writekey", copy)
    BY <1>5, <1>10 DEF RestoreKey, Reads
  <2>2. PICK r \in JobRec :
          /\ job' = [job EXCEPT ![j] = r] /\ r.pc = "writekey" /\ r.op = "load" /\ r.id = i
          /\ r.man = job[j].man /\ r.todo = job[j].todo /\ r.warned = job[j].warned
          /\ r.back = job[j].back /\ r.ids = job[j].ids /\ r.read = copy
    BY <1>1, <1>2, <1>4, <1>6, <2>1, ReadFacts
  <2>3. job'[j] = r
    BY <1>1, <2>2, JobMoves
  <2>4. ~collided' /\ ~Cloned => RestoreOK(j)'
    BY <1>2, <1>6, <1>8, <2>2, <2>3 DEF RestoreOK
  <2>5. key' \in Maker \cup {Missing, Torn}
    BY <2>1
  <2> QED
    BY <1>2, <1>3, <1>4, <1>6, <1>7, <1>10, <2>2, <2>4, <2>5, RestoreStep
<1> QED
  BY <1>9, <1>10

\* Nobody makes a key meanwhile: the one that was restored stays.
LEMMA RestoreKeyWriteKeeps ==
  ASSUME IInv, NEW j \in Job, RestoreKeyWrite(j)
  PROVE  IInv'
<1>1. JobsInv /\ FilesTyped /\ SecretsTyped
  BY DEF IInv, JobsInv
<1>2. /\ job[j].op = "load" /\ job[j].pc = "writekey" /\ key' = job[j].read
      /\ collided' = (collided \/ Disturbed(j) \/ job[j].read = Torn)
      /\ UNCHANGED <<store, call, worker, deaths, stale>>
      /\ UNCHANGED <<vol, dir, manifest, tarball, done, overlaps, hurt, pledge>>
  BY DEF RestoreKeyWrite, At
<1>3. Active(j) /\ JobOK(j) /\ job[j].id \in Snap
  BY <1>1, <1>2, ActiveFacts DEF At
<1>4. PICK i \in Snap : i = job[j].id
  BY <1>3
<1>5. job[j].read \in {Torn} \cup Maker
  BY <1>2, <1>3, ContentFacts DEF JobOK
<1>6. /\ collided' \in BOOLEAN /\ stale' \in BOOLEAN /\ store' \in Stored \cup {Missing, Torn}
      /\ key' \in Maker \cup {Missing, Torn}
      /\ ~collided' => ~collided /\ ~Disturbed(j) /\ job[j].read # Torn
  BY <1>1, <1>2, <1>5 DEF SecretsTyped
<1>7. PICK r \in JobRec :
        /\ job' = [job EXCEPT ![j] = r] /\ r.pc = "restorestore" /\ r.op = "load" /\ r.id = i
        /\ r.man = job[j].man /\ r.todo = job[j].todo \ {"key"} /\ r.warned = job[j].warned
        /\ r.back = job[j].back \cup {"key"} /\ r.ids = job[j].ids
  <2> DEFINE r == [job[j] EXCEPT !.pc = "restorestore", !.todo = @ \ {"key"}, !.back = @ \cup {"key"}, !.read = Missing]
  <2>1. job[j] \in JobRec /\ "key" \in File /\ Missing \in Content("key")
    BY <1>1, ContentFacts DEF FilesTyped, File, SecretFile
  <2>2. /\ r \in JobRec /\ r.pc = "restorestore" /\ r.op = "load" /\ r.id = i
        /\ r.man = job[j].man /\ r.todo = job[j].todo \ {"key"} /\ r.warned = job[j].warned
        /\ r.back = job[j].back \cup {"key"} /\ r.ids = job[j].ids
    BY <1>2, <1>4, <2>1 DEF JobRec
  <2>3. job' = [job EXCEPT ![j] = r]
    BY DEF RestoreKeyWrite
  <2> HIDE DEF r
  <2> QED
    BY <2>2, <2>3
<1>8. job'[j] = r
  BY <1>1, <1>7, JobMoves
<1>9. ASSUME ~collided', ~Cloned PROVE RestoreOK(j)'
  <2>1. job[j].read = pledge[i]["key"]
    <3>1. ReadableOK /\ i \notin hurt
      BY <1>4, <1>6, <1>9 DEF IInv, Disturbed
    <3> QED
      BY <1>2, <1>4, <3>1 DEF ReadableOK, RestoreOK, Restoring
  <2>2. \A w \in Worker : worker[w].pc \notin {"create", "writekey"}
    BY <1>6, <1>9 DEF Disturbed, InUse, AtRest, Running
  <2>3. PICK m \in Maker : m = pledge[i]["key"]
    BY <1>5, <1>6, <1>9, <2>1
  <2>4. Held(m)'
    BY <1>2, <2>1, <2>2, <2>3 DEF Held
  <2>5. m # Missing /\ m = pledge'[i]["key"]
    BY <1>2, <2>3, SecretsFacts
  <2> QED
    BY <1>7, <1>8, <2>4, <2>5 DEF RestoreOK, Held
<1> QED
  BY <1>2, <1>3, <1>4, <1>6, <1>7, <1>9, RestoreStep

LEMMA RestoreStoreKeeps ==
  ASSUME IInv, NEW j \in Job, RestoreStore(j)
  PROVE  IInv'
<1>1. JobsInv /\ FilesTyped /\ SecretsTyped
  BY DEF IInv, JobsInv
<1>2. /\ job[j].op = "load" /\ job[j].pc = "restorestore"
      /\ collided' = (collided \/ Disturbed(j) \/ Parted(j))
      /\ UNCHANGED <<key, call, worker, deaths>>
      /\ UNCHANGED <<vol, dir, manifest, tarball, done, overlaps, hurt, pledge>>
  BY DEF RestoreStore, At
<1>3. Active(j) /\ job[j].id \in Snap
  BY <1>1, <1>2, ActiveFacts DEF At
<1>4. PICK i \in Snap : i = job[j].id
  BY <1>3
<1>5. PICK copy : copy = CopyOf(j, "store")
  OBVIOUS
<1>6. /\ copy \in Content("store")
      /\ i \notin hurt => copy = pledge[i]["store"] /\ CopyOf(j, "key") = pledge[i]["key"]
  BY <1>2, <1>3, <1>4, <1>5, CopyFacts, ContentFacts
<1>7. /\ collided' \in BOOLEAN /\ key' \in Maker \cup {Missing, Torn}
      /\ ~collided' => ~collided /\ ~Disturbed(j) /\ ~Parted(j)
  BY <1>1, <1>2 DEF SecretsTyped
<1>8. ASSUME ~collided', ~Cloned
      PROVE  /\ i \notin hurt
             /\ IF pledge[i]["key"] = Missing THEN PairOK /\ copy = Missing
                ELSE Held(pledge[i]["key"]) /\ copy # Missing
  <2>1. ReadableOK /\ i \notin hurt
    BY <1>4, <1>7, <1>8 DEF IInv, Disturbed
  <2>2. RestoreOK(j)
    BY <1>2, <1>4, <2>1 DEF ReadableOK, Restoring
  <2>3. pledge[i]["key"] = Missing <=> copy = Missing
    BY <1>5, <1>6, <1>7, <1>8, <2>1 DEF Parted
  <2> QED
    BY <1>2, <1>4, <2>1, <2>2, <2>3 DEF RestoreOK
<1>9. CASE copy = Missing
  <2>1. job' = [job EXCEPT ![j].pc = "volumes", ![j].todo = @ \ {"store"}] /\ UNCHANGED <<store, stale>>
    BY <1>5, <1>9 DEF RestoreStore
  <2> DEFINE r == [job[j] EXCEPT !.pc = "volumes", !.todo = @ \ {"store"}]
  <2>2. job' = [job EXCEPT ![j] = r]
    BY <2>1
  <2>3. /\ r \in JobRec /\ r.pc = "volumes" /\ r.op = "load" /\ r.id = i
        /\ r.man = job[j].man /\ r.todo = job[j].todo \ {"store"} /\ r.warned = job[j].warned
        /\ r.back = job[j].back /\ r.ids = job[j].ids
    <3>1. job[j] \in JobRec
      BY <1>1 DEF FilesTyped
    <3> QED
      BY <1>2, <1>4, <3>1 DEF JobRec
  <2> HIDE DEF r
  <2>4. i \notin hurt => "store" \notin Owed(j)
    BY <1>2, <1>3, <1>4, <1>5, <1>9, OwedFacts DEF File, SecretFile
  <2>5. i \notin hurt => (job[j].back \cup job[j].todo) \cap Owed(j) \subseteq r.back \cup r.todo
    BY <2>3, <2>4
  <2>6. ~collided' /\ ~Cloned => PairOK'
    BY <1>2, <1>8, <1>9, <2>1 DEF PairOK, HasKey
  <2>7. store' \in Stored \cup {Missing, Torn} /\ stale' \in BOOLEAN
    BY <1>1, <2>1 DEF SecretsTyped
  <2> QED
    BY <1>2, <1>3, <1>4, <1>7, <2>2, <2>3, <2>5, <2>6, <2>7, RestoreStep
<1>10. CASE copy # Missing
  <2>1. store' = Torn /\ stale' = TRUE /\ Reads(j, "writestore", copy)
    BY <1>5, <1>10 DEF RestoreStore, Reads
  <2>2. PICK r \in JobRec :
          /\ job' = [job EXCEPT ![j] = r] /\ r.pc = "writestore" /\ r.op = "load" /\ r.id = i
          /\ r.man = job[j].man /\ r.todo = job[j].todo /\ r.warned = job[j].warned
          /\ r.back = job[j].back /\ r.ids = job[j].ids /\ r.read = copy
    BY <1>1, <1>2, <1>4, <1>6, <2>1, ReadFacts
  <2>3. job'[j] = r
    BY <1>1, <2>2, JobMoves
  <2>4. ASSUME ~collided', ~Cloned PROVE RestoreOK(j)'
    <3>1. PICK m : m = pledge[i]["key"]
      OBVIOUS
    <3>2. Held(m)'
      BY <1>2, <1>8, <1>10, <2>4, <3>1 DEF Held
    <3>3. m = pledge'[i]["key"] /\ copy = pledge'[i]["store"]
      BY <1>2, <1>6, <1>8, <2>4, <3>1
    <3> QED
      BY <2>2, <2>3, <3>2, <3>3 DEF RestoreOK, Held
  <2>5. stale' \in BOOLEAN /\ store' \in Stored \cup {Missing, Torn}
    BY <2>1
  <2> QED
    BY <1>2, <1>3, <1>4, <1>6, <1>7, <1>10, <2>2, <2>4, <2>5, RestoreStep
<1> QED
  BY <1>9, <1>10

\* Key and store are a pair again, that of the snapshot.
LEMMA RestoreStoreWriteKeeps ==
  ASSUME IInv, NEW j \in Job, RestoreStoreWrite(j)
  PROVE  IInv'
<1>1. JobsInv /\ FilesTyped /\ SecretsTyped
  BY DEF IInv, JobsInv
<1>2. /\ job[j].op = "load" /\ job[j].pc = "writestore" /\ store' = job[j].read
      /\ collided' = (collided \/ Disturbed(j) \/ job[j].read = Torn)
      /\ UNCHANGED <<key, call, worker, deaths, stale>>
      /\ UNCHANGED <<vol, dir, manifest, tarball, done, overlaps, hurt, pledge>>
  BY DEF RestoreStoreWrite, At
<1>3. Active(j) /\ JobOK(j) /\ job[j].id \in Snap
  BY <1>1, <1>2, ActiveFacts DEF At
<1>4. PICK i \in Snap : i = job[j].id
  BY <1>3
<1>5. job[j].read \in {Torn} \cup Stored
  BY <1>2, <1>3, ContentFacts DEF JobOK
<1>6. /\ collided' \in BOOLEAN /\ stale' \in BOOLEAN /\ store' \in Stored \cup {Missing, Torn}
      /\ key' \in Maker \cup {Missing, Torn}
      /\ ~collided' => ~collided /\ ~Disturbed(j) /\ job[j].read # Torn
  BY <1>1, <1>2, <1>5 DEF SecretsTyped
<1>7. PICK r \in JobRec :
        /\ job' = [job EXCEPT ![j] = r] /\ r.pc = "volumes" /\ r.op = "load" /\ r.id = i
        /\ r.man = job[j].man /\ r.todo = job[j].todo \ {"store"} /\ r.warned = job[j].warned
        /\ r.back = job[j].back \cup {"store"} /\ r.ids = job[j].ids
  <2> DEFINE r == [job[j] EXCEPT !.pc = "volumes", !.todo = @ \ {"store"}, !.back = @ \cup {"store"}, !.read = Missing]
  <2>1. job[j] \in JobRec /\ "store" \in File /\ Missing \in Content("store")
    BY <1>1, ContentFacts DEF FilesTyped, File, SecretFile
  <2>2. /\ r \in JobRec /\ r.pc = "volumes" /\ r.op = "load" /\ r.id = i
        /\ r.man = job[j].man /\ r.todo = job[j].todo \ {"store"} /\ r.warned = job[j].warned
        /\ r.back = job[j].back \cup {"store"} /\ r.ids = job[j].ids
    BY <1>2, <1>4, <2>1 DEF JobRec
  <2>3. job' = [job EXCEPT ![j] = r]
    BY DEF RestoreStoreWrite
  <2> HIDE DEF r
  <2> QED
    BY <2>2, <2>3
<1>8. ASSUME ~collided', ~Cloned PROVE PairOK'
  <2>1. /\ ReadableOK /\ i \notin hurt /\ job[j].read \in Stored
        /\ \A w \in Worker : ~Running(w)
    BY <1>4, <1>5, <1>6, <1>8 DEF IInv, Disturbed, InUse, AtRest
  <2>2. Held(pledge[i]["key"]) /\ job[j].read = pledge[i]["store"]
    <3>1. RestoreOK(j)
      BY <1>2, <1>4, <2>1 DEF ReadableOK, Restoring
    <3> QED
      BY <1>2, <1>4, <3>1 DEF RestoreOK
  <2>3. pledge[i] # Missing
    BY <1>2, <1>3, <1>4, <2>1, CopyFacts
  <2>4. Coherent(pledge[i])
    BY <2>1, <2>3 DEF ReadableOK
  <2>5. key \in Maker /\ store' \in Stored /\ store'.by = key
    BY <1>2, <2>1, <2>2, <2>4, SecretsFacts DEF Coherent, Held
  <2>6. \A w \in Worker : ~HasKey(w)' /\ worker'[w].pc \notin {"writekey", "write"}
    BY <1>2, <2>1 DEF Running, HasKey
  <2> QED
    BY <1>2, <2>5, <2>6, SecretsFacts DEF PairOK
<1> QED
  BY <1>2, <1>3, <1>4, <1>6, <1>7, <1>8, RestoreStep

\* The user is warned; unless the first file could not be opened, they may be no pair.
LEMMA RestoreFailsKeeps ==
  ASSUME IInv, NEW j \in Job, RestoreFails(j)
  PROVE  IInv'
<1>1. JobsInv /\ FilesTyped /\ SecretsTyped
  BY DEF IInv, JobsInv
<1>2. /\ job[j].op = "load" /\ job[j].pc \in {"key", "restorestore", "writekey", "writestore"} /\ Fault
      /\ collided' = (collided \/ job[j].pc # "key")
      /\ UNCHANGED <<key, store, call, worker, stale>>
      /\ UNCHANGED <<vol, dir, manifest, tarball, done, overlaps, hurt, pledge>>
  BY DEF RestoreFails, At
<1>3. Active(j) /\ job[j] \in JobRec /\ job[j].id \in Snap
  BY <1>1, <1>2, ActiveFacts DEF At
<1>4. PICK i \in Snap : i = job[j].id
  BY <1>3
<1> DEFINE r == [job[j] EXCEPT !.pc = "volumes", !.todo = @ \ SecretFile, !.warned = TRUE, !.read = Missing]
<1>5. job' = [job EXCEPT ![j] = r]
  BY DEF RestoreFails
<1>6. /\ r \in JobRec /\ r.pc = "volumes" /\ r.op = "load" /\ r.id = i /\ r.man = job[j].man
      /\ r.ids = job[j].ids /\ r.warned = TRUE
  BY <1>2, <1>3, <1>4, ContentFacts DEF JobRec
<1> HIDE DEF r
<1>7. deaths' \in 0..MaxDeaths
  BY <1>1, <1>2, SecretsAssumption DEF Fault, SecretsTyped, SecretsAssumption
<1>8. LoadOK(j)'
  <2>1. job'[j] = r
    BY <1>1, <1>5, <1>6, JobMoves
  <2> QED
    BY <1>6, <2>1 DEF LoadOK
<1>9. /\ collided' \in BOOLEAN /\ stale' \in BOOLEAN
      /\ key' \in Maker \cup {Missing, Torn} /\ store' \in Stored \cup {Missing, Torn}
  BY <1>1, <1>2 DEF SecretsTyped
<1>10. ASSUME ~collided', ~Cloned PROVE ReadableOK'
  <2>1. ReadableOK /\ ~Restoring(j)
    BY <1>2, <1>10 DEF IInv, Restoring
  <2>2. (PairOK => PairOK') /\ \A m \in Maker : Held(m) => Held(m)'
    BY <1>2 DEF PairOK, HasKey, Held
  <2>3. hurt \subseteq hurt' /\ Elsewhere(i)
    BY <1>2 DEF Elsewhere
  <2>4. Unshared(j, i)
    BY <1>1, <1>3, <1>4, <2>3, AloneWithId
  <2>5. i \in Snap \ hurt' /\ pledge'[i] # Missing => Coherent(pledge'[i])
    BY <1>2, <2>1 DEF ReadableOK
  <2> QED
    BY <1>1, <1>5, <1>6, <2>1, <2>2, <2>3, <2>4, <2>5, ReadableKeeps
<1> QED
  BY <1>2, <1>3, <1>4, <1>5, <1>6, <1>7, <1>8, <1>9, <1>10, RestoreGoesOn

-----------------------------------------------------------------------------
(* The invariant *)

\* The tarball of a teammate is that of a snapshot, with a key and its store, or the
\* key alone.
LEMMA ForeignFacts ==
  ASSUME NEW i \in Snap, NEW what, NEW files,
         files = [f \in File |->
                   CASE f = "key" -> Teammate
                     [] f = "store" -> (IF what = "pair" THEN TeammateStore ELSE Missing)
                     [] OTHER -> Missing],
         tarball = [id |-> i, man |-> [exported |-> {}, secrets |-> TRUE, at |-> 0], files |-> files, whole |-> TRUE]
  PROVE  /\ files \in Directory /\ files # Missing /\ Coherent(files)
         /\ tarball \in Tarball /\ tarball # Missing /\ tarball.id = i /\ tarball.files = files
         /\ tarball.man.exported = {}
<1>1. Teammate \in Maker /\ TeammateStore \in Stored /\ TeammateStore.by = Teammate
  <2>1. Teammate \in Maker
    BY DEF Maker
  <2>2. [n \in Name |-> [value |-> Teammate, source |-> "manual"]] \in Secret
    BY <2>1 DEF Secret, Entry
  <2> QED
    BY <2>1, <2>2 DEF TeammateStore, Stored
<1>2. "key" \in File /\ "store" \in File /\ File = Volume \cup {"key", "store"}
  BY DEF File, SecretFile
<1>3. files["key"] = Teammate /\ files["store"] \in {TeammateStore, Missing}
  BY <1>2
<1>4. ASSUME NEW f \in File PROVE files[f] \in Content(f)
  <2>1. CASE f = "key"
    BY <1>1, <1>3, <2>1, ContentFacts
  <2>2. CASE f = "store"
    BY <1>1, <1>3, <2>2, ContentFacts
  <2>3. CASE f \notin {"key", "store"}
    <3>1. files[f] = Missing
      BY <2>3
    <3> QED
      BY <3>1 DEF Content
  <2> QED
    BY <2>1, <2>2, <2>3
<1> DEFINE U == UNION {Content(g) : g \in File}
<1>5. files \in [File -> U]
  <2>1. \A f \in File : files[f] \in U
    BY <1>4
  <2>2. files = [f \in File |-> files[f]]
    OBVIOUS
  <2> HIDE DEF U
  <2> QED
    BY <2>1, <2>2
<1>6. files \in Directory
  BY <1>4, <1>5 DEF Directory
<1> HIDE DEF U
<1>7. Coherent(files)
  BY <1>1, <1>3, SecretsFacts DEF Coherent
<1>8. [exported |-> {}, secrets |-> TRUE, at |-> 0] \in Manifest
  BY SnapshotsAssumption DEF SnapshotsAssumption, Manifest
<1>9. tarball \in Tarball
  BY <1>6, <1>8 DEF Tarball
<1>10. tarball.id = i /\ tarball.files = files /\ tarball.man.exported = {}
  OBVIOUS
<1> QED
  BY <1>6, <1>7, <1>9, <1>10, FileFacts

LEMMA InitOK ==
  ASSUME SnapshotsInit
  PROVE  IInv
<1>1. SecretsTyped
  <2>1. 0 \in 0..MaxDeaths
    BY SecretsAssumption DEF SecretsAssumption
  <2>2. NoWorker \in WorkerRec
    BY DEF NoWorker, WorkerRec, NoSecrets, Secret
  <2>3. TeammateStore \in Stored
    <3>1. Teammate \in Maker
      BY DEF Maker
    <3>2. [n \in Name |-> [value |-> Teammate, source |-> "manual"]] \in Secret
      BY <3>1 DEF Secret, Entry
    <3> QED
      BY <3>1, <3>2 DEF TeammateStore, Stored
  <2>4. store \in Stored \cup {Missing}
    BY <2>3 DEF SnapshotsInit, SecretsInit
  <2>5. \A w \in Worker : worker[w].pc = "none"
    BY DEF SnapshotsInit, SecretsInit, NoWorker
  <2> QED
    BY <2>1, <2>2, <2>4, <2>5 DEF SnapshotsInit, SecretsInit, SecretsTyped, CallRec, HasKey
<1>2. \A j \in Job : job[j] = Idle
  BY DEF SnapshotsInit
<1>3. /\ dir = [i \in Snap |-> Missing] /\ manifest = [i \in Snap |-> Missing] /\ hurt = {}
      /\ vol = [v \in Volume |-> Missing] /\ job = [j \in Job |-> Idle] /\ done = 0 /\ overlaps = 0
  BY DEF SnapshotsInit
<1>4. /\ tarball \in Tarball \cup {Missing} /\ pledge \in [Snap -> Directory \cup {Missing}]
      /\ tarball # Missing =>
           /\ pledge[tarball.id] # Missing /\ tarball.files = pledge[tarball.id]
           /\ tarball.man.exported = {}
      /\ \A i \in Snap : pledge[i] # Missing => Coherent(pledge[i])
  <2>1. CASE tarball = Missing /\ pledge = [i \in Snap |-> Missing]
    BY <2>1
  <2>2. CASE ~(tarball = Missing /\ pledge = [i \in Snap |-> Missing])
    <3>1. PICK i \in Snap, what \in Foreign :
            LET files == [f \in File |->
                  CASE f = "key" -> Teammate
                    [] f = "store" -> (IF what = "pair" THEN TeammateStore ELSE Missing)
                    [] OTHER -> Missing]
            IN  /\ tarball = [id |-> i, man |-> [exported |-> {}, secrets |-> TRUE, at |-> 0], files |-> files, whole |-> TRUE]
                /\ pledge = [k \in Snap |-> IF k = i THEN files ELSE Missing]
      BY <2>2 DEF SnapshotsInit
    <3>2. PICK files :
            /\ files = [f \in File |->
                 CASE f = "key" -> Teammate
                   [] f = "store" -> (IF what = "pair" THEN TeammateStore ELSE Missing)
                   [] OTHER -> Missing]
            /\ tarball = [id |-> i, man |-> [exported |-> {}, secrets |-> TRUE, at |-> 0], files |-> files, whole |-> TRUE]
            /\ pledge = [k \in Snap |-> IF k = i THEN files ELSE Missing]
      BY <3>1
    <3>3. /\ files \in Directory /\ files # Missing /\ Coherent(files)
          /\ tarball \in Tarball /\ tarball # Missing /\ tarball.id = i /\ tarball.files = files
          /\ tarball.man.exported = {}
      BY <3>2, ForeignFacts
    <3>4. pledge \in [Snap -> Directory \cup {Missing}] /\ \A k \in Snap : pledge[k] # Missing => pledge[k] = files
      BY <3>2, <3>3
    <3>5. pledge[i] = files
      BY <3>2
    <3> QED
      BY <3>3, <3>4, <3>5
  <2> QED
    BY <2>1, <2>2
<1>5. /\ "load" # None /\ "save" # None /\ "gc" # None /\ "delete" # None /\ "import" # None
      /\ "export" # None
  BY FileFacts DEF AllOps
<1>6. \A j \in Job : ~Active(j) /\ ~Restoring(j) /\ job[j].op = None
  BY <1>2, IdleFacts DEF Active, Restoring
<1>7. JobsInv
  <2>1. FilesTyped
    <3>1. MaxOps \in Nat /\ MaxOverlaps \in Nat
      BY SnapshotsAssumption DEF SnapshotsAssumption
    <3> QED
      BY <1>3, <1>4, <3>1, IdleFacts DEF FilesTyped
  <2>2. \A j \in Job : JobOK(j)
    BY <1>2, <1>5, <1>6, IdleFacts DEF JobOK
  <2>3. PledgeOK
    BY <1>3, <1>4, <1>5, <1>6, FileFacts DEF PledgeOK
  <2>4. Sole
    BY <1>6 DEF Sole
  <2> QED
    BY <2>1, <2>2, <2>3, <2>4 DEF JobsInv
<1>8. FilesInv
  <2>1. \A i \in Snap : Gone(i)
    BY <1>3 DEF Gone
  <2>2. \A j \in Job : FilesOK(j) /\ LoadOK(j)
    BY <1>5, <1>6 DEF FilesOK, At, LoadOK
  <2>3. TarballOK
    BY <1>4 DEF TarballOK, Good
  <2> QED
    BY <2>1, <2>2, <2>3 DEF FilesInv, SettledOK
<1>9. ASSUME ~Cloned PROVE ReadableOK
  <2>1. \A w \in Worker : worker[w].pc = "none"
    BY DEF SnapshotsInit, SecretsInit, NoWorker
  <2>2. key = Missing /\ store = Missing
    BY <1>9 DEF SnapshotsInit, SecretsInit
  <2>3. PairOK
    BY <2>1, <2>2, SecretsFacts DEF PairOK, HasKey
  <2>4. \A j \in Job : ~At(j, "save", "store") /\ job[j].op # "save"
    BY <1>5, <1>6 DEF At
  <2> QED
    BY <1>4, <1>6, <2>3, <2>4 DEF ReadableOK
<1> QED
  BY <1>1, <1>7, <1>8, <1>9 DEF IInv

LEMMA StutterKeeps ==
  ASSUME IInv, UNCHANGED filesVars
  PROVE  IInv'
<1>1. UNCHANGED <<key, store, call, worker, deaths, collided, stale>>
      /\ UNCHANGED <<vol, dir, manifest, tarball, job, done, overlaps, hurt, pledge>>
  BY DEF filesVars, secretsVars, snapVars
<1>2. SecretsTyped'
  BY <1>1 DEF IInv, SecretsTyped, HasKey, Kind
<1>3. JobsInv'
  <2>1. FilesTyped' /\ \A j \in Job : JobOK(j)'
    BY <1>1 DEF IInv, JobsInv, FilesTyped, JobOK, Active
  <2>2. PledgeOK' /\ Sole'
    BY <1>1 DEF IInv, JobsInv, PledgeOK, Sole, Active, Touches
  <2> QED
    BY <2>1, <2>2 DEF JobsInv
<1>4. FilesInv'
  BY <1>1 DEF IInv, FilesInv, SettledOK, Changes, Written, Gone, FilesOK, At, Active, TarballOK, LoadOK, Owed
<1>5. ASSUME ~collided', ~Cloned PROVE ReadableOK'
  <2>1. ReadableOK
    BY <1>1, <1>5 DEF IInv
  <2>2. \A j \in Job : (Restoring(j)' <=> Restoring(j)) /\ (At(j, "save", "store")' <=> At(j, "save", "store"))
    BY <1>1 DEF Restoring, At
  <2>3. (PairOK' <=> PairOK) /\ \A j \in Job : RestoreOK(j)' <=> RestoreOK(j)
    BY <1>1 DEF PairOK, HasKey, RestoreOK, Held
  <2>4. \A j \in Job : Held(dir[job[j].id]["key"])' <=> Held(dir[job[j].id]["key"])
    BY <1>1 DEF Held
  <2> QED
    BY <1>1, <2>1, <2>2, <2>3, <2>4 DEF ReadableOK
<1> QED
  BY <1>2, <1>3, <1>4, <1>5 DEF IInv

LEMMA NextOK ==
  ASSUME IInv, SnapshotsNext
  PROVE  IInv'
<1>1. FilesTyped
  BY DEF IInv, JobsInv
<1>2. ASSUME SecretsStep, UNCHANGED snapVars PROVE IInv'
  BY <1>1, <1>2, SecretsKeep DEF snapVars, FilesTyped
<1>3. ASSUME NEW c \in Call, Ask(c), Together, UNCHANGED <<vol, dir, manifest, tarball, job, hurt, pledge>>
      PROVE  IInv'
  BY <1>1, <1>3, TogetherFacts, SecretsKeep
<1>4. ASSUME NEW j \in Job, Step(j) PROVE IInv'
  BY <1>4, SaveVolumeKeeps, SaveKeyKeeps, SaveStoreKeeps, CopyFailsKeeps, EmptyManifestKeeps,
     WriteManifestKeeps, ManifestFailsKeeps, RestoreKeyKeeps, RestoreKeyWriteKeeps, RestoreStoreKeeps,
     RestoreStoreWriteKeeps, RestoreFailsKeeps, RestoreVolumeKeeps, LoadDoneKeeps, RemoveDirKeeps,
     RemoveFailsKeeps, DeleteManifestKeeps, GCNextKeeps, GCManifestKeeps, ExportWalkKeeps,
     ExportFailsKeeps, ImportFileKeeps, ImportFailsKeeps, ImportUnpackedKeeps DEF Step
<1>5. ASSUME NEW j \in Job,
             SaveBegin(j) \/ LoadBegin(j) \/ DeleteBegin(j) \/ GCBegin(j) \/ ExportBegin(j) \/ ImportBegin(j)
      PROVE  IInv'
  BY <1>5, SaveBeginKeeps, LoadBeginKeeps, DeleteBeginKeeps, GCBeginKeeps, ExportBeginKeeps, ImportBeginKeeps
<1> QED
  BY <1>2, <1>3, <1>4, <1>5, UseKeeps, KillKeeps DEF SnapshotsNext

\* What commands know of the files they are working on, and what is so of the files
\* that nobody is working on (Manager.Save, Load, Delete, Export, Import, GC).
THEOREM InductiveInvariant == SnapshotsSpec => []IInv
<1>1. SnapshotsInit => IInv
  BY InitOK
<1>2. IInv /\ [SnapshotsNext]_filesVars => IInv'
  BY NextOK, StutterKeeps
<1> QED
  BY <1>1, <1>2, PTL DEF SnapshotsSpec

-----------------------------------------------------------------------------
(* The properties *)

\* A listed snapshot that nobody works on, unhurt, is what was saved.
LEMMA ListedWritten ==
  ASSUME IInv, NEW i \in ListManifests \ hurt, Settled(i)
  PROVE  Written(i)
<1>1. i \in Snap /\ manifest[i] \in Manifest
  BY DEF ListManifests
<1>2. ASSUME NEW j \in Job PROVE ~Changes(j, i)
  <2>1. JobOK(j)
    BY DEF IInv, JobsInv
  <2>2. Active(j) => job[j].id # i
    BY DEF Settled, Touches
  <2> QED
    BY <2>1, <2>2, FileFacts DEF JobOK, Changes, AllOps
<1> QED
  BY <1>1, <1>2, FileFacts DEF IInv, FilesInv, SettledOK, Gone

\* A snapshot that List shows, that nobody works on and that is not hurt (no two
\* commands have worked on it at once, none of its commands has failed or been cut off,
\* it has not come from half a tarball) has the files it had when its manifest was first
\* written, and among them one for every volume the manifest counts, for any number of
\* volumes, ids, commands and faults (manager.go writes the manifest last and removes it
\* last).  Whether that file is a whole archive is another matter: see SavedWhole.
THEOREM ListedHasAll == SnapshotsSpec => []ListedComplete
<1>1. ASSUME IInv, NEW i \in ListManifests \ hurt, Settled(i)
      PROVE  dir[i] # Missing /\ dir[i] = pledge[i] /\ \A v \in manifest[i].exported : dir[i][v] # Missing
  BY <1>1, ListedWritten DEF Written, Good
<1>2. IInv => ListedComplete
  BY <1>1 DEF ListedComplete
<1> QED
  BY <1>2, InductiveInvariant, PTL

\* Where volumes have a path on the host, a Load that ends without a warning has laid
\* every file of the copy over every volume that the manifest counts, and has written key
\* and store if the snapshot had them, whichever of its writes failed, if no other
\* command has worked on the snapshot meanwhile or left it hurt (Manager.Load).
THEOREM LoadPutsBack == Mounted => (SnapshotsSpec => []LoadRestores)
<1> SUFFICES ASSUME Mounted PROVE SnapshotsSpec => []LoadRestores
  OBVIOUS
<1>1. ASSUME IInv, NEW j \in Job, At(j, "load", "ok"), ~job[j].warned, job[j].id \notin hurt
      PROVE  Owed(j) \subseteq job[j].back
  BY <1>1 DEF IInv, FilesInv, LoadOK, At
<1>2. IInv => LoadRestores
  BY <1>1 DEF LoadRestores
<1> QED
  BY <1>2, InductiveInvariant, PTL

\* The secrets that Save copies one after the other are a pair, and stay one
\* (CopyToSnapshot), in a project that did not come with a store alone, as long as no two
\* commands have used the secrets files at once, no step on them was cut off (~collided)
\* and the snapshot is not hurt.
THEOREM CopiesFit == ~Cloned => (SnapshotsSpec => []SecretsCopied)
<1> SUFFICES ASSUME ~Cloned PROVE SnapshotsSpec => []SecretsCopied
  OBVIOUS
<1>1. ASSUME IInv, NEW i \in ListManifests \ hurt, ~collided, Settled(i),
             dir[i]["store"] \in Stored, dir[i]["key"] # Missing
      PROVE  dir[i]["store"].by = dir[i]["key"]
  <2>1. dir[i] = pledge[i] /\ pledge[i] # Missing
    BY <1>1, ListedWritten DEF Written
  <2>2. Coherent(pledge[i])
    BY <1>1, <2>1 DEF IInv, ReadableOK, ListManifests
  <2> QED
    BY <1>1, <2>1, <2>2 DEF Coherent
<1>2. IInv => SecretsCopied
  BY <1>1 DEF SecretsCopied
<1> QED
  BY <1>2, InductiveInvariant, PTL

\* After a Load the key that was put back opens the store beside it, whatever was
\* set, saved and loaded before, in a project that did not come with a store alone, as
\* long as no two commands have used the secrets files at once, no step on them has failed
\* half way or been cut off, and no snapshot with one file of the two, or hurt, has been
\* loaded (~collided: see RestoreFromSnapshot); and every variable is of its type.
THEOREM RestoredOpens == ~Cloned => (SnapshotsSpec => []SnapshotsInv)
<1> SUFFICES ASSUME ~Cloned PROVE SnapshotsSpec => []SnapshotsInv
  OBVIOUS
<1>1. IInv => SecretsTypeOK
  BY DEF IInv, SecretsTyped, SecretsTypeOK, WorkerRec, HasKey, CallRec
<1>2. ASSUME IInv PROVE SnapshotsTypeOK
  <2>1. FilesTyped
    BY <1>2 DEF IInv, JobsInv
  <2>2. ASSUME NEW i \in Snap
        PROVE  dir[i] = Missing \/ (DOMAIN dir[i] = File /\ \A f \in File : dir[i][f] \in Content(f))
    <3>1. dir[i] \in Directory \cup {Missing}
      BY <2>1 DEF FilesTyped
    <3> QED
      BY <3>1 DEF Directory
  <2>3. tarball = Missing \/ (tarball.id \in Snap /\ tarball.man \in Manifest)
    BY <2>1 DEF FilesTyped, Tarball
  <2>4. \A j \in Job : job[j].todo \subseteq File /\ job[j].ids \subseteq Snap
    BY <2>1 DEF FilesTyped, JobRec
  <2> QED
    BY <1>1, <1>2, <2>1, <2>2, <2>3, <2>4 DEF SnapshotsTypeOK, FilesTyped
<1>3. ASSUME IInv, ~Busy, ~collided, key # Missing PROVE KeyOpensStore
  <2>1. PairOK /\ AtRest
    BY <1>3 DEF IInv, ReadableOK, Busy
  <2>2. \A w \in Worker : worker[w].pc \notin {"writekey", "write"}
    BY <2>1 DEF AtRest, Running
  <2> QED
    BY <1>3, <2>1, <2>2 DEF PairOK, KeyOpensStore, IInv, SecretsTyped
<1>4. IInv => SnapshotsInv
  BY <1>2, <1>3 DEF SnapshotsInv, RestoredReadable
<1> QED
  BY <1>4, InductiveInvariant, PTL

\* A Save has an id of its own: no step takes a snapshot off the list, or changes what
\* its manifest says, but those of a Delete, a GC or an Import of it.
THEOREM SavesApart == SnapshotsSpec => OthersStay
<1>1. ASSUME IInv, SnapshotsNext, NEW i \in Snap, manifest[i] \in Manifest, manifest'[i] # manifest[i]
      PROVE  \E j \in Job : i \in Touches(j) /\ job[j].op \in {"delete", "gc", "import"}
  <2>1. PICK j \in Job : EmptyManifest(j) \/ WriteManifest(j) \/ DeleteManifest(j) \/ GCManifest(j)
    <3>1. ASSUME UNCHANGED manifest PROVE FALSE
      BY <1>1, <3>1
    <3>2. ASSUME NEW j \in Job, Step(j)
          PROVE  EmptyManifest(j) \/ WriteManifest(j) \/ DeleteManifest(j) \/ GCManifest(j)
      BY <3>1, <3>2 DEF Step, SaveVolume, SaveKey, SaveStore, CopyFails, ManifestFails, RestoreKey,
         RestoreKeyWrite, RestoreStore, RestoreStoreWrite, RestoreFails, RestoreVolume, LoadDone, RemoveDir,
         RemoveFails, GCNext, ExportWalk, ExportFails, ImportFile, ImportFails, ImportUnpacked
    <3>3. ASSUME NEW j \in Job,
                 \/ SaveBegin(j) \/ LoadBegin(j) \/ DeleteBegin(j) \/ GCBegin(j)
                 \/ ExportBegin(j) \/ ImportBegin(j) \/ Kill(j)
          PROVE  FALSE
      BY <3>1, <3>3 DEF SaveBegin, LoadBegin, DeleteBegin, GCBegin, ExportBegin, ImportBegin, Kill
    <3> QED
      BY <1>1, <3>1, <3>2, <3>3 DEF SnapshotsNext, snapVars, Use
  <2>2. job[j].op \in {"save", "delete", "gc", "import"}
    BY <2>1 DEF EmptyManifest, WriteManifest, DeleteManifest, GCManifest, At
  <2>3. manifest' = [manifest EXCEPT ![job[j].id] = manifest'[job[j].id]]
    BY <1>1, <2>1 DEF EmptyManifest, WriteManifest, DeleteManifest, GCManifest, IInv, JobsInv, FilesTyped
  <2>4. i = job[j].id
    BY <1>1, <2>3 DEF IInv, JobsInv, FilesTyped
  <2>5. job[j].op # "save"
    BY <1>1, <2>4 DEF IInv, JobsInv, PledgeOK
  <2> QED
    BY <2>2, <2>4, <2>5 DEF Touches
<1>2. IInv /\ [SnapshotsNext]_filesVars =>
        [\A i \in Snap : manifest[i] \in Manifest /\ manifest'[i] # manifest[i] =>
           \E j \in Job : i \in Touches(j) /\ job[j].op \in {"delete", "gc", "import"}]_filesVars
  BY <1>1
<1> QED
  BY <1>2, InductiveInvariant, PTL DEF SnapshotsSpec, OthersStay
=============================================================================
