------------------------------ MODULE Snapshots ------------------------------
(***************************************************************************)
(* Snapshots of a project: a directory with a copy of each volume and of   *)
(* the two secrets files, and a manifest beside it, written last, that     *)
(* makes the snapshot known.  Save, Load, Delete, Export, Import and GC    *)
(* are run by the engine or by the CLI itself, while services write their  *)
(* volumes and other commands the secrets (module Secrets).                *)
(*                                                                         *)
(* A volume has files at a few paths; to copy or restore one volume is one *)
(* step.  A service has one volume.  Any write and any removal may fail,   *)
(* and so may the Close that writes the rest of an archive.                *)
(***************************************************************************)
EXTENDS Secrets

CONSTANTS
  Job,           \* commands that may run at the same time
  Snap,          \* ids, fresh ones for each Save
  Volume,
  Ops,           \* the commands considered, a subset of AllOps
  Path,          \* where the files of a volume may be
  Version,       \* bound: contents of such a file
  Mounted,       \* do volumes have a path on the host, or is Docker asked to copy them?
  Foreign,       \* what the secrets of a teammate's tarball may be: "pair" or "key"
  MaxOps,        \* bound: commands
  MaxOverlaps    \* bound: commands begun while another runs

AllOps == {"save", "load", "delete", "export", "import", "gc"}

ASSUME SnapshotsAssumption ==
  /\ Ops \subseteq AllOps /\ Mounted \in BOOLEAN /\ Foreign \subseteq {"pair", "key"}
  /\ MaxOps \in Nat /\ MaxOverlaps \in Nat

VARIABLES
  vol,       \* per volume: Missing or its files
  dir,       \* per id: Missing or the files of its directory
  manifest,  \* per id: Missing, Torn, or what the manifest says
  tarball,   \* the file that Export writes and Import reads
  job,       \* per job: control point and what it has in memory
  done,      \* commands begun
  overlaps,  \* those begun while another ran
  hurt,      \* history: ids that two commands worked on at once, or on which one was cut
             \* off or failed, or that came from half a tarball
  pledge     \* history: per id, the directory when its manifest was first written

snapVars == <<vol, dir, manifest, tarball, job, done, overlaps, hurt, pledge>>
filesVars == <<secretsVars, snapVars>>

Data == [Path -> Version \cup {Missing}]
SecretFile == {"key", "store"}
File == Volume \cup SecretFile
Content(f) ==
  {Missing, Torn} \cup (CASE f = "key" -> Maker [] f = "store" -> Stored [] OTHER -> Data)
Directory ==
  {d \in [File -> UNION {Content(f) : f \in File}] : \A f \in File : d[f] \in Content(f)}
NoFiles == [f \in File |-> Missing]
Manifest == [exported : SUBSET Volume, secrets : BOOLEAN, at : 0..MaxOps]
Tarball == [id : Snap, man : Manifest, files : Directory, whole : BOOLEAN]

\* What is no file is neither a volume's data, nor a directory, a manifest, a tarball.
ASSUME FilesDiffer ==
  /\ Volume \cap {"key", "store"} = {} /\ None \notin Snap \cup AllOps
  /\ \A file \in {Missing, Torn} :
       file \notin Version /\ file \notin Data /\ file \notin Directory /\ file \notin Manifest /\ file \notin Tarball

\* MkdirAll, and a file written into a directory.
Made(d) == IF d = Missing THEN NoFiles ELSE d
Laid(d, f, x) == [Made(d) EXCEPT ![f] = x]

Idle == [pc |-> "idle", op |-> None, id |-> None, man |-> None, todo |-> {},
         read |-> Missing, warned |-> FALSE, back |-> {}, ids |-> {}]

SnapshotsTypeOK ==
  /\ SecretsTypeOK
  /\ vol \in [Volume -> Data \cup {Missing}]
  /\ \A i \in Snap :
       /\ dir[i] = Missing \/ (DOMAIN dir[i] = File /\ \A f \in File : dir[i][f] \in Content(f))
       /\ manifest[i] \in Manifest \cup {Missing, Torn}
  /\ tarball = Missing \/ (tarball.id \in Snap /\ tarball.man \in Manifest)
  /\ \A j \in Job : job[j].todo \subseteq File /\ job[j].ids \subseteq Snap
  /\ done \in 0..MaxOps /\ overlaps \in 0..MaxOverlaps /\ hurt \subseteq Snap

SnapshotsInit ==
  /\ SecretsInit
  /\ vol = [v \in Volume |-> Missing]
  /\ dir = [i \in Snap |-> Missing] /\ manifest = [i \in Snap |-> Missing]
  /\ \/ tarball = Missing /\ pledge = [i \in Snap |-> Missing]
     \/ \E i \in Snap, what \in Foreign :
          LET files == [f \in File |->
                CASE f = "key" -> Teammate
                  [] f = "store" -> (IF what = "pair" THEN TeammateStore ELSE Missing)
                  [] OTHER -> Missing]
          IN  /\ tarball = [id |-> i, man |-> [exported |-> {}, secrets |-> TRUE, at |-> 0],
                            files |-> files, whole |-> TRUE]
              /\ pledge = [k \in Snap |-> IF k = i THEN files ELSE Missing]
  /\ job = [j \in Job |-> Idle]
  /\ done = 0 /\ overlaps = 0 /\ hurt = {}

At(j, op, pc) == job[j].op = op /\ job[j].pc = pc
Active(j) == job[j].pc \notin {"idle", "ok", "failed"}
Becomes(j, pc) == job' = [job EXCEPT ![j].pc = pc]
\* Something goes wrong: a write or a removal fails, or the command is killed.
Fault == deaths < MaxDeaths /\ deaths' = deaths + 1
\* What a command that fails leaves of its snapshot is no longer what was saved.
Spoils(j) == hurt' = hurt \cup {job[j].id}
\* A command that ends forgets what it had; of Load the user knows what was put back.
Ends(j, pc) ==
  job' = [job EXCEPT ![j] = IF job[j].op # "load" THEN Idle
    ELSE [Idle EXCEPT !.pc = pc, !.op = "load", !.id = job[j].id, !.man = job[j].man,
                      !.warned = job[j].warned, !.back = job[j].back]]
Begins(j, op, id, rec) ==
  job' = [job EXCEPT ![j] = [rec EXCEPT !.op = op, !.id = id]]

\* The ids of ListManifests: those whose manifest can be parsed.
ListManifests == {i \in Snap : manifest[i] \in Manifest}

\* An id, the beginning of one, or a name: the first listed snapshot that fits.
resolveSnapshotID == ListManifests

Touches(j) == {job[j].id} \cup job[j].ids
\* Somebody is changing the secrets files.
Restoring(j) == job[j].pc \in {"writekey", "restorestore", "writestore"}
Busy == ~AtRest \/ \E k \in Job : Restoring(k)

\* Somebody else is working with them, a Save between its two copies included.
InUse(j) == ~AtRest \/ \E k \in Job \ {j} : Restoring(k) \/ At(k, "save", "store")

Disturbed(j) == InUse(j) \/ job[j].id \in hurt

Overlaps(ids) == {i \in ids : \E k \in Job : Active(k) /\ i \in Touches(k)}

Together ==
  /\ done < MaxOps /\ done' = done + 1
  /\ IF AtRest /\ \A k \in Job : ~Active(k) 
     THEN UNCHANGED overlaps
     ELSE overlaps < MaxOverlaps /\ overlaps' = overlaps + 1

Begin(j, op) == ~Active(j) /\ op \in Ops /\ Together

-----------------------------------------------------------------------------
\* Manager.Save.

SaveBeginAnyId(j) ==
  /\ Begin(j, "save")
  /\ \E id \in Snap, found \in SUBSET Volume :
       /\ dir' = [dir EXCEPT ![id] = NoFiles]
       /\ Begins(j, "save", id, [Idle EXCEPT !.pc = "volumes", !.todo = found,
                                   !.man = [exported |-> {}, secrets |-> TRUE, at |-> done']])
  /\ UNCHANGED <<secretsVars, vol, manifest, tarball, hurt, pledge>>

\* found: the services whose container the runtime lists; only their volumes count.
SaveBegin(j) ==
  /\ Begin(j, "save")
  /\ \E id \in Snap, found \in SUBSET Volume :
       /\ pledge[id] = Missing /\ dir[id] = Missing /\ \A k \in Job : job[k].id # id
       /\ dir' = [dir EXCEPT ![id] = NoFiles]
       /\ Begins(j, "save", id, [Idle EXCEPT !.pc = "volumes", !.todo = found,
                                   !.man = [exported |-> {}, secrets |-> TRUE, at |-> done']])
  /\ UNCHANGED <<secretsVars, vol, manifest, tarball, hurt, pledge>>

\* A walk that fails leaves the part written so far.  The deferred Close of tar, gzip
\* and file write the rest, and their errors are dropped.
tarDirectory(data) == [ok : {TRUE}, copy : {data, Torn}] \cup {[ok |-> FALSE, copy |-> Torn]}

\* Without a path a helper container runs tar: what it wrote is the copy, for nobody
\* asks for its exit code.
exportVolume(v) == tarDirectory(vol[v]) \cup {[ok |-> FALSE, copy |-> Missing]}

SaveVolumeCountsAll(j) ==
  /\ At(j, "save", "volumes")
  /\ \E v \in job[j].todo :
       /\ dir' = [dir EXCEPT ![job[j].id] =
                    IF @ = Missing THEN @ ELSE [@ EXCEPT ![v] = vol[v]]]
       /\ job' = [job EXCEPT ![j].todo = @ \ {v}, ![j].man.exported = @ \cup {v}]
  /\ UNCHANGED <<secretsVars, vol, manifest, tarball, done, overlaps, hurt, pledge>>

\* A volume that is not there is passed over; the manifest counts the exports
\* that did not fail.
SaveVolume(j) ==
  /\ At(j, "save", "volumes")
  /\ \E v \in job[j].todo :
       \/ /\ vol[v] = Missing
          /\ job' = [job EXCEPT ![j].todo = @ \ {v}]
          /\ UNCHANGED dir
       \/ /\ vol[v] # Missing
          /\ \E out \in exportVolume(v) :
               /\ out.ok => dir[job[j].id] # Missing
               /\ dir' = [dir EXCEPT ![job[j].id] =
                            IF @ = Missing THEN @ ELSE [@ EXCEPT ![v] = out.copy]]
               /\ job' = [job EXCEPT ![j].todo = @ \ {v},
                            ![j].man.exported = IF out.ok THEN @ \cup {v} ELSE @]
  /\ UNCHANGED <<secretsVars, vol, manifest, tarball, done, overlaps, hurt, pledge>>

\* CopyToSnapshot: a file that is not there is not copied.
SaveKey(j) ==
  /\ At(j, "save", "volumes") /\ job[j].todo = {}
  /\ dir' = [dir EXCEPT ![job[j].id] = Laid(@, "key", key)]
  /\ collided' = (collided \/ Busy)
  /\ Becomes(j, "store")
  /\ UNCHANGED <<key, store, call, worker, deaths, stale, vol, manifest, tarball, done, overlaps, hurt, pledge>>

SaveStore(j) ==
  /\ At(j, "save", "store") /\ (dir[job[j].id] = Missing => store = Missing)
  /\ dir' = [dir EXCEPT ![job[j].id] = IF @ = Missing THEN @ ELSE Laid(@, "store", store)]
  /\ collided' = (collided \/ Busy)
  /\ Becomes(j, "manifest")
  /\ UNCHANGED <<key, store, call, worker, deaths, stale, vol, manifest, tarball, done, overlaps, hurt, pledge>>

\* Mutant: a key that could not be copied does not keep the store from being copied.
CopyFailsUnsaid(j) ==
  /\ Fault /\ At(j, "save", "volumes") /\ job[j].todo = {}
  /\ dir' = [dir EXCEPT ![job[j].id] = Laid(@, "key", Torn)]
  /\ Becomes(j, "store")
  /\ UNCHANGED <<key, store, call, worker, collided, stale, vol, manifest, tarball, done, overlaps, hurt, pledge>>

\* A copy that cannot be written, or not to its end: the manifest says that there
\* are no secrets.
CopyFails(j) ==
  \E f \in SecretFile :
    /\ Fault
    /\ IF f = "key" THEN At(j, "save", "volumes") /\ job[j].todo = {} ELSE At(j, "save", "store")
    /\ \/ UNCHANGED dir
       \/ dir[job[j].id] # Missing /\ dir' = [dir EXCEPT ![job[j].id] = Laid(@, f, Torn)]
    /\ job' = [job EXCEPT ![j].pc = "manifest", ![j].man.secrets = FALSE]
    /\ UNCHANGED <<key, store, call, worker, collided, stale, vol, manifest, tarball, done, overlaps, hurt, pledge>>

\* The end of Save and of Import: the manifest is emptied, then written.
EmptyManifest(j) ==
  /\ job[j].op \in {"save", "import"} /\ job[j].pc = "manifest"
  /\ manifest' = [manifest EXCEPT ![job[j].id] = Torn]
  /\ Becomes(j, "listed")
  /\ UNCHANGED <<secretsVars, vol, dir, tarball, done, overlaps, hurt, pledge>>

WriteManifest(j) ==
  /\ job[j].op \in {"save", "import"} /\ job[j].pc = "listed"
  /\ manifest' = [manifest EXCEPT ![job[j].id] = job[j].man]
  /\ pledge' = IF job[j].op = "save" THEN [pledge EXCEPT ![job[j].id] = Made(dir[job[j].id])] ELSE pledge
  /\ Ends(j, "ok")
  /\ UNCHANGED <<secretsVars, vol, dir, tarball, done, overlaps, hurt>>

\* It cannot be opened, or not be written to its end.
ManifestFails(j) ==
  /\ Fault /\ job[j].op \in {"save", "import"} /\ job[j].pc \in {"manifest", "listed"}
  /\ Ends(j, "failed") /\ Spoils(j)
  /\ UNCHANGED <<key, store, call, worker, collided, stale, vol, dir, manifest, tarball, done, overlaps, pledge>>

-----------------------------------------------------------------------------
\* Manager.Load: whatever cannot be restored is a warning.  A command that is
\* refused (the id is not listed, there is no tarball, nothing is to be collected)
\* changes nothing and is no step.

LoadBegin(j) ==
  /\ Begin(j, "load")
  /\ \E id \in ListManifests :
       /\ LET secrets == manifest[id].secrets
          IN  Begins(j, "load", id,
                [Idle EXCEPT !.pc = IF secrets THEN "key" ELSE "volumes", !.man = manifest[id],
                   !.todo = manifest[id].exported \cup (IF secrets THEN SecretFile ELSE {})])
       /\ hurt' = hurt \cup Overlaps({id})
  /\ UNCHANGED <<secretsVars, vol, dir, manifest, tarball, pledge>>

CopyOf(j, f) == IF dir[job[j].id] = Missing THEN Missing ELSE dir[job[j].id][f]

\* RestoreFromSnapshot, the key: read the copy, empty the file, write it.
RestoreKey(j) ==
  /\ At(j, "load", "key")
  /\ collided' = (collided \/ Disturbed(j))
  /\ IF CopyOf(j, "key") = Missing
     THEN job' = [job EXCEPT ![j].pc = "restorestore", ![j].todo = @ \ {"key"}] /\ UNCHANGED key
     ELSE /\ key' = Torn
          /\ job' = [job EXCEPT ![j].pc = "writekey", ![j].read = CopyOf(j, "key")]
  /\ UNCHANGED <<store, call, worker, deaths, stale, vol, dir, manifest, tarball, done, overlaps, hurt, pledge>>

RestoreKeyWrite(j) ==
  /\ At(j, "load", "writekey")
  /\ key' = job[j].read
  /\ job' = [job EXCEPT ![j].pc = "restorestore", ![j].todo = @ \ {"key"}, ![j].back = @ \cup {"key"},
                       ![j].read = Missing]
  /\ collided' = (collided \/ Disturbed(j) \/ job[j].read = Torn)
  /\ UNCHANGED <<store, call, worker, deaths, stale, vol, dir, manifest, tarball, done, overlaps, hurt, pledge>>

RestoreStoreNever(j) ==
  /\ At(j, "load", "restorestore")
  /\ job' = [job EXCEPT ![j].pc = "volumes", ![j].todo = @ \ {"store"}]
  /\ UNCHANGED <<secretsVars, vol, dir, manifest, tarball, done, overlaps, hurt, pledge>>

\* A snapshot with one of the two files replaces one of them and leaves the other.
Parted(j) == (CopyOf(j, "key") = Missing) # (CopyOf(j, "store") = Missing)

RestoreStore(j) ==
  /\ At(j, "load", "restorestore")
  /\ collided' = (collided \/ Disturbed(j) \/ Parted(j))
  /\ IF CopyOf(j, "store") = Missing
     THEN /\ job' = [job EXCEPT ![j].pc = "volumes", ![j].todo = @ \ {"store"}]
          /\ UNCHANGED <<store, stale>>
     ELSE /\ store' = Torn
          /\ stale' = TRUE   \* the store of today is replaced by that of the snapshot
          /\ job' = [job EXCEPT ![j].pc = "writestore", ![j].read = CopyOf(j, "store")]
  /\ UNCHANGED <<key, call, worker, deaths, vol, dir, manifest, tarball, done, overlaps, hurt, pledge>>

RestoreStoreWrite(j) ==
  /\ At(j, "load", "writestore")
  /\ store' = job[j].read
  /\ job' = [job EXCEPT ![j].pc = "volumes", ![j].todo = @ \ {"store"}, ![j].back = @ \cup {"store"},
                       ![j].read = Missing]
  /\ collided' = (collided \/ Disturbed(j) \/ job[j].read = Torn)
  /\ UNCHANGED <<key, call, worker, deaths, stale, vol, dir, manifest, tarball, done, overlaps, hurt, pledge>>

RestoreFailsUnsaid(j) ==
  /\ Fault /\ job[j].op = "load"
  /\ \/ At(j, "load", "key") /\ CopyOf(j, "key") # Missing
     \/ At(j, "load", "restorestore") /\ CopyOf(j, "store") # Missing
     \/ job[j].pc \in {"writekey", "writestore"}
  /\ job' = [job EXCEPT ![j].pc = "volumes", ![j].todo = @ \ SecretFile, ![j].read = Missing]
  /\ collided' = (collided \/ job[j].pc # "key")
  /\ UNCHANGED <<key, store, call, worker, stale, vol, dir, manifest, tarball, done, overlaps, hurt, pledge>>

\* A secrets file cannot be opened, or not be written to its end: what is on disk by
\* then stays, and Load warns and goes on to the volumes.
RestoreFails(j) ==
  /\ Fault /\ job[j].op = "load"
  /\ \/ At(j, "load", "key") /\ CopyOf(j, "key") # Missing
     \/ At(j, "load", "restorestore") /\ CopyOf(j, "store") # Missing
     \/ job[j].pc \in {"writekey", "writestore"}
  /\ job' = [job EXCEPT ![j].pc = "volumes", ![j].todo = @ \ SecretFile, ![j].warned = TRUE,
                       ![j].read = Missing]
  /\ collided' = (collided \/ job[j].pc # "key")
  /\ UNCHANGED <<key, store, call, worker, stale, vol, dir, manifest, tarball, done, overlaps, hurt, pledge>>

Files(data) == IF data = Missing THEN [p \in Path |-> Missing] ELSE data

\* The files of the copy, laid over what is there; other files stay.
Over(data, copy) == [p \in Path |-> IF copy[p] # Missing THEN copy[p] ELSE Files(data)[p]]
Holds(data, copy) == \A p \in Path : copy[p] # Missing => data[p] = copy[p]

\* Some files have been replaced, or half replaced, and none has been removed.
PartOver(data) == {x \in Data : \A p \in Path : x[p] = Missing => Files(data)[p] = Missing}

untarToDirectory(data, copy) ==
  (IF copy = Torn THEN {} ELSE {[ok |-> TRUE, data |-> Over(data, copy)]})
    \cup [ok : {FALSE}, data : PartOver(data)]

\* Again nobody asks for the exit code of the helper.
importVolume(v, copy) ==
  untarToDirectory(vol[v], copy) \cup {[ok |-> FALSE, data |-> vol[v]]}
    \cup (IF Mounted THEN {} ELSE [ok : {TRUE}, data : PartOver(vol[v])])

\* A copy that is missing is passed over in silence, an import that fails is a
\* warning; back is what has really been put back: every file of the copy is there.
RestoreVolume(j) ==
  /\ At(j, "load", "volumes")
  /\ \E v \in job[j].todo \ SecretFile :
       LET copy == CopyOf(j, v)
       IN  \/ /\ copy = Missing
              /\ job' = [job EXCEPT ![j].todo = @ \ {v}]
              /\ UNCHANGED vol
           \/ /\ copy # Missing
              /\ \E out \in importVolume(v, copy) :
                   /\ vol' = [vol EXCEPT ![v] = out.data]
                   /\ job' = [job EXCEPT ![j].todo = @ \ {v}, ![j].warned = @ \/ ~out.ok,
                        ![j].back = IF out.ok /\ copy # Torn /\ Holds(out.data, copy)
                                       THEN @ \cup {v} ELSE @]
  /\ UNCHANGED <<secretsVars, dir, manifest, tarball, done, overlaps, hurt, pledge>>

LoadDone(j) ==
  /\ At(j, "load", "volumes") /\ job[j].todo = {}
  /\ Ends(j, "ok")
  /\ UNCHANGED <<secretsVars, vol, dir, manifest, tarball, done, overlaps, hurt, pledge>>

-----------------------------------------------------------------------------
\* Manager.Delete and the loop of GC: the directory, then the manifest.  The
\* engine looks the id up in the list first; the CLI alone does not, and removes
\* what is there of an id that is not listed.

DeleteBegin(j) ==
  /\ Begin(j, "delete")
  /\ \E id \in Snap :
       /\ Begins(j, "delete", id, [Idle EXCEPT !.pc = "dir"])
       /\ hurt' = hurt \cup Overlaps({id})
  /\ UNCHANGED <<secretsVars, vol, dir, manifest, tarball, pledge>>

RemoveDir(j) ==
  /\ job[j].op \in {"delete", "gc"} /\ job[j].pc = "dir"
  /\ dir' = [dir EXCEPT ![job[j].id] = Missing]
  /\ Becomes(j, "unlist")
  /\ UNCHANGED <<secretsVars, vol, manifest, tarball, done, overlaps, hurt, pledge>>

\* What a GC does after an error, and with the manifest of each id: the next one.
NextId(j) == job' = [job EXCEPT ![j].pc = "next", ![j].id = None, ![j].ids = @ \ {job[j].id}]

\* Some of the files, or the manifest, cannot be removed: an error of Delete, and
\* for GC a warning.
RemoveFails(j) ==
  /\ Fault /\ job[j].op \in {"delete", "gc"} /\ job[j].pc \in {"dir", "unlist"}
  /\ \/ job[j].pc = "unlist" /\ UNCHANGED dir
     \/ /\ job[j].pc = "dir" /\ dir[job[j].id] # Missing
        /\ \E left \in SUBSET File :
             dir' = [dir EXCEPT ![job[j].id] = [f \in File |-> IF f \in left THEN @[f] ELSE Missing]]
  /\ IF job[j].op = "gc" THEN NextId(j) ELSE Ends(j, "failed")
  /\ Spoils(j)
  /\ UNCHANGED <<key, store, call, worker, collided, stale, vol, manifest, tarball, done, overlaps, pledge>>

\* A manifest that is gone is an error of Delete, and for GC a warning.
DeleteManifest(j) ==
  /\ At(j, "delete", "unlist")
  /\ manifest' = [manifest EXCEPT ![job[j].id] = Missing]
  /\ Ends(j, IF manifest[job[j].id] = Missing THEN "failed" ELSE "ok")
  /\ UNCHANGED <<secretsVars, vol, dir, tarball, done, overlaps, hurt, pledge>>

Newer(ids, i) == {k \in ids : manifest[k].at > manifest[i].at}

\* runSnapshotGC: everything but the newest keep, and everything made before
\* some time.  keep = 0 is no limit; a time that cannot be parsed is now.
GCBegin(j) ==
  /\ Begin(j, "gc")
  /\ \E keep \in 0..Cardinality(Snap), before \in 0..done :
       LET beyond == {i \in ListManifests : keep > 0 /\ Cardinality(Newer(ListManifests, i)) >= keep}
           old == {i \in ListManifests : manifest[i].at < before}
           ids == beyond \cup old
       IN  /\ ids # {}
           /\ Begins(j, "gc", None, [Idle EXCEPT !.pc = "next", !.ids = ids])
           /\ hurt' = hurt \cup Overlaps(ids)
  /\ UNCHANGED <<secretsVars, vol, dir, manifest, tarball, pledge>>

GCNext(j) ==
  /\ At(j, "gc", "next")
  /\ IF job[j].ids = {} THEN Ends(j, "ok")
     ELSE \E i \in job[j].ids : job' = [job EXCEPT ![j].pc = "dir", ![j].id = i]
  /\ UNCHANGED <<secretsVars, vol, dir, manifest, tarball, done, overlaps, hurt, pledge>>

GCManifest(j) ==
  /\ At(j, "gc", "unlist")
  /\ manifest' = [manifest EXCEPT ![job[j].id] = Missing]
  /\ NextId(j)
  /\ UNCHANGED <<secretsVars, vol, dir, tarball, done, overlaps, hurt, pledge>>

-----------------------------------------------------------------------------
\* Manager.Export and Manager.Import.

\* Export creates the file and writes id and manifest first.  Nobody exports into
\* a file that is being written or read.
ExportBegin(j) ==
  /\ Begin(j, "export") /\ \A k \in Job : job[k].op \notin {"export", "import"}
  /\ \E id \in resolveSnapshotID :
       /\ Begins(j, "export", id, [Idle EXCEPT !.pc = "walk"])
       /\ tarball' = [id |-> id, man |-> manifest[id], files |-> NoFiles, whole |-> FALSE]
       /\ hurt' = hurt \cup Overlaps({id})
  /\ UNCHANGED <<secretsVars, vol, dir, manifest, pledge>>

\* The directory follows.  Without one the walk fails and the deferred Close
\* makes a proper tarball of what there is.
ExportWalk(j) ==
  /\ At(j, "export", "walk")
  /\ LET gone == dir[job[j].id] = Missing
         files == IF gone THEN NoFiles ELSE dir[job[j].id]
     IN  /\ tarball' = [id |-> job[j].id, man |-> tarball.man, files |-> files, whole |-> TRUE]
         /\ Ends(j, IF gone THEN "failed" ELSE "ok")
  /\ UNCHANGED <<secretsVars, vol, dir, manifest, done, overlaps, hurt, pledge>>

\* A write fails, or only a deferred Close, whose error is dropped: the tarball ends
\* too early.
ExportFails(j) ==
  /\ Fault /\ At(j, "export", "walk") /\ dir[job[j].id] # Missing
  /\ \E left \in SUBSET File :
       tarball' = [id |-> job[j].id, man |-> tarball.man, whole |-> FALSE,
                   files |-> [f \in File |-> IF f \in left THEN dir[job[j].id][f] ELSE Missing]]
  /\ Ends(j, "failed")
  /\ UNCHANGED <<key, store, call, worker, collided, stale, vol, dir, manifest, done, overlaps, hurt, pledge>>

ImportBegin(j) ==
  /\ Begin(j, "import")
  /\ tarball # Missing
  /\ Begins(j, "import", tarball.id,
       [Idle EXCEPT !.pc = "unpack", !.man = tarball.man,
                    !.todo = {f \in File : tarball.files[f] # Missing}])
  /\ hurt' = hurt \cup Overlaps({tarball.id})
              \cup (IF tarball.whole THEN {} ELSE {tarball.id})
  /\ UNCHANGED <<secretsVars, vol, dir, manifest, tarball, pledge>>

\* Files are laid over those of a directory of the same id.
ImportFile(j) ==
  /\ At(j, "import", "unpack")
  /\ \E f \in job[j].todo :
       /\ dir' = [dir EXCEPT ![job[j].id] =
                    Laid(@, f, tarball.files[f])]
       /\ job' = [job EXCEPT ![j].todo = @ \ {f}]
  /\ UNCHANGED <<secretsVars, vol, manifest, tarball, done, overlaps, hurt, pledge>>

\* A file cannot be created, or not be written to its end: Import gives up.
ImportFails(j) ==
  /\ Fault /\ At(j, "import", "unpack")
  /\ \E f \in job[j].todo :
       \/ UNCHANGED dir
       \/ dir' = [dir EXCEPT ![job[j].id] = Laid(@, f, Torn)]
  /\ Ends(j, "failed") /\ Spoils(j)
  /\ UNCHANGED <<key, store, call, worker, collided, stale, vol, manifest, tarball, done, overlaps, pledge>>

\* The end of the tarball: the manifest is next, or an error if it ends too early.
ImportUnpacked(j) ==
  /\ At(j, "import", "unpack") /\ job[j].todo = {}
  /\ IF tarball.whole THEN Becomes(j, "manifest") ELSE Ends(j, "failed")
  /\ dir' = [dir EXCEPT ![job[j].id] = Made(@)]
  /\ UNCHANGED <<secretsVars, vol, manifest, tarball, done, overlaps, hurt, pledge>>

-----------------------------------------------------------------------------
\* A service writes a file of its volume, or removes one.
Use(v) ==
  /\ \E p \in Path, x \in Version \cup {Missing} :
       x # Files(vol[v])[p] /\ vol' = [vol EXCEPT ![v] = [Files(@) EXCEPT ![p] = x]]
  /\ UNCHANGED <<secretsVars, dir, manifest, tarball, job, done, overlaps, hurt, pledge>>

\* The command is interrupted, or the engine killed.
Kill(j) ==
  /\ Fault /\ Active(j)
  /\ Ends(j, "failed")
  /\ hurt' = hurt \cup (Touches(j) \ {None})
  /\ collided' = (collided \/ job[j].pc \in {"writekey", "restorestore", "writestore"})
  /\ UNCHANGED <<key, store, call, worker, stale, vol, dir, manifest, tarball, done, overlaps, pledge>>

Step(j) ==
  \/ SaveVolume(j) \/ SaveKey(j) \/ SaveStore(j) \/ CopyFails(j)
  \/ EmptyManifest(j) \/ WriteManifest(j) \/ ManifestFails(j)
  \/ RestoreKey(j) \/ RestoreKeyWrite(j) \/ RestoreStore(j) \/ RestoreStoreWrite(j)
  \/ RestoreFails(j) \/ RestoreVolume(j) \/ LoadDone(j)
  \/ RemoveDir(j) \/ RemoveFails(j) \/ DeleteManifest(j) \/ GCNext(j) \/ GCManifest(j)
  \/ ExportWalk(j) \/ ExportFails(j) \/ ImportFile(j) \/ ImportFails(j) \/ ImportUnpacked(j)

SnapshotsNext ==
  \/ SecretsStep /\ UNCHANGED snapVars
  \/ \E c \in Call : Ask(c) /\ Together
       /\ UNCHANGED <<vol, dir, manifest, tarball, job, hurt, pledge>>
  \/ \E v \in Volume : Use(v)
  \/ \E j \in Job :
       \/ SaveBegin(j) \/ LoadBegin(j) \/ DeleteBegin(j) \/ GCBegin(j)
       \/ ExportBegin(j) \/ ImportBegin(j) \/ Step(j) \/ Kill(j)

SnapshotsSpec == SnapshotsInit /\ [][SnapshotsNext]_filesVars

-----------------------------------------------------------------------------
\* Nobody works on this snapshot.
Settled(i) == \A j \in Job : Active(j) => i \notin Touches(j)

\* A snapshot that List shows has every file of when it was first listed, as it was,
\* and all the volumes that its manifest counts are among them, whatever was exported,
\* deleted, imported and collected since, and whichever writes of other snapshots failed
\* (manager.go writes the manifest last and removes it last).  Left out is a snapshot
\* that two commands worked on at once, on which one failed or was cut off, or that
\* came from half a tarball.
ListedComplete ==
  \A i \in ListManifests \ hurt :
    Settled(i) => /\ dir[i] # Missing /\ dir[i] = pledge[i]
                  /\ \A v \in manifest[i].exported : dir[i][v] # Missing

\* What a Load has to put back: the volumes its manifest counts, the secrets it had.
Owed(j) ==
  job[j].man.exported
    \cup {f \in SecretFile : job[j].man.secrets /\ pledge[job[j].id][f] # Missing}

\* A Load that ends without a warning has put back every file of every volume counted
\* and the secrets, if nothing else worked on or had spoiled that snapshot: no error of
\* a write on the way is passed over (manager.go Load, RestoreFromSnapshot).
LoadRestores ==
  \A j \in Job :
    At(j, "load", "ok") /\ ~job[j].warned /\ job[j].id \notin hurt => Owed(j) \subseteq job[j].back

\* Restoring the secrets of a snapshot, key first and store second, never leaves a
\* store that its key does not open, whatever was set or saved since, unless a write
\* failed half way, another command used the files at the same time, or the snapshot
\* had only one of the two (RestoreFromSnapshot).
RestoredReadable == ~Busy /\ ~collided /\ key # Missing => KeyOpensStore

\* What a snapshot holds as its secrets can be opened: the copy of the store was
\* encrypted with the key copied beside it, or there is no key to go with it.
SecretsCopied ==
  \A i \in ListManifests \ hurt :
    ~collided /\ Settled(i) /\ dir[i]["store"] \in Stored /\ dir[i]["key"] # Missing =>
      dir[i]["store"].by = dir[i]["key"]

\* A snapshot only ceases to be listed through Delete, GC or a command that writes
\* its manifest anew; Save never touches the snapshot of another Save.
OthersStay ==
  [][\A i \in Snap : manifest[i] \in Manifest /\ manifest'[i] # manifest[i] =>
       \E j \in Job : i \in Touches(j) /\ job[j].op \in {"delete", "gc", "import"}]_filesVars

\* Saved is saved: what a manifest counts is no half archive (see tarDirectory).
SavedWhole ==
  \A i \in ListManifests : \A v \in manifest[i].exported : pledge[i][v] # Torn

\* A Load that succeeds has found no copy that cannot be read: nobody compares the
\* hash that Save computes.
LoadedWhole ==
  \A j \in Job : At(j, "load", "ok") => \A v \in job[j].man.exported : pledge[job[j].id][v] # Torn

\* A volume that is restored is the one that was saved: see Over.
LoadReplaces ==
  [][\A j \in Job : \A v \in job'[j].back \ (job[j].back \cup SecretFile) :
       vol'[v] = dir[job[j].id][v]]_filesVars

\* LoadRestores, whatever happened to the snapshot: a Load says what it did not find.
LoadTells ==
  \A j \in Job : At(j, "load", "ok") /\ ~job[j].warned => Owed(j) \subseteq job[j].back

\* A Load that is done leaves secrets that can be read, if nobody else is at work.
LoadLeavesReadable ==
  \A j \in Job : At(j, "load", "ok") /\ AtRest /\ (\A k \in Job : ~Active(k)) /\ key # Missing =>
    KeyOpensStore

\* The state is of its type, and the restored secrets can be read (see
\* RestoredReadable).
SnapshotsInv == SnapshotsTypeOK /\ RestoredReadable
=============================================================================
