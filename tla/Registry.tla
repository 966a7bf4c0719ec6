------------------------------ MODULE Registry ------------------------------
(***************************************************************************)
(* The model registry: Model and ModelVersion rows in PostgreSQL, and the  *)
(* bundle of every version as objects under <model>/<number>/ in an S3     *)
(* bucket, which takes no part in the transactions.                        *)
(*                                                                         *)
(* A request is an upload of a new model, an upload of a new version (in a *)
(* transaction that holds the model's row lock), the deletion of a version *)
(* or of a model, or an operator's reconcile_orphans --delete.  Every      *)
(* object written is a step; delete_prefix_paginated is two, the listing   *)
(* and the deletion of what was listed.  Permissions and the contents of   *)
(* the archive are left out: an upload may fail at any point.              *)
(***************************************************************************)
EXTENDS Naturals, FiniteSets, FiniteSetsExt

CONSTANTS
  Models,       \* model ids; an upload takes one that was never used
  Seeded,       \* models that were uploaded before
  Seed,         \* the uploads that made them
  Reqs,         \* requests
  Files,        \* what every bundle consists of
  Deps,         \* deployment rows
  MaxNumber,    \* bound: version numbers
  MaxFailures,  \* bound: uploads that fail
  MaxOutages,   \* bound: storage calls of a clean-up or deletion that fail
  MaxCrashes,   \* bound: API processes that die in a request
  None

ASSUME BoundsAssumption ==
  /\ MaxNumber \in Nat \ {0} /\ MaxFailures \in Nat
  /\ MaxOutages \in Nat /\ MaxCrashes \in Nat
ASSUME SeedAssumption == Seeded \subseteq Models /\ Seed \notin Reqs
ASSUME NoneAssumption == None \notin Models /\ None \notin Reqs

VARIABLES
  models,      \* committed Model rows
  versions,    \* committed ModelVersion rows; maker (the upload) stands for the id
  objects,     \* the bucket
  lock,        \* lock[m]: the transaction that holds m's row FOR UPDATE
  dep,         \* dep[d]: its version row and whether it is active
  req,         \* req[r]: where the request is, and what it has read
  spared,      \* history: objects that storage kept when it was to delete them
  failures, outages, crashes

vars == <<models, versions, objects, lock, dep, req, spared, failures, outages, crashes>>
counters == <<spared, failures, outages, crashes>>

Kinds    == {"upload", "version", "delete", "purge", "reconcile"}
Makers   == Reqs \cup {Seed}
Numbers  == 1 .. MaxNumber
Versions == [model : Models, number : Numbers, maker : Makers]
Keys     == [model : Models, number : Numbers, file : Files]
Objects  == [model : Models, number : Numbers, file : Files, by : Makers]

Ended == {"done", "refused", "failed", "crashed"}
Steps == {"idle", "lock", "put", "stop", "list", "sweep", "collect", "drop", "check", "next"} \cup Ended
Requests ==
  [kind : Kinds \cup {None}, pc : Steps,
   model : Models \cup {None}, number : Numbers \cup {0},
   maker : Makers \cup {None}, left : SUBSET Files, keys : SUBSET Keys, rows : SUBSET Versions,
   deps : SUBSET Deps, orphans : SUBSET Models, todo : SUBSET Models]

Unused == [row |-> None, state |-> "unused"]
RowsOf(m)   == {v \in versions : v.model = m}
DepsOf(rows) == {d \in Deps : dep[d].state \in {"active", "stopped"} /\ dep[d].row \in rows}
ActiveOf(rows) == {d \in DepsOf(rows) : dep[d].state = "active"}
KeyOf(o)    == [model |-> o.model, number |-> o.number, file |-> o.file]
Row(r)      == [model |-> req[r].model, number |-> req[r].number, maker |-> req[r].maker]

\* Mutant: the number of rows, which a deletion makes smaller.
NextNumberByCount(m) == 1 + Cardinality(RowsOf(m))

\* get_next_version(): one more than the largest number of a committed row.
NextNumber(m) == 1 + Max({v.number : v \in RowsOf(m)} \cup {0})

\* What delete_prefix_paginated lists: a model's prefix, or a version's.
Prefix(r) ==
  {KeyOf(o) : o \in {o \in objects :
     /\ o.model = req[r].model
     /\ req[r].kind \in {"purge", "reconcile"} \/ o.number = req[r].number}}

Go(r, pc) == req' = [req EXCEPT ![r].pc = pc]
End(r, pc) ==
  req' = [req EXCEPT ![r] = [@ EXCEPT !.pc = pc, !.left = {}, !.keys = {}, !.rows = {},
                                      !.deps = {}, !.todo = {}]]
Unlock(r) == lock' = [m \in Models |-> IF lock[m] = r THEN None ELSE lock[m]]
------------------------------------------------------------------------------
(* Uploads *)

\* POST /api/models/upload/ : a fresh uuid4, version v1.
StartUpload(r, m) ==
  /\ req[r].pc = "idle"
  /\ m \notin Seeded /\ \A q \in Reqs : req[q].model # m
  /\ req' = [req EXCEPT ![r].kind = "upload", ![r].pc = "put",
                        ![r].model = m, ![r].number = 1, ![r].left = Files]
  /\ UNCHANGED <<models, versions, objects, lock, dep, counters>>

\* POST /api/models/<id>/versions/ : the model is read, then locked in a transaction.
StartVersion(r, m) ==
  /\ req[r].pc = "idle" /\ m \in models
  /\ req' = [req EXCEPT ![r].kind = "version", ![r].pc = "lock", ![r].model = m]
  /\ UNCHANGED <<models, versions, objects, lock, dep, counters>>

\* Mutant: plain get() where the code has select_for_update().
ReadModel(r) ==
  /\ req[r].pc = "lock" /\ req[r].model \in models
  /\ NextNumber(req[r].model) <= MaxNumber
  /\ req' = [req EXCEPT ![r].pc = "put", ![r].number = NextNumber(req[r].model),
                        ![r].left = Files]
  /\ UNCHANGED <<models, versions, objects, lock, dep, counters>>

LockModel(r) ==
  /\ req[r].pc = "lock" /\ req[r].model \in models
  /\ lock[req[r].model] = None
  /\ NextNumber(req[r].model) <= MaxNumber
  /\ lock' = [lock EXCEPT ![req[r].model] = r]
  /\ req' = [req EXCEPT ![r].pc = "put", ![r].number = NextNumber(req[r].model),
                        ![r].left = Files]
  /\ UNCHANGED <<models, versions, objects, dep, counters>>

\* The model was deleted: no number was allocated, so nothing is cleaned up.
LockModelGone(r) ==
  /\ req[r].pc = "lock" /\ req[r].model \notin models
  /\ End(r, "failed")
  /\ UNCHANGED <<models, versions, objects, lock, dep, counters>>

\* upload_file() replaces what was stored under the key.
Put(r, f) ==
  /\ req[r].pc = "put" /\ f \in req[r].left
  /\ LET key == [model |-> req[r].model, number |-> req[r].number, file |-> f]
     IN  objects' = {o \in objects : KeyOf(o) # key} \cup
                    {[model |-> key.model, number |-> key.number, file |-> f, by |-> r]}
  /\ req' = [req EXCEPT ![r].left = @ \ {f}]
  /\ UNCHANGED <<models, versions, lock, dep, counters>>

\* The archive is refused, storage fails, or the insert does.  A new version rolls
\* back, which unlocks the model, and cleans up; a new model cleans up only when
\* its files were all stored.
FailUpload(r) ==
  /\ req[r].pc = "put"
  /\ failures < MaxFailures /\ failures' = failures + 1
  /\ Unlock(r)
  /\ IF req[r].kind = "version" \/ req[r].left = {} THEN Go(r, "list") ELSE End(r, "failed")
  /\ UNCHANGED <<models, versions, objects, dep, spared, outages, crashes>>

\* Both rows in one transaction.
CreateModel(r) ==
  /\ req[r].kind = "upload" /\ req[r].pc = "put" /\ req[r].left = {}
  /\ models' = models \cup {req[r].model}
  /\ versions' = versions \cup {[model |-> req[r].model, number |-> 1, maker |-> r]}
  /\ End(r, "done")
  /\ UNCHANGED <<objects, lock, dep, counters>>

\* unique_together (owner, name): another model has the name.
CreateModelRefused(r) ==
  /\ req[r].kind = "upload" /\ req[r].pc = "put" /\ req[r].left = {}
  /\ models # {}
  /\ Go(r, "list")
  /\ UNCHANGED <<models, versions, objects, lock, dep, counters>>

NumberTaken(r) == \E v \in versions : v.model = req[r].model /\ v.number = req[r].number

\* The insert and the commit, which unlocks the model.
CreateVersion(r) ==
  /\ req[r].kind = "version" /\ req[r].pc = "put" /\ req[r].left = {}
  /\ IF NumberTaken(r)
     THEN UNCHANGED versions /\ Go(r, "list")
     ELSE /\ versions' = versions \cup
               {[model |-> req[r].model, number |-> req[r].number, maker |-> r]}
          /\ End(r, "done")
  /\ Unlock(r)
  /\ UNCHANGED <<models, objects, dep, counters>>
------------------------------------------------------------------------------
(* Deletions *)

\* DELETE of a version: it is read, and must have no active deployment.
StartDelete(r, v) ==
  /\ req[r].pc = "idle" /\ v \in versions
  /\ req' = [req EXCEPT ![r].kind = "delete",
                        ![r].pc = IF ActiveOf({v}) = {} THEN "list" ELSE "refused",
                        ![r].model = v.model, ![r].number = v.number, ![r].maker = v.maker]
  /\ UNCHANGED <<models, versions, objects, lock, dep, counters>>

\* DELETE of a model: its active deployments are read, and stopped one by one.
StartPurge(r, m) ==
  /\ req[r].pc = "idle" /\ m \in models
  /\ req' = [req EXCEPT ![r].kind = "purge", ![r].pc = "stop",
                        ![r].model = m, ![r].deps = ActiveOf(RowsOf(m))]
  /\ UNCHANGED <<models, versions, objects, lock, dep, counters>>

StopNext(r) ==
  /\ req[r].pc = "stop"
  /\ \/ \E d \in req[r].deps :
          IF dep[d].state = "gone"
          THEN End(r, "failed") /\ UNCHANGED dep
          ELSE /\ dep' = [dep EXCEPT ![d].state = "stopped"]
               /\ req' = [req EXCEPT ![r].deps = @ \ {d}]
     \/ req[r].deps = {} /\ Go(r, "list") /\ UNCHANGED dep
  /\ UNCHANGED <<models, versions, objects, lock, counters>>

\* delete_prefix_paginated: the pages are listed, then a batch is deleted by key.
List(r) ==
  /\ req[r].pc = "list"
  /\ req' = [req EXCEPT ![r].pc = "sweep", ![r].keys = Prefix(r)]
  /\ UNCHANGED <<models, versions, objects, lock, dep, counters>>

AfterSweep(r) ==
  CASE req[r].kind \in {"upload", "version"} -> "failed"
    [] req[r].kind \in {"delete", "purge"}   -> "collect"
    [] req[r].kind = "reconcile"             -> "next"

\* What delete_objects deletes of what it was given; the request goes on.
Remove(r, gone) ==
  /\ objects' = {o \in objects : KeyOf(o) \notin gone}
  /\ spared' = spared \cup {o \in objects : KeyOf(o) \in req[r].keys \ gone}
  /\ req' = [req EXCEPT ![r].pc = AfterSweep(r), ![r].keys = {}]
  /\ UNCHANGED <<models, versions, lock, dep, failures, crashes>>

Sweep(r) ==
  /\ req[r].pc = "sweep"
  /\ Remove(r, req[r].keys) /\ UNCHANGED outages

\* S3 answers 200 and lists the keys that it did not delete as Errors: nobody reads them.
SweepPartly(r) ==
  /\ req[r].pc = "sweep"
  /\ outages < MaxOutages /\ outages' = outages + 1
  /\ \E gone \in SUBSET req[r].keys : gone # req[r].keys /\ Remove(r, gone)

\* Mutant: a deletion goes on to its rows when storage refused to delete.
SweepErrorIgnored(r) ==
  /\ req[r].pc \in {"list", "sweep"}
  /\ outages < MaxOutages /\ outages' = outages + 1
  /\ req' = [req EXCEPT ![r].pc = AfterSweep(r), ![r].keys = {}]
  /\ UNCHANGED <<models, versions, objects, lock, dep, spared, failures, crashes>>

\* The call raises.  A clean-up swallows the error; a deletion and the command end with it.
SweepFails(r) ==
  /\ req[r].pc \in {"list", "sweep"}
  /\ outages < MaxOutages /\ outages' = outages + 1
  /\ spared' = spared \cup {o \in objects : o.by = r}
  /\ End(r, "failed")
  /\ UNCHANGED <<models, versions, objects, lock, dep, failures, crashes>>

\* delete(): Django reads the rows that the cascade will take with it ...
Collect(r) ==
  /\ req[r].pc = "collect"
  /\ LET rows == IF req[r].kind = "delete" THEN {Row(r)} ELSE RowsOf(req[r].model)
     IN  req' = [req EXCEPT ![r].pc = "drop", ![r].rows = rows, ![r].deps = DepsOf(rows)]
  /\ UNCHANGED <<models, versions, objects, lock, dep, counters>>

Taken(r) == IF req[r].kind = "purge" THEN RowsOf(req[r].model) ELSE req[r].rows \cap versions

\* ... and deletes them in a transaction, which waits for the model's row lock.
Drop(r) ==
  /\ req[r].pc = "drop"
  /\ req[r].kind = "purge" => lock[req[r].model] = None
  /\ Taken(r) \subseteq req[r].rows /\ DepsOf(Taken(r)) \subseteq req[r].deps
  /\ versions' = versions \ req[r].rows
  /\ models' = IF req[r].kind = "purge" THEN models \ {req[r].model} ELSE models
  /\ dep' = [d \in Deps |-> IF d \in req[r].deps THEN [dep[d] EXCEPT !.state = "gone"] ELSE dep[d]]
  /\ End(r, "done")
  /\ UNCHANGED <<objects, lock, counters>>

\* A row that refers to one of them was created since they were read (a version, a
\* deployment, a key, a log): its foreign key fails at the commit, and the rows stay.
DropFails(r) ==
  /\ req[r].pc = "drop"
  /\ req[r].kind = "purge" => lock[req[r].model] = None
  /\ End(r, "failed")
  /\ UNCHANGED <<models, versions, objects, lock, dep, counters>>
------------------------------------------------------------------------------
(* reconcile_orphans --delete *)

\* 1. Collect the top-level prefixes.
StartReconcile(r) ==
  /\ req[r].pc = "idle"
  /\ req' = [req EXCEPT ![r].kind = "reconcile", ![r].pc = "check",
                        ![r].orphans = {o.model : o \in objects}]
  /\ UNCHANGED <<models, versions, objects, lock, dep, counters>>

\* 2. Keep those that have no Model row.
Check(r) ==
  /\ req[r].pc = "check"
  /\ req' = [req EXCEPT ![r].pc = "next", ![r].orphans = @ \ models,
                        ![r].todo = req[r].orphans \ models]
  /\ UNCHANGED <<models, versions, objects, lock, dep, counters>>

NextOrphan(r) ==
  /\ req[r].pc = "next"
  /\ \/ \E m \in req[r].todo :
          req' = [req EXCEPT ![r].pc = "list", ![r].model = m, ![r].todo = @ \ {m}]
     \/ req[r].todo = {} /\ End(r, "done")
  /\ UNCHANGED <<models, versions, objects, lock, dep, counters>>
------------------------------------------------------------------------------
(* Everybody else *)

\* A deployment of a READY version, one active at a time (module Deployments).
Deploy(d, v) ==
  /\ dep[d].state = "unused" /\ v \in versions /\ ActiveOf({v}) = {}
  /\ dep' = [dep EXCEPT ![d] = [row |-> v, state |-> "active"]]
  /\ UNCHANGED <<models, versions, objects, lock, req, counters>>

StopDeployment(d) ==
  /\ dep[d].state = "active"
  /\ dep' = [dep EXCEPT ![d].state = "stopped"]
  /\ UNCHANGED <<models, versions, objects, lock, req, counters>>

\* The process dies: its transaction rolls back, the bucket stays as it is.
Crash(r) ==
  /\ req[r].pc \notin Ended \cup {"idle"}
  /\ crashes < MaxCrashes /\ crashes' = crashes + 1
  /\ Unlock(r) /\ End(r, "crashed")
  /\ UNCHANGED <<models, versions, objects, dep, spared, failures, outages>>

Idle == [kind |-> None, pc |-> "idle", model |-> None, number |-> 0, maker |-> None,
         left |-> {}, keys |-> {}, rows |-> {}, deps |-> {}, orphans |-> {}, todo |-> {}]

Init ==
  /\ models = Seeded
  /\ versions = [model : Seeded, number : {1}, maker : {Seed}]
  /\ objects = [model : Seeded, number : {1}, file : Files, by : {Seed}]
  /\ lock = [m \in Models |-> None]
  /\ dep = [d \in Deps |-> Unused]
  /\ req = [r \in Reqs |-> Idle]
  /\ spared = {} /\ failures = 0 /\ outages = 0 /\ crashes = 0

UploadStep(r) ==
  \/ \E m \in Models : StartUpload(r, m) \/ StartVersion(r, m)
  \/ \E f \in Files : Put(r, f)
  \/ LockModel(r) \/ LockModelGone(r) \/ FailUpload(r)
  \/ CreateModel(r) \/ CreateModelRefused(r) \/ CreateVersion(r)

DeletionStep(r) ==
  \/ \E v \in versions : StartDelete(r, v)
  \/ \E m \in Models : StartPurge(r, m)
  \/ StopNext(r) \/ List(r) \/ Sweep(r) \/ SweepPartly(r) \/ SweepFails(r)
  \/ Collect(r) \/ Drop(r) \/ DropFails(r)

ReconcileStep(r) == StartReconcile(r) \/ Check(r) \/ NextOrphan(r)

Next ==
  \/ \E r \in Reqs : UploadStep(r) \/ DeletionStep(r) \/ ReconcileStep(r) \/ Crash(r)
  \/ \E d \in Deps : StopDeployment(d) \/ \E v \in versions : Deploy(d, v)

Spec == Init /\ [][Next]_vars
------------------------------------------------------------------------------
(* Properties *)

\* Typing, which RegistryProofs proves.
TypeOK ==
  /\ models \subseteq Models
  /\ versions \subseteq Versions
  /\ objects \subseteq Objects /\ spared \subseteq Objects
  /\ lock \in [Models -> Reqs \cup {None}]
  /\ dep \in [Deps -> [row : Versions \cup {None}, state : {"unused", "active", "stopped", "gone"}]]
  /\ req \in [Reqs -> Requests]
  /\ failures \in 0 .. MaxFailures /\ outages \in 0 .. MaxOutages /\ crashes \in 0 .. MaxCrashes

\* The row lock serialises version allocation: while an upload stores its files, no
\* other upload stores files under its number and no row has that number.
UploadsAreExclusive ==
  \A r \in Reqs :
    req[r].pc = "put" =>
      /\ ~NumberTaken(r)
      /\ \A q \in Reqs :
           req[q].pc = "put" /\ req[q].model = req[r].model /\ req[q].number = req[r].number => q = r

\* Another deletion of the row that q deletes is done.
DeletedBefore(q) ==
  \E p \in Reqs \ {q} : /\ req[p].kind = "delete" /\ req[p].pc = "done"
                        /\ Row(p) = Row(q)

\* The requests after which a version may have lost files: they have deleted under
\* its prefix, or their process died while they did.
HasSwept(q, v) ==
  /\ q # v.maker
  /\ \/ /\ req[q].kind = "purge" /\ req[q].model = v.model
        /\ req[q].pc \in {"collect", "drop"} \cup Ended
     \/ /\ req[q].kind = "delete" /\ req[q].model = v.model /\ req[q].number = v.number
        /\ req[q].maker = v.maker \/ DeletedBefore(q)
        /\ req[q].pc \in {"collect", "drop", "done", "failed", "crashed"}
     \/ /\ req[q].kind = "version" /\ req[q].model = v.model /\ req[q].number = v.number
        /\ req[q].pc \in {"failed", "crashed"}
     \/ /\ req[q].kind = "reconcile" /\ v.model \in req[q].orphans
        /\ req[q].pc \notin {"idle", "check"}

\* "Serialize version allocation and creation": a row that a client can deploy names
\* the complete bundle of its own upload, unless somebody asked for the deletion of
\* this very row or of its model.  Three more exceptions are defects or dangers of
\* the code that CleanupKeepsOthers, DeletionKeepsOthers and the reconciler's hazard
\* are about: an upload of its number failed, a row that had its number
\* was deleted twice, an operator reconciled while its model was uploaded.
VersionsAreIntact ==
  \A v \in versions :
    \/ \A f \in Files :
         [model |-> v.model, number |-> v.number, file |-> f, by |-> v.maker] \in objects
    \/ \E q \in Reqs : HasSwept(q, v)

\* Nothing is stored that no row names, unless its upload goes on, ended without a
\* clean-up, or met a deletion of the whole model, or storage itself kept it
\* (DeletionFailsClosed): a version's deletion is "fail closed".
NothingIsStranded ==
  \A o \in objects :
    \/ \E v \in versions : v.model = o.model /\ v.number = o.number
    \/ o.by \in Reqs /\ req[o.by].pc \in {"put", "list", "sweep", "crashed"}
    \/ o.by \in Reqs /\ req[o.by].pc = "failed" /\ req[o.by].kind = "upload"
    \/ o \in spared
    \/ \E q \in Reqs : req[q].kind = "purge" /\ req[q].model = o.model

\* "This prefix belongs only to the newly allocated version": the clean-up after a
\* failed upload deletes nothing that another upload has stored.
CleanupKeepsOthers ==
  [][\A r \in Reqs : req[r].kind \in {"upload", "version"} /\ (Sweep(r) \/ SweepPartly(r)) =>
       \A o \in objects \ objects' : o.by = r]_vars

\* By the same sentence the deletion of a version deletes only what the upload of its
\* row has stored.
DeletionKeepsOthers ==
  [][\A r \in Reqs : req[r].kind = "delete" /\ (Sweep(r) \/ SweepPartly(r)) =>
       \A o \in objects \ objects' : o.by = req[r].maker]_vars

\* "Delete remote artifacts first and fail closed: a storage error must not silently
\* remove the database record that identifies the artifacts": once a deletion is
\* done, storage has nothing of the row's upload.
DeletionFailsClosed ==
  \A r \in Reqs :
    req[r].kind = "delete" /\ req[r].pc = "done" =>
      \A o \in objects :
        o.by = req[r].maker => ~(o.model = req[r].model /\ o.number = req[r].number)
==============================================================================
