------------------------------- MODULE Runner -------------------------------
(* The runner service's init-model, predict and teardown requests for one      *)
(* model: runners/worker.py. FastAPI runs them as threads of one process; they *)
(* share two semaphores, the model's directory and its environment on disk.    *)
EXTENDS Naturals, FiniteSets

CONSTANTS
    Reqs,            \* the requests, each served by a thread of its own
    Files,           \* names of the files of the model's bundle
    Manifest,        \* the name of model.yaml
    MaxBuilds,       \* RUNNER_MAX_CONCURRENT_BUILDS
    MaxPredictions,  \* RUNNER_MAX_CONCURRENT_PREDICTIONS
    MaxCrashes,      \* bound on crashes of the runner process
    Old,             \* the download that happened before the first request
    None

ASSUME RunnerAssumption ==
    /\ MaxBuilds \in Nat \ {0} /\ MaxPredictions \in Nat \ {0} /\ MaxCrashes \in Nat
    /\ Manifest \in Files /\ IsFiniteSet(Files) /\ IsFiniteSet(Reqs)
    /\ None \notin Reqs /\ Old \notin Reqs /\ None # Old

VARIABLES
    dir,     \* the model's directory: [present, made]; made[n] is the download
             \* that wrote the file n, or None
    listed,  \* the files that the bucket's pages listed for each download
    stale,   \* downloads whose completion mark is older than the threshold
    env,     \* the parts of the model's environment that are on disk
    builds,  \* free slots of _build_semaphore
    preds,   \* free slots of _predict_semaphore
    req,     \* the requests
    crashes, \* crashes so far
    overlap  \* history: two downloads of the model have run at the same time

vars == <<dir, listed, stale, env, builds, preds, req, crashes, overlap>>

Mark  == ".s3_download_complete"
Names == Files \cup {Mark}
Parts == {"python", "packages"}
Downloads == Reqs \cup {Old}
Kinds == {"init", "predict", "teardown"}

Empty == [n \in Names |-> None]

\* partial: the names in the request's own .partial-<token> directory;
\* todo: what is left of the listing it is removing; torn: history, a teardown
\* removed something since the request made the environment.
NoRequest == [kind |-> None, pc |-> "new", partial |-> {}, todo |-> {}, torn |-> FALSE]

Init ==
    /\ dir \in {[present |-> FALSE, made |-> Empty],
                [present |-> TRUE, made |-> [n \in Names |-> Old]]}
    /\ listed = [d \in Downloads |-> IF d = Old THEN Files ELSE {}]
    /\ stale \in SUBSET {Old}
    /\ env \in {{}, Parts}
    /\ builds = MaxBuilds /\ preds = MaxPredictions
    /\ req = [r \in Reqs |-> NoRequest]
    /\ crashes = 0 /\ overlap = FALSE

Goto(r, pc) == req' = [req EXCEPT ![r].pc = pc]
At(r, pc)   == req[r].pc = pc

Replacing   == {"fetch", "exists", "list", "unlink", "replace"}
Holding     == {"check", "manifest", "venv", "pip", "validate", "run"} \cup Replacing
Ended       == {"ok", "failed", "busy", "crashed"}
Steps       == {"new", "start", "tear"} \cup Holding \cup Ended
InProgress(r) == req[r].pc \notin Ended \cup {"new"}
Building(r)   == req[r].kind = "init" /\ req[r].pc \in Holding
Predicting(r) == req[r].kind = "predict" /\ req[r].pc \in Holding

\* The `finally` of both handlers: whatever ended the request, its slot is freed.
Release(r) ==
    /\ builds' = IF Building(r) THEN builds + 1 ELSE builds
    /\ preds'  = IF Predicting(r) THEN preds + 1 ELSE preds

\* The request is answered with `outcome` and its slot is freed.
Finish(r, outcome) == Goto(r, outcome) /\ Release(r)

NoFiles == UNCHANGED <<dir, listed, stale>>
Keep    == UNCHANGED <<crashes, overlap>>
----------------------------------------------------------------------------
(* Admission.                                                                  *)

Arrive(r, kind) ==
    /\ At(r, "new")
    /\ req' = [req EXCEPT ![r].kind = kind, ![r].pc = "start"]
    /\ NoFiles /\ UNCHANGED <<env, builds, preds>> /\ Keep

\* Mutant: init takes no slot.
AcquireForPredictOnly(r) ==
    /\ At(r, "start") /\ req[r].kind # "teardown"
    /\ req[r].kind = "predict" => preds > 0
    /\ preds' = IF req[r].kind = "predict" THEN preds - 1 ELSE preds
    /\ Goto(r, "check")
    /\ NoFiles /\ UNCHANGED <<env, builds>> /\ Keep

\* _build_semaphore.acquire(timeout=10.0) or _predict_semaphore.acquire(timeout=5.0)
Acquire(r) ==
    /\ At(r, "start")
    /\ \/ req[r].kind = "init" /\ builds > 0 /\ builds' = builds - 1 /\ preds' = preds
       \/ req[r].kind = "predict" /\ preds > 0 /\ preds' = preds - 1 /\ builds' = builds
    /\ Goto(r, "check")
    /\ NoFiles /\ UNCHANGED env /\ Keep

\* Mutant: the build slot is waited for without a time-out.
BusyForPredictOnly(r) ==
    /\ At(r, "start") /\ req[r].kind = "predict" /\ preds = 0
    /\ Goto(r, "busy")
    /\ NoFiles /\ UNCHANGED <<env, builds, preds>> /\ Keep

\* The time-out of acquire: 503, capacity exhausted.
Busy(r) ==
    /\ At(r, "start")
    /\ \/ req[r].kind = "init" /\ builds = 0
       \/ req[r].kind = "predict" /\ preds = 0
    /\ Goto(r, "busy")
    /\ NoFiles /\ UNCHANGED <<env, builds, preds>> /\ Keep
----------------------------------------------------------------------------
(* _download_s3_artifact: into a directory of its own, marked, then moved.     *)

\* _s3_download_complete
DownloadComplete == dir.made[Mark] # None /\ dir.made[Mark] \notin stale

\* A download begins when there is no mark to trust. Its pages list what the
\* bucket has by then: the whole bundle, a part of one that is being deleted, or
\* nothing under this prefix. (The choice is made at once; pages come one by one.)
CheckMark(r) ==
    /\ At(r, "check")
    /\ \/ DownloadComplete /\ Goto(r, "manifest") /\ UNCHANGED <<listed, overlap>>
       \/ /\ ~DownloadComplete
          /\ Goto(r, "fetch")
          /\ \E files \in SUBSET Files : listed' = [listed EXCEPT ![r] = files]
          /\ overlap' = (overlap \/ \E q \in Reqs : req[q].pc \in Replacing)
    /\ UNCHANGED <<dir, stale, env, builds, preds, crashes>>

Fetch(r) ==
    /\ At(r, "fetch")
    /\ \E f \in listed[r] \ req[r].partial : req' = [req EXCEPT ![r].partial = @ \cup {f}]
    /\ NoFiles /\ UNCHANGED <<env, builds, preds>> /\ Keep

\* Any exception on the way: the request fails (init answers 503, predict lets the
\* exception out). Its partial directory is removed as far as it goes: an unlink
\* or rmdir that is refused is passed over.
DownloadFails(r) ==
    /\ \E kept \in SUBSET req[r].partial :
          req' = [req EXCEPT ![r].partial = kept, ![r].todo = {}, ![r].pc = "failed"]
    /\ Release(r)

\* Mutant: the exception leaves the handler outside its `finally`.
StorageFailureKeepsSlot(r) ==
    /\ At(r, "fetch")
    /\ req' = [req EXCEPT ![r].partial = {}, ![r].pc = "failed"]
    /\ NoFiles /\ UNCHANGED <<env, builds, preds>> /\ Keep

\* Mutant: what was downloaded so far is used.
StorageFailureIgnored(r) ==
    /\ At(r, "fetch") /\ req[r].partial # {}
    /\ Goto(r, "exists")
    /\ NoFiles /\ UNCHANGED <<env, builds, preds>> /\ Keep

StorageFails(r) ==
    /\ At(r, "fetch") /\ DownloadFails(r)
    /\ NoFiles /\ UNCHANGED env /\ Keep

\* Mutant: the mark is written while listed objects are still missing.
MarkEarly(r) ==
    /\ At(r, "fetch")
    /\ req' = [req EXCEPT ![r].partial = @ \cup {Mark}, ![r].pc = "exists"]
    /\ NoFiles /\ UNCHANGED <<env, builds, preds>> /\ Keep

\* _mark_s3_download_complete: after the last object of the last page, however
\* few the pages listed
MarkComplete(r) ==
    /\ At(r, "fetch") /\ req[r].partial = listed[r]
    /\ req' = [req EXCEPT ![r].partial = @ \cup {Mark}, ![r].pc = "exists"]
    /\ NoFiles /\ UNCHANGED <<env, builds, preds>> /\ Keep

\* _safe_replace_dir looks whether the destination exists
LookForOld(r) ==
    /\ At(r, "exists")
    /\ Goto(r, IF dir.present THEN "list" ELSE "replace")
    /\ NoFiles /\ UNCHANGED <<env, builds, preds>> /\ Keep

\* _attempt_remove_dir lists the directory once. One that has gone meanwhile is
\* seen by its own test, or makes the listing raise out of the download.
ListOld(r) ==
    /\ At(r, "list")
    /\ \/ /\ dir.present
          /\ req' = [req EXCEPT ![r].pc = "unlink",
                                ![r].todo = {n \in Names : dir.made[n] # None}]
          /\ UNCHANGED <<builds, preds>>
       \/ ~dir.present /\ Goto(r, "replace") /\ UNCHANGED <<builds, preds>>
       \/ ~dir.present /\ DownloadFails(r)
    /\ NoFiles /\ UNCHANGED env /\ Keep

\* ... and unlinks what it listed, by path, whoever wrote the file. An unlink
\* that is refused is passed over.
UnlinkOld(r) ==
    /\ At(r, "unlink")
    /\ \E n \in req[r].todo :
          /\ dir' \in {dir, [dir EXCEPT !.made[n] = None]}
          /\ req' = [req EXCEPT ![r].todo = @ \ {n}]
    /\ UNCHANGED <<listed, stale, env, builds, preds>> /\ Keep

\* Mutant: a directory that is not empty is listed and emptied again.
RemoveOldAgain(r) ==
    /\ At(r, "unlink") /\ req[r].todo = {}
    /\ dir' = [dir EXCEPT !.present = @ /\ dir.made # Empty]
    /\ Goto(r, IF dir.made = Empty THEN "replace" ELSE "list")
    /\ UNCHANGED <<listed, stale, env, builds, preds>> /\ Keep

\* rmdir: the error of a directory that is not empty is swallowed
RemoveOld(r) ==
    /\ At(r, "unlink") /\ req[r].todo = {}
    /\ dir' = [dir EXCEPT !.present = @ /\ dir.made # Empty]
    /\ Goto(r, "replace")
    /\ UNCHANGED <<listed, stale, env, builds, preds>> /\ Keep

\* os.replace: onto nothing or an empty directory, else an error
MoveIn(r) ==
    /\ At(r, "replace")
    /\ \/ /\ dir.made = Empty
          /\ dir' = [present |-> TRUE,
                     made |-> [n \in Names |-> IF n \in req[r].partial THEN r ELSE None]]
          /\ req' = [req EXCEPT ![r].partial = {}, ![r].pc = "manifest"]
          /\ UNCHANGED <<builds, preds>>
       \/ dir.made # Empty /\ DownloadFails(r) /\ UNCHANGED dir
    /\ UNCHANGED <<listed, stale, env>> /\ Keep

\* RUNNER_DOWNLOAD_STALE_SECONDS pass for a mark
MarkAges(d) ==
    /\ dir.made[Mark] = d /\ d \notin stale
    /\ stale' = stale \cup {d}
    /\ UNCHANGED <<dir, listed, env, builds, preds, req>> /\ Keep
----------------------------------------------------------------------------
(* init_model after the download: environment, dependencies, validation.       *)

\* The manifest and its requirements are read, and for a prediction the python
\* of the environment is looked for.
ReadManifest(r) ==
    /\ At(r, "manifest")
    /\ \/ dir.made[Manifest] = None /\ Finish(r, "failed")
       \/ /\ dir.made[Manifest] # None /\ req[r].kind = "init"
          /\ Goto(r, "venv") /\ UNCHANGED <<builds, preds>>
       \/ /\ dir.made[Manifest] # None /\ req[r].kind = "predict" /\ "python" \in env
          /\ Goto(r, "run") /\ UNCHANGED <<builds, preds>>
       \/ /\ dir.made[Manifest] # None /\ req[r].kind = "predict" /\ "python" \notin env
          /\ Finish(r, "failed")
    /\ NoFiles /\ UNCHANGED env /\ Keep

\* `uv venv` clears the directory and makes a new one, or fails.
CreateVenv(r) ==
    /\ At(r, "venv")
    /\ \/ /\ env' = {"python"}
          /\ req' = [req EXCEPT ![r].pc = "pip",
                                ![r].torn = \E q \in Reqs : At(q, "tear")]
          /\ UNCHANGED <<builds, preds>>
       \/ env' \in {env, {}} /\ Finish(r, "failed")
    /\ NoFiles /\ Keep

InstallRequirements(r) ==
    /\ At(r, "pip")
    /\ \/ /\ "python" \in env /\ env' = env \cup {"packages"}
          /\ Goto(r, "validate") /\ UNCHANGED <<builds, preds>>
       \/ env' = env /\ Finish(r, "failed")
    /\ NoFiles /\ Keep

\* The bridge loads the model with the environment's python.
Validate(r) ==
    /\ At(r, "validate")
    /\ \/ env = Parts /\ (\A f \in Files : dir.made[f] # None) /\ Finish(r, "ok")
       \/ Finish(r, "failed")
    /\ NoFiles /\ UNCHANGED env /\ Keep

\* The process-per-request prediction.
RunBridge(r) ==
    /\ At(r, "run")
    /\ \/ env = Parts /\ (\A f \in Files : dir.made[f] # None) /\ Finish(r, "ok")
       \/ Finish(r, "failed")
    /\ NoFiles /\ UNCHANGED env /\ Keep
----------------------------------------------------------------------------
(* teardown: no semaphore; the environment is listed, then removed by name, as *)
(* far as it goes.                                                             *)

BeginTeardown(r) ==
    /\ At(r, "start") /\ req[r].kind = "teardown"
    /\ req' = [q \in Reqs |->
                  IF q = r THEN [req[r] EXCEPT !.pc = "tear", !.todo = env]
                           ELSE [req[q] EXCEPT !.torn = TRUE]]
    /\ NoFiles /\ UNCHANGED <<env, builds, preds>> /\ Keep

RemovePart(r) ==
    /\ At(r, "tear")
    /\ \E p \in req[r].todo :
          /\ env' \in {env, env \ {p}}
          /\ req' = [req EXCEPT ![r].todo = @ \ {p}]
    /\ NoFiles /\ UNCHANGED <<builds, preds>> /\ Keep

EndTeardown(r) ==
    /\ At(r, "tear") /\ req[r].todo = {}
    /\ Goto(r, "ok")
    /\ NoFiles /\ UNCHANGED <<env, builds, preds>> /\ Keep
----------------------------------------------------------------------------
\* The process dies and is started again: its threads and semaphores are gone,
\* what is on disk stays.
Crash ==
    /\ crashes < MaxCrashes
    /\ \E r \in Reqs : InProgress(r)
    /\ crashes' = crashes + 1
    /\ req' = [r \in Reqs |-> IF InProgress(r) THEN [req[r] EXCEPT !.pc = "crashed"]
                                               ELSE req[r]]
    /\ builds' = MaxBuilds /\ preds' = MaxPredictions
    /\ NoFiles /\ UNCHANGED <<env, overlap>>

Download(r) ==
    \/ CheckMark(r) \/ Fetch(r) \/ StorageFails(r) \/ MarkComplete(r)
    \/ LookForOld(r) \/ ListOld(r) \/ UnlinkOld(r) \/ RemoveOld(r) \/ MoveIn(r)

Serve(r) ==
    \/ Acquire(r) \/ Busy(r) \/ Download(r)
    \/ ReadManifest(r) \/ CreateVenv(r) \/ InstallRequirements(r)
    \/ Validate(r) \/ RunBridge(r)
    \/ BeginTeardown(r) \/ RemovePart(r) \/ EndTeardown(r)

Next ==
    \/ \E r \in Reqs : (\E k \in Kinds : Arrive(r, k)) \/ Serve(r)
    \/ \E d \in Downloads : MarkAges(d)
    \/ Crash

Spec == Init /\ [][Next]_vars

----------------------------------------------------------------------------
\* Typing, which RunnerProofs proves: no semaphore has more slots than it was made with.
TypeOK ==
    /\ dir \in [present : BOOLEAN, made : [Names -> Downloads \cup {None}]]
    /\ listed \in [Downloads -> SUBSET Files] /\ stale \subseteq Downloads
    /\ env \subseteq Parts
    /\ builds \in 0..MaxBuilds /\ preds \in 0..MaxPredictions
    /\ req \in [Reqs -> [kind : Kinds \cup {None}, pc : Steps,
                         partial : SUBSET Names, todo : SUBSET (Names \cup Parts),
                         torn : BOOLEAN]]
    /\ crashes \in 0..MaxCrashes
    /\ overlap \in BOOLEAN

\* Whatever way requests end (refused, failed at any step, answered, killed with
\* the process), the free slots of both semaphores are those no request in
\* progress holds: none is lost, none is released twice.
SlotsMatchHolders ==
    /\ builds + Cardinality({r \in Reqs : Building(r)}) = MaxBuilds
    /\ preds + Cardinality({r \in Reqs : Predicting(r)}) = MaxPredictions

\* As long as no two downloads of the model ran at the same time, a directory that
\* passes for a complete download holds every file that download had listed, each
\* as that download wrote it, whatever failed, crashed, could not be removed or is
\* being replaced.
SoloDownloadsAreWhole ==
    (~overlap /\ DownloadComplete)
        => \A f \in listed[dir.made[Mark]] : dir.made[f] = dir.made[Mark]

\* With one build at a time, an init that reaches the validation finds the whole
\* environment it made, unless a teardown overlapped.
BuildsDontInterfere ==
    \A r \in Reqs : (At(r, "validate") /\ ~req[r].torn) => env = Parts

\* Files appear at the final path only as one finished download: with its mark, and
\* with every file it had listed, never while files are still coming in.
PublishedWhole ==
    [][(\E n \in Names : dir.made[n] = None /\ dir'.made[n] # None)
         => /\ dir'.made[Mark] # None
            /\ \A f \in listed[dir'.made[Mark]] : dir'.made[f] = dir'.made[Mark]]_vars

\* How far a request has come, and what is left of the loop it is in.
Stage(pc) ==
    CASE pc = "new" -> 0      [] pc = "start" -> 1     [] pc = "check" -> 2
      [] pc = "fetch" -> 3    [] pc = "exists" -> 4    [] pc = "list" -> 5
      [] pc = "unlink" -> 6   [] pc = "replace" -> 7   [] pc = "manifest" -> 8
      [] pc = "venv" -> 9     [] pc = "pip" -> 10      [] pc = "validate" -> 11
      [] pc \in {"run", "tear"} -> 11                  [] OTHER -> 12

Left(r) == IF At(r, "fetch") THEN listed[r] \ req[r].partial ELSE req[r].todo

MovesOn(r) ==
    \/ Stage(req[r].pc) < Stage(req[r].pc)'
    \/ req'[r].pc = req[r].pc /\ Left(r)' \subseteq Left(r) /\ Left(r)' # Left(r)

\* Every step of a request brings it forward: to a later stage, or through a loop
\* over a finite set of which less is left. No step, of this request or another,
\* sends it back, whatever the others write and remove in the directories it
\* works on. So each request takes finitely many steps.
RequestsMoveOn ==
    [][\A r \in Reqs :
          /\ Serve(r) => MovesOn(r)
          /\ MovesOn(r) \/ (UNCHANGED <<req[r].pc, Left(r)>>)]_vars

\* The comment at worker.py:64-65 (and 68-69) takes a marked directory for a
\* completed download. In two steps, each refuted by a run:
\* for any mix of requests, once nobody is replacing it, a directory that is reused
\* has every file that its download had listed ...
MarkedIsComplete ==
    (DownloadComplete /\ \A r \in Reqs : req[r].pc \notin Replacing)
        => \A f \in listed[dir.made[Mark]] : dir.made[f] # None

\* ... and, for a request that is alone, it has every file of the bundle.
ReusedIsWhole == DownloadComplete => \A f \in Files : dir.made[f] # None

\* No request depends on another to go on: in every state each of them has a step
\* of its own to take, if only the time-out of its semaphore. (By RequestsMoveOn it
\* takes finitely many of them, so all requests are answered.)
NobodyWaitsForever == \A r \in Reqs : InProgress(r) => ENABLED Serve(r)
=============================================================================
