----------------------------- MODULE Deployments -----------------------------
(***************************************************************************)
(* The deployment control plane: API handlers that create, stop and delete *)
(* rows, Celery workers that run build_deployment, the Redis build lock,   *)
(* the stale-build reaper and the runner's environments.                   *)
(*                                                                         *)
(* A row is written by three kinds of process that never share a lock:     *)
(* only the two transactions of _build_and_run_deployment use              *)
(* select_for_update.  A handler, _mark_failed and the reaper read a row,  *)
(* call transition_to() on that copy, and save it later; each such         *)
(* read and save is its own step here.                                     *)
(***************************************************************************)
EXTENDS Naturals, FiniteSets

CONSTANTS
  Deps,        \* deployment ids; an id is used for one row only (uuid4)
  Versions,    \* model versions
  VersionOf,   \* the version each deployment is for
  Handlers,    \* API request threads
  Workers,     \* Celery worker slots
  MaxRetries,  \* max_retries of the task (3 in the code)
  MaxFaults,   \* bound: crashes, broker failures and redeliveries together
  MaxSlow,     \* bound: builds that outlive the lock's timeout
  None

ASSUME VersionOfAssumption == VersionOf \in [Deps -> Versions]
ASSUME MaxRetriesAssumption == MaxRetries \in Nat
ASSUME BoundsAssumption == MaxFaults \in Nat /\ MaxSlow \in Nat
ASSUME NoneAssumption == None \notin Workers /\ None \notin Deps

VARIABLES
  row,       \* row[d]: status column, or ABSENT (not inserted), GONE (deleted)
  msgs,      \* build_deployment messages waiting in the broker
  lock,      \* lock[d]: the execution whose uuid the Redis key holds, or None
  task,      \* task[w]: the execution on worker w
  req,       \* req[h]: the request on API thread h
  reap,      \* rows the reaper's query returned and it has not saved yet
  env,       \* env[v]: the runner holds a usable environment of version v
  envBy,     \* history: the deployment for which env[v] was last written
  faults,    \* faults so far
  slow       \* lock timeouts under a live holder so far

vars == <<row, msgs, lock, task, req, reap, env, envBy, faults, slow>>

Active   == {"PENDING", "BUILDING", "RUNNING"}
Existing == Active \cup {"FAILED", "STOPPED"}
Statuses == Existing \cup {"ABSENT", "GONE"}

Messages == [dep : Deps, retries : 0 .. MaxRetries]

\* Steps of an execution, from its second statement to its last.
Building  == {"begin", "runner", "commit"}
Releasing == {"unlock", "unlock_delete"}
TaskSteps == Building \cup {"retry", "mark_read"} \cup Releasing

IdleTask == [pc |-> "idle", dep |-> None, retries |-> 0, seen |-> None]
IdleReq  == [pc |-> "idle", dep |-> None, drop |-> FALSE]

\* seen: the status _mark_failed has read and is about to save.
Tasks == {IdleTask} \cup
         [pc : TaskSteps, dep : Deps, retries : 0 .. MaxRetries, seen : {None}] \cup
         [pc : {"mark_save"}, dep : Deps, retries : 0 .. MaxRetries, seen : Statuses]
Requests == {IdleReq} \cup
            [pc : {"insert", "enqueue", "save", "teardown", "delete"},
             dep : Deps, drop : BOOLEAN]

Executing(w, d) == task[w].pc # "idle" /\ task[w].dep = d

\* unique_active_deployment_per_version: d may not become active beside these.
Collides(d) == \E e \in Deps \ {d} : VersionOf[e] = VersionOf[d] /\ row[e] \in Active

SetRow(d, status) == row' = [row EXCEPT ![d] = status]
TaskAt(w, step)   == task' = [task EXCEPT ![w].pc = step]
ReqAt(h, step)    == req' = [req EXCEPT ![h].pc = step]
TaskEnds(w)       == task' = [task EXCEPT ![w] = IdleTask]
ReqEnds(h)        == req' = [req EXCEPT ![h] = IdleReq]
SetEnv(d, usable) ==
  /\ env' = [env EXCEPT ![VersionOf[d]] = usable]
  /\ envBy' = [envBy EXCEPT ![VersionOf[d]] = d]
Fault == faults < MaxFaults /\ faults' = faults + 1

taskOnly   == <<row, msgs, lock, req, reap, env, envBy, faults, slow>>
reqOnly    == <<row, msgs, lock, task, reap, env, envBy, faults, slow>>
------------------------------------------------------------------------------
(* POST /api/deployments/ *)

\* REL-07's look for an active row, before the insert and outside its statement.
CreateCheck(h, d) ==
  /\ req[h].pc = "idle"
  /\ row[d] = "ABSENT" /\ \A g \in Handlers : req[g].dep # d
  /\ ~Collides(d)
  /\ req' = [req EXCEPT ![h] = [pc |-> "insert", dep |-> d, drop |-> FALSE]]
  /\ UNCHANGED reqOnly

\* Mutant: the insert relies on the earlier look and the table has no unique index.
InsertWithoutIndex(h) ==
  /\ req[h].pc = "insert"
  /\ SetRow(req[h].dep, "PENDING") /\ ReqAt(h, "enqueue")
  /\ UNCHANGED <<msgs, lock, task, reap, env, envBy, faults, slow>>

CreateInsert(h) ==
  /\ req[h].pc = "insert"
  /\ ~Collides(req[h].dep)
  /\ SetRow(req[h].dep, "PENDING") /\ ReqAt(h, "enqueue")
  /\ UNCHANGED <<msgs, lock, task, reap, env, envBy, faults, slow>>

\* IntegrityError from the unique index: the handler answers 409.
CreateConflict(h) ==
  /\ req[h].pc = "insert"
  /\ Collides(req[h].dep)
  /\ ReqEnds(h)
  /\ UNCHANGED reqOnly

\* Mutant: the row is created and the task never published.
ForgetEnqueue(h) ==
  /\ req[h].pc = "enqueue"
  /\ ReqEnds(h)
  /\ UNCHANGED reqOnly

\* start_deployment_async: build_deployment.delay(), after the row is committed.
CreateEnqueue(h) ==
  /\ req[h].pc = "enqueue"
  /\ msgs' = msgs \cup {[dep |-> req[h].dep, retries |-> 0]}
  /\ ReqEnds(h)
  /\ UNCHANGED <<row, lock, task, reap, env, envBy, faults, slow>>
------------------------------------------------------------------------------
(* POST /api/deployments/<id>/stop/ and DELETE /api/deployments/<id>/ *)

\* The unlocked read of both handlers, on an active row.  transition_to(STOPPED)
\* succeeds on the copy; a FAILED row makes stop raise and changes nothing.
StopRead(h, d) ==
  /\ req[h].pc = "idle"
  /\ row[d] \in Active
  /\ \E drop \in BOOLEAN :
       req' = [req EXCEPT ![h] = [pc |-> "save", dep |-> d, drop |-> drop]]
  /\ UNCHANGED reqOnly

\* DELETE on a row that is not active goes straight to deployment.delete().
DeleteRead(h, d) ==
  /\ req[h].pc = "idle"
  /\ row[d] \in {"FAILED", "STOPPED"}
  /\ req' = [req EXCEPT ![h] = [pc |-> "delete", dep |-> d, drop |-> TRUE]]
  /\ UNCHANGED reqOnly

\* Mutant: the environment is torn down before the status is saved.
TeardownBeforeSave(h) ==
  /\ req[h].pc = "save"
  /\ SetEnv(req[h].dep, FALSE) /\ ReqAt(h, "teardown")
  /\ UNCHANGED <<row, msgs, lock, task, reap, faults, slow>>

\* save(update_fields=["status", ...]) writes the copy over whatever is there.
StopSave(h) ==
  /\ req[h].pc = "save"
  /\ row[req[h].dep] # "GONE"
  /\ SetRow(req[h].dep, "STOPPED") /\ ReqAt(h, "teardown")
  /\ UNCHANGED <<msgs, lock, task, reap, env, envBy, faults, slow>>

\* save(update_fields=...) of a row that is gone raises DatabaseError.
StopSaveGone(h) ==
  /\ req[h].pc = "save"
  /\ row[req[h].dep] = "GONE"
  /\ ReqEnds(h)
  /\ UNCHANGED reqOnly

AfterTeardown(h) == IF req[h].drop THEN ReqAt(h, "delete") ELSE ReqEnds(h)

\* runner.teardown({"model_id": model_version_id}); any exception is swallowed.
Teardown(h) ==
  /\ req[h].pc = "teardown"
  /\ AfterTeardown(h)
  /\ \/ SetEnv(req[h].dep, FALSE)
     \/ UNCHANGED <<env, envBy>>
  /\ UNCHANGED <<row, msgs, lock, task, reap, faults, slow>>

DeleteRow(h) ==
  /\ req[h].pc = "delete"
  /\ SetRow(req[h].dep, "GONE") /\ ReqEnds(h)
  /\ UNCHANGED <<msgs, lock, task, reap, env, envBy, faults, slow>>
------------------------------------------------------------------------------
(* build_deployment and _build_and_run_deployment *)

\* A retry's countdown (30 s and more) outlasts the finally block of the
\* execution that published it.
CountdownOver(m) ==
  \A w \in Workers : ~(/\ task[w].pc \in Releasing
                       /\ task[w].dep = m.dep
                       /\ task[w].retries + 1 = m.retries)

\* The worker takes a message; acks_late leaves it unacknowledged until the end.
Deliverable(w, m) == m \in msgs /\ task[w].pc = "idle" /\ CountdownOver(m)

\* Mutant: the task runs whether or not cache.add() won the key.
AcquireUnconditionally(w, m) ==
  /\ Deliverable(w, m)
  /\ msgs' = msgs \ {m}
  /\ lock' = [lock EXCEPT ![m.dep] = w]
  /\ task' = [task EXCEPT ![w] = [pc |-> "begin", dep |-> m.dep,
                                   retries |-> m.retries, seen |-> None]]
  /\ UNCHANGED <<row, req, reap, env, envBy, faults, slow>>

\* cache.add(lock_key, lock_value, timeout) won the key.
AcquireLock(w, m) ==
  /\ Deliverable(w, m)
  /\ lock[m.dep] = None
  /\ msgs' = msgs \ {m}
  /\ lock' = [lock EXCEPT ![m.dep] = w]
  /\ task' = [task EXCEPT ![w] = [pc |-> "begin", dep |-> m.dep,
                                   retries |-> m.retries, seen |-> None]]
  /\ UNCHANGED <<row, req, reap, env, envBy, faults, slow>>

\* cache.add() found the key: return "already_running", which acknowledges.
AlreadyRunning(w, m) ==
  /\ Deliverable(w, m)
  /\ lock[m.dep] # None
  /\ msgs' = msgs \ {m}
  /\ UNCHANGED <<row, lock, task, req, reap, env, envBy, faults, slow>>

\* The unlocked get() of the task and the first transaction, which repeats its
\* exits: gone (DoesNotExist; _mark_failed finds no row either), RUNNING and
\* STOPPED end the task.
BeginSkip(w) ==
  /\ task[w].pc = "begin"
  /\ row[task[w].dep] \in {"GONE", "RUNNING", "STOPPED"}
  /\ TaskAt(w, "unlock")
  /\ UNCHANGED taskOnly

\* PENDING -> BUILDING under select_for_update; BUILDING is left and continued.
BeginBuild(w) ==
  /\ task[w].pc = "begin"
  /\ row[task[w].dep] \in {"PENDING", "BUILDING"}
  /\ SetRow(task[w].dep, "BUILDING") /\ TaskAt(w, "runner")
  /\ UNCHANGED <<msgs, lock, req, reap, env, envBy, faults, slow>>

\* "Cannot build deployment in state FAILED": a RuntimeError.
BeginRefused(w) ==
  /\ task[w].pc = "begin"
  /\ row[task[w].dep] = "FAILED"
  /\ TaskAt(w, "mark_read")
  /\ UNCHANGED taskOnly

\* init_environment answered 200 and the readiness poll answered 200 in time.
RunnerReady(w) ==
  /\ task[w].pc = "runner"
  /\ SetEnv(task[w].dep, TRUE) /\ TaskAt(w, "commit")
  /\ UNCHANGED <<row, msgs, lock, req, reap, faults, slow>>

\* init_environment failed, or raised, or readiness timed out or raised: the
\* environment is untouched, or left usable or not.  RetryableDeploymentError goes
\* on to the retry decision, any other exception to _mark_failed.
RunnerFails(w) ==
  /\ task[w].pc = "runner"
  /\ \/ \E usable \in BOOLEAN : SetEnv(task[w].dep, usable)
     \/ UNCHANGED <<env, envBy>>
  /\ TaskAt(w, "retry") \/ TaskAt(w, "mark_read")
  /\ UNCHANGED <<row, msgs, lock, req, reap, faults, slow>>

\* Mutant: the second transaction does not look at the status again.
CommitUnchecked(w) ==
  /\ task[w].pc = "commit"
  /\ row[task[w].dep] # "GONE"
  /\ ~Collides(task[w].dep)
  /\ SetRow(task[w].dep, "RUNNING") /\ TaskAt(w, "unlock")
  /\ UNCHANGED <<msgs, lock, req, reap, env, envBy, faults, slow>>

\* The second transaction: BUILDING -> RUNNING under select_for_update.
Commit(w) ==
  /\ task[w].pc = "commit"
  /\ row[task[w].dep] = "BUILDING"
  /\ SetRow(task[w].dep, "RUNNING") /\ TaskAt(w, "unlock")
  /\ UNCHANGED <<msgs, lock, req, reap, env, envBy, faults, slow>>

\* DeploymentCancelledError: the task returns and leaves the environment.
CommitCancelled(w) ==
  /\ task[w].pc = "commit"
  /\ row[task[w].dep] = "STOPPED"
  /\ TaskAt(w, "unlock")
  /\ UNCHANGED taskOnly

\* Any other status, or no row: an exception, so _mark_failed.
CommitRefused(w) ==
  /\ task[w].pc = "commit"
  /\ row[task[w].dep] \notin {"BUILDING", "STOPPED"}
  /\ TaskAt(w, "mark_read")
  /\ UNCHANGED taskOnly

\* Mutant: the retry is decided and its message never published.
RetryLost(w) ==
  /\ task[w].pc = "retry"
  /\ TaskAt(w, "unlock")
  /\ UNCHANGED taskOnly

\* Mutant: one attempt too many.
RetryOffByOne(w) ==
  /\ task[w].pc = "retry"
  /\ task[w].retries <= MaxRetries
  /\ msgs' = msgs \cup {[dep |-> task[w].dep, retries |-> task[w].retries + 1]}
  /\ TaskAt(w, "unlock")
  /\ UNCHANGED <<row, lock, req, reap, env, envBy, faults, slow>>

\* self.retry() publishes the next attempt, then raises through the finally.
Retry(w) ==
  /\ task[w].pc = "retry"
  /\ task[w].retries < MaxRetries
  /\ msgs' = msgs \cup {[dep |-> task[w].dep, retries |-> task[w].retries + 1]}
  /\ TaskAt(w, "unlock")
  /\ UNCHANGED <<row, lock, req, reap, env, envBy, faults, slow>>

RetryExhausted(w) ==
  /\ task[w].pc = "retry"
  /\ task[w].retries = MaxRetries
  /\ TaskAt(w, "mark_read")
  /\ UNCHANGED taskOnly

\* The broker refuses the retry: the error leaves through the finally block.
RetryUnpublished(w) ==
  /\ task[w].pc = "retry"
  /\ task[w].retries < MaxRetries
  /\ Fault /\ TaskAt(w, "unlock")
  /\ UNCHANGED <<row, msgs, lock, req, reap, env, envBy, slow>>

\* _mark_failed's unlocked read.
MarkRead(w) ==
  /\ task[w].pc = "mark_read"
  /\ IF row[task[w].dep] = "GONE"
     THEN TaskAt(w, "unlock")
     ELSE task' = [task EXCEPT ![w].pc = "mark_save", ![w].seen = row[task[w].dep]]
  /\ UNCHANGED taskOnly

\* What its save writes: only a PENDING or BUILDING copy was transitioned.
MarkedStatus(seen) == IF seen \in {"PENDING", "BUILDING"} THEN "FAILED" ELSE seen

\* Its save writes the status of the copy: it fails on a deleted row
\* (DatabaseError) and on the unique index (IntegrityError).
MarkSave(w) ==
  /\ task[w].pc = "mark_save"
  /\ LET d == task[w].dep
         status == MarkedStatus(task[w].seen)
     IN  IF row[d] = "GONE" \/ (status \in Active /\ Collides(d))
         THEN UNCHANGED row
         ELSE SetRow(d, status)
  /\ task' = [task EXCEPT ![w].pc = "unlock", ![w].seen = None]
  /\ UNCHANGED <<msgs, lock, req, reap, env, envBy, faults, slow>>

\* finally: cache.get(lock_key) == lock_value ...
UnlockCheck(w) ==
  /\ task[w].pc = "unlock"
  /\ IF lock[task[w].dep] = w THEN TaskAt(w, "unlock_delete") ELSE TaskEnds(w)
  /\ UNCHANGED taskOnly

\* ... then cache.delete(lock_key), whoever holds it by now; the message is acked.
UnlockDelete(w) ==
  /\ task[w].pc = "unlock_delete"
  /\ lock' = [lock EXCEPT ![task[w].dep] = None]
  /\ TaskEnds(w)
  /\ UNCHANGED <<row, msgs, req, reap, env, envBy, faults, slow>>
------------------------------------------------------------------------------
(* manage.py reap_stale_builds *)

\* Mutant: the command asks for PENDING rows.
ReapWrongStatus(S) ==
  /\ reap = {}
  /\ S # {} /\ S \subseteq {d \in Deps : row[d] = "PENDING"}
  /\ reap' = S
  /\ UNCHANGED <<row, msgs, lock, task, req, env, envBy, faults, slow>>

\* The query: BUILDING rows whose updated_at, set by the first transaction and
\* by no retry, is before the cutoff the operator chose.
ReapQuery(S) ==
  /\ reap = {}
  /\ S # {} /\ S \subseteq {d \in Deps : row[d] = "BUILDING"}
  /\ reap' = S
  /\ UNCHANGED <<row, msgs, lock, task, req, env, envBy, faults, slow>>

\* One iteration of the loop: transition_to(FAILED) on the fetched copy, and save.
ReapSave(d) ==
  /\ d \in reap /\ row[d] # "GONE"
  /\ SetRow(d, "FAILED")
  /\ reap' = reap \ {d}
  /\ UNCHANGED <<msgs, lock, task, req, env, envBy, faults, slow>>

\* The save of a deleted row raises DatabaseError, which ends the command.
ReapAborts(d) ==
  /\ d \in reap /\ row[d] = "GONE"
  /\ reap' = {}
  /\ UNCHANGED <<row, msgs, lock, task, req, env, envBy, faults, slow>>
------------------------------------------------------------------------------
(* The environment *)

MessageOf(w) == [dep |-> task[w].dep, retries |-> task[w].retries]

\* The worker process is lost: CELERY_TASK_REJECT_ON_WORKER_LOST requeues the
\* message at once, and the Redis key stays until it times out.
WorkerCrash(w) ==
  /\ task[w].pc # "idle"
  /\ Fault
  /\ msgs' = msgs \cup {MessageOf(w)}
  /\ TaskEnds(w)
  /\ UNCHANGED <<row, lock, req, reap, env, envBy, slow>>

\* The broker restores an unacknowledged message that is still being executed.
Redeliver(w) ==
  /\ task[w].pc # "idle"
  /\ Fault
  /\ msgs' = msgs \cup {MessageOf(w)}
  /\ UNCHANGED <<row, lock, task, req, reap, env, envBy, slow>>

\* The API process dies between two statements, or .delay() finds no broker.
RequestLost(h) ==
  /\ req[h].pc # "idle"
  /\ Fault /\ ReqEnds(h)
  /\ UNCHANGED <<row, msgs, lock, task, reap, env, envBy, slow>>

Held(d) == lock[d] # None /\ Executing(lock[d], d)

\* Mutant: cache.add() without a timeout.
LockNeverTimesOut(d) == FALSE /\ UNCHANGED vars

\* The key of an execution that died reaches its timeout.
LockTimeout(d) ==
  /\ lock[d] # None /\ ~Held(d)
  /\ lock' = [lock EXCEPT ![d] = None]
  /\ UNCHANGED <<row, msgs, task, req, reap, env, envBy, faults, slow>>

\* RUNNER_INIT_TIMEOUT_SECONDS + 60 pass under a live execution, which may wait
\* that init timeout, then the readiness deadline, then one more readiness call.
LockOutlived(d) ==
  /\ Held(d)
  /\ slow < MaxSlow /\ slow' = slow + 1
  /\ lock' = [lock EXCEPT ![d] = None]
  /\ UNCHANGED <<row, msgs, task, req, reap, env, envBy, faults>>
------------------------------------------------------------------------------
Init ==
  /\ row = [d \in Deps |-> "ABSENT"]
  /\ msgs = {}
  /\ lock = [d \in Deps |-> None]
  /\ task = [w \in Workers |-> IdleTask]
  /\ req = [h \in Handlers |-> IdleReq]
  /\ reap = {}
  /\ env = [v \in Versions |-> FALSE]
  /\ envBy = [v \in Versions |-> None]
  /\ faults = 0
  /\ slow = 0

\* A client's new request: nobody has to send one.
NewRequest(h) == \E d \in Deps :
  CreateCheck(h, d) \/ StopRead(h, d) \/ DeleteRead(h, d)

RequestStep(h) ==
  \/ CreateInsert(h) \/ CreateConflict(h) \/ CreateEnqueue(h)
  \/ StopSave(h) \/ StopSaveGone(h) \/ Teardown(h) \/ DeleteRow(h)

Deliver(w, m) == AcquireLock(w, m) \/ AlreadyRunning(w, m)

TaskStep(w) ==
  \/ BeginSkip(w) \/ BeginBuild(w) \/ BeginRefused(w)
  \/ RunnerReady(w) \/ RunnerFails(w)
  \/ Commit(w) \/ CommitCancelled(w) \/ CommitRefused(w)
  \/ Retry(w) \/ RetryExhausted(w)
  \/ MarkRead(w) \/ MarkSave(w)
  \/ UnlockCheck(w) \/ UnlockDelete(w)

Reaper == \/ \E S \in SUBSET Deps : ReapQuery(S)
          \/ \E d \in Deps : ReapSave(d) \/ ReapAborts(d)

Failure == \/ \E w \in Workers : WorkerCrash(w) \/ Redeliver(w) \/ RetryUnpublished(w)
           \/ \E h \in Handlers : RequestLost(h)
           \/ \E d \in Deps : LockTimeout(d) \/ LockOutlived(d)

Next == \/ \E h \in Handlers : NewRequest(h) \/ RequestStep(h)
        \/ \E w \in Workers, m \in Messages : Deliver(w, m)
        \/ \E w \in Workers : TaskStep(w)
        \/ Reaper
        \/ Failure

Spec == Init /\ [][Next]_vars

\* A request that was accepted is carried on, a queued message reaches a free
\* worker, an execution proceeds (every call it makes has a timeout), a Redis key
\* expires, and the operator's reaper (docs/alerts.md) is run again and again.
Fairness ==
  /\ \A h \in Handlers : WF_vars(RequestStep(h))
  /\ \A m \in Messages : WF_vars(\E w \in Workers : Deliver(w, m))
  /\ \A w \in Workers : WF_vars(TaskStep(w))
  /\ \A d \in Deps : /\ WF_vars(LockTimeout(d))
                     /\ WF_vars(\E S \in SUBSET Deps : d \in S /\ ReapQuery(S))
                     /\ WF_vars(ReapSave(d) \/ ReapAborts(d))

LiveSpec == Spec /\ Fairness
------------------------------------------------------------------------------
(* Properties *)

TypeOK ==
  /\ row \in [Deps -> Statuses]
  /\ msgs \subseteq Messages
  /\ lock \in [Deps -> Workers \cup {None}]
  /\ task \in [Workers -> Tasks]
  /\ req \in [Handlers -> Requests]
  /\ reap \subseteq Deps
  /\ env \in [Versions -> BOOLEAN]
  /\ envBy \in [Versions -> Deps \cup {None}]
  /\ faults \in 0 .. MaxFaults
  /\ slow \in 0 .. MaxSlow

\* REL-07: however creations, stops and failure clean-ups interleave, one model
\* version never has two active deployments.
AtMostOneActive ==
  \A d, e \in Deps :
    VersionOf[d] = VersionOf[e] /\ row[d] \in Active /\ row[e] \in Active => d = e

\* The Redis key serialises build_deployment: while no build outlives the key's
\* timeout, no two executions for one deployment are past cache.add() together,
\* whatever is redelivered and whoever crashes.
OneBuildAtATime ==
  slow = 0 => \A w, x \in Workers, d \in Deps :
                Executing(w, d) /\ Executing(x, d) => w = x

\* Without a fault, an unfinished deployment always has somebody who will carry
\* it on: its creator about to publish, a queued attempt, or an execution that
\* has not reached its finally block.  The reaper is not needed.
UnfinishedHasOwner ==
  faults = 0 /\ slow = 0 =>
    \A d \in Deps : row[d] \in {"PENDING", "BUILDING"} =>
      \/ \E h \in Handlers : req[h].pc = "enqueue" /\ req[h].dep = d
      \/ \E m \in msgs : m.dep = d
      \/ \E w \in Workers : Executing(w, d) /\ task[w].pc \notin Releasing

\* While no build outlives its lock, a RUNNING deployment loses its environment
\* only to a call made for another deployment of its version (environments are
\* keyed by model_version_id, not by deployment).
RunningLosesEnvToOthersOnly ==
  slow = 0 => \A d \in Deps :
    row[d] = "RUNNING" /\ ~env[VersionOf[d]] => envBy[VersionOf[d]] \in Deps \ {d}

\* What clients observe is DeploymentLifecycle: RUNNING is entered from BUILDING
\* only, a deleted row stays deleted, BUILDING is entered once.
Lifecycle == INSTANCE DeploymentLifecycle
  WITH Deps <- Deps, Versions <- Versions, VersionOf <- VersionOf, row <- row
LifecycleSpec == Lifecycle!Spec

\* _mark_failed's comment (REL-06): failure clean-up never overwrites a terminal
\* state, RUNNING or STOPPED.
CleanupKeepsTerminal ==
  [][\A w \in Workers :
       MarkSave(w) /\ row[task[w].dep] \in {"RUNNING", "STOPPED"} => row' = row]_vars

\* A fault-free system settles every deployment it accepted.
SettlesWithoutFaults ==
  \A d \in Deps : row[d] \in {"PENDING", "BUILDING"} ~>
                    row[d] \notin {"PENDING", "BUILDING"} \/ faults > 0

\* Whatever crashes, BUILDING does not last once the reaper keeps being run.
BuildingResolves == \A d \in Deps : row[d] = "BUILDING" ~> row[d] # "BUILDING"

\* An execution does not keep the build lock for ever, not even one that died.
LockIsReleased ==
  \A d \in Deps, w \in Workers : lock[d] = w ~> lock[d] # w
==============================================================================
