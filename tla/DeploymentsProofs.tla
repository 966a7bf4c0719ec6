--------------------------- MODULE DeploymentsProofs ---------------------------
(***************************************************************************)
(* Theorems about module Deployments, for every set of deployments,        *)
(* versions, request threads and workers and every bound.                  *)
(***************************************************************************)
EXTENDS Deployments, TLAPS

(***************************************************************************)
(* Which actions write a row.                                              *)
(***************************************************************************)
LEMMA RowWriters ==
  ASSUME [Next]_vars
  PROVE  \/ UNCHANGED row
         \/ \E h \in Handlers : CreateInsert(h) \/ StopSave(h) \/ DeleteRow(h)
         \/ \E w \in Workers : BeginBuild(w) \/ Commit(w) \/ MarkSave(w)
         \/ \E d \in Deps : ReapSave(d)
<1>1. CASE UNCHANGED vars
  BY <1>1 DEF vars
<1>2. ASSUME NEW h \in Handlers, NewRequest(h) PROVE UNCHANGED row
  BY <1>2 DEF NewRequest, CreateCheck, StopRead, DeleteRead, reqOnly
<1>3. ASSUME NEW h \in Handlers, RequestStep(h)
      PROVE  UNCHANGED row \/ CreateInsert(h) \/ StopSave(h) \/ DeleteRow(h)
  BY <1>3 DEF RequestStep, CreateConflict, CreateEnqueue, StopSaveGone, Teardown, reqOnly
<1>4. ASSUME NEW w \in Workers, NEW m \in Messages, Deliver(w, m) PROVE UNCHANGED row
  BY <1>4 DEF Deliver, AcquireLock, AlreadyRunning
<1>5. ASSUME NEW w \in Workers, TaskStep(w)
      PROVE  UNCHANGED row \/ BeginBuild(w) \/ Commit(w) \/ MarkSave(w)
  BY <1>5 DEF TaskStep, BeginSkip, BeginRefused, RunnerReady, RunnerFails, CommitCancelled,
              CommitRefused, Retry, RetryExhausted, MarkRead, UnlockCheck, UnlockDelete,
              taskOnly
<1>6. CASE Reaper
  BY <1>6 DEF Reaper, ReapQuery, ReapAborts
<1>7. CASE Failure
  BY <1>7 DEF Failure, WorkerCrash, Redeliver, RetryUnpublished, RequestLost, LockTimeout,
              LockOutlived
<1> QED BY <1>1, <1>2, <1>3, <1>4, <1>5, <1>6, <1>7 DEF Next

(***************************************************************************)
(* Typing.  The lemmas say what the assignments that the actions share     *)
(* preserve.                                                               *)
(***************************************************************************)

\* An execution that goes on to a step of the task stays well typed.
LEMMA TaskAtType ==
  ASSUME TypeOK, NEW w \in Workers, task[w].pc \in TaskSteps,
         NEW step \in TaskSteps, TaskAt(w, step)
  PROVE  task' \in [Workers -> Tasks]
<1>1. task[w] \in [pc : TaskSteps, dep : Deps, retries : 0 .. MaxRetries, seen : {None}]
  BY DEF TypeOK, Tasks, IdleTask, TaskSteps, Building, Releasing
<1>2. [task[w] EXCEPT !.pc = step] \in Tasks
  BY <1>1 DEF Tasks
<1> QED BY <1>2 DEF TaskAt, TypeOK

\* An execution that ends leaves its worker idle.
LEMMA TaskEndsType ==
  ASSUME TypeOK, NEW w \in Workers, TaskEnds(w)
  PROVE  task' \in [Workers -> Tasks]
BY DEF TaskEnds, TypeOK, Tasks

\* A request that goes on stays well typed.
LEMMA ReqAtType ==
  ASSUME TypeOK, NEW h \in Handlers, req[h].pc # "idle",
         NEW step \in {"insert", "enqueue", "save", "teardown", "delete"},
         ReqAt(h, step)
  PROVE  req' \in [Handlers -> Requests]
<1>1. req[h] \in Requests /\ req[h] # IdleReq
  BY DEF TypeOK, IdleReq
<1>2. [req[h] EXCEPT !.pc = step] \in Requests
  BY <1>1 DEF Requests
<1> QED BY <1>2 DEF ReqAt, TypeOK

\* A request that ends leaves its thread idle.
LEMMA ReqEndsType ==
  ASSUME TypeOK, NEW h \in Handlers, ReqEnds(h)
  PROVE  req' \in [Handlers -> Requests]
BY DEF ReqEnds, TypeOK, Requests

\* A step of the task that is running has a deployment and an attempt number.
LEMMA RunningTask ==
  ASSUME TypeOK, NEW w \in Workers, task[w].pc # "idle"
  PROVE  /\ task[w].dep \in Deps
         /\ task[w].retries \in 0 .. MaxRetries
         /\ MessageOf(w) \in Messages
BY DEF TypeOK, Tasks, IdleTask, MessageOf, Messages

\* A request that is being served has a deployment.
LEMMA ServedRequest ==
  ASSUME TypeOK, NEW h \in Handlers, req[h].pc # "idle"
  PROVE  req[h].dep \in Deps
BY DEF TypeOK, Requests, IdleReq

\* The runner's answer changes the environment of a version of the model.
LEMMA SetEnvType ==
  ASSUME TypeOK, NEW d \in Deps, NEW usable \in BOOLEAN, SetEnv(d, usable)
  PROVE  env' \in [Versions -> BOOLEAN] /\ envBy' \in [Versions -> Deps \cup {None}]
BY VersionOfAssumption DEF SetEnv, TypeOK

\* A fault stays within its bound.
LEMMA FaultType ==
  ASSUME TypeOK, Fault
  PROVE  faults' \in 0 .. MaxFaults
BY BoundsAssumption DEF Fault, TypeOK

\* Every reachable state of the control plane is well typed.
THEOREM TypeCorrect == Spec => []TypeOK
<1>1. Init => TypeOK
  BY BoundsAssumption DEF Init, TypeOK, Statuses, Tasks, Requests
<1>2. TypeOK /\ [Next]_vars => TypeOK'
  <2> SUFFICES ASSUME TypeOK, [Next]_vars PROVE TypeOK'
    OBVIOUS
  <2> USE DEF Statuses, Existing, Active, TaskSteps, Building, Releasing
  <2>1. ASSUME NEW h \in Handlers, NewRequest(h) PROVE TypeOK'
    <3>1. PICK d \in Deps : CreateCheck(h, d) \/ StopRead(h, d) \/ DeleteRead(h, d)
      BY <2>1 DEF NewRequest
    <3>2. \A pc \in {"insert", "save", "delete"}, drop \in BOOLEAN :
             [pc |-> pc, dep |-> d, drop |-> drop] \in Requests
      BY DEF Requests
    <3>3. req' \in [Handlers -> Requests]
      BY <3>1, <3>2 DEF CreateCheck, StopRead, DeleteRead, TypeOK
    <3> QED BY <3>1, <3>3 DEF CreateCheck, StopRead, DeleteRead, reqOnly, TypeOK
  <2>2. ASSUME NEW h \in Handlers, RequestStep(h) PROVE TypeOK'
    <3>1. req[h].pc # "idle"
      BY <2>2 DEF RequestStep, CreateInsert, CreateConflict, CreateEnqueue,
                  StopSave, StopSaveGone, Teardown, DeleteRow
    <3>2. req[h].dep \in Deps
      BY <3>1, ServedRequest
    <3>3. req' \in [Handlers -> Requests]
      BY <2>2, <3>1, ReqAtType, ReqEndsType
         DEF RequestStep, CreateInsert, CreateConflict, CreateEnqueue,
             StopSave, StopSaveGone, Teardown, DeleteRow, AfterTeardown
    <3>4. CASE CreateInsert(h)
      BY <3>2, <3>3, <3>4 DEF CreateInsert, SetRow, TypeOK
    <3>5. CASE CreateConflict(h) \/ StopSaveGone(h)
      BY <3>3, <3>5 DEF CreateConflict, StopSaveGone, reqOnly, TypeOK
    <3>6. CASE CreateEnqueue(h)
      <4>1. [dep |-> req[h].dep, retries |-> 0] \in Messages
        BY <3>2, MaxRetriesAssumption DEF Messages
      <4> QED BY <3>3, <3>6, <4>1 DEF CreateEnqueue, TypeOK
    <3>7. CASE StopSave(h)
      BY <3>2, <3>3, <3>7 DEF StopSave, SetRow, TypeOK
    <3>8. CASE Teardown(h)
      <4>1. env' \in [Versions -> BOOLEAN] /\ envBy' \in [Versions -> Deps \cup {None}]
        BY <3>2, <3>8, SetEnvType DEF Teardown, TypeOK
      <4> QED BY <3>3, <3>8, <4>1 DEF Teardown, TypeOK
    <3>9. CASE DeleteRow(h)
      BY <3>2, <3>3, <3>9 DEF DeleteRow, SetRow, TypeOK
    <3> QED BY <2>2, <3>4, <3>5, <3>6, <3>7, <3>8, <3>9 DEF RequestStep
  <2>3. ASSUME NEW w \in Workers, NEW m \in Messages, Deliver(w, m) PROVE TypeOK'
    BY <2>3 DEF Deliver, AcquireLock, AlreadyRunning, Deliverable, Messages, Tasks, TypeOK
  <2>4. ASSUME NEW w \in Workers, TaskStep(w) PROVE TypeOK'
    <3>1. task[w].pc # "idle"
      BY <2>4 DEF TaskStep, BeginSkip, BeginBuild, BeginRefused, RunnerReady, RunnerFails,
                  Commit, CommitCancelled, CommitRefused, Retry, RetryExhausted,
                  MarkRead, MarkSave, UnlockCheck, UnlockDelete
    <3>2. task[w].dep \in Deps /\ task[w].retries \in 0 .. MaxRetries
      BY <3>1, RunningTask
    <3>3. CASE BeginSkip(w) \/ BeginRefused(w) \/ CommitCancelled(w) \/ CommitRefused(w)
               \/ RetryExhausted(w)
      BY <3>1, <3>3, TaskAtType
         DEF BeginSkip, BeginRefused, CommitCancelled, CommitRefused, RetryExhausted,
             taskOnly, TypeOK
    <3>4. CASE BeginBuild(w) \/ Commit(w)
      <4>1. task' \in [Workers -> Tasks]
        BY <3>1, <3>4, TaskAtType DEF BeginBuild, Commit
      <4> QED BY <3>2, <3>4, <4>1 DEF BeginBuild, Commit, SetRow, TypeOK
    <3>5. CASE RunnerReady(w) \/ RunnerFails(w)
      <4>1. task' \in [Workers -> Tasks]
        BY <3>1, <3>5, TaskAtType DEF RunnerReady, RunnerFails
      <4>2. env' \in [Versions -> BOOLEAN] /\ envBy' \in [Versions -> Deps \cup {None}]
        BY <3>2, <3>5, SetEnvType DEF RunnerReady, RunnerFails, TypeOK
      <4> QED BY <3>5, <4>1, <4>2 DEF RunnerReady, RunnerFails, TypeOK
    <3>6. CASE Retry(w)
      <4>1. task' \in [Workers -> Tasks]
        BY <3>1, <3>6, TaskAtType DEF Retry
      <4>2. [dep |-> task[w].dep, retries |-> task[w].retries + 1] \in Messages
        BY <3>2, <3>6, MaxRetriesAssumption DEF Retry, Messages
      <4> QED BY <3>6, <4>1, <4>2 DEF Retry, TypeOK
    <3>7. CASE MarkRead(w)
      <4>1. CASE row[task[w].dep] = "GONE"
        BY <3>1, <3>7, <4>1, TaskAtType DEF MarkRead, taskOnly, TypeOK
      <4>2. CASE row[task[w].dep] # "GONE"
        <5>1. task[w] \in Tasks /\ task[w].pc = "mark_read"
          BY <3>7 DEF MarkRead, TypeOK
        <5>2. row[task[w].dep] \in Statuses
          BY <3>2 DEF TypeOK
        <5> QED BY <3>7, <4>2, <5>1, <5>2 DEF MarkRead, taskOnly, TypeOK, Tasks, IdleTask
      <4> QED BY <4>1, <4>2
    <3>8. CASE MarkSave(w)
      <4>1. /\ task[w] \in [pc : {"mark_save"}, dep : Deps, retries : 0 .. MaxRetries,
                            seen : Statuses]
        BY <3>8 DEF MarkSave, TypeOK, Tasks, IdleTask
      <4>2. task' \in [Workers -> Tasks]
        BY <3>8, <4>1 DEF MarkSave, TypeOK, Tasks
      <4>3. row' \in [Deps -> Statuses]
        BY <3>2, <3>8, <4>1 DEF MarkSave, MarkedStatus, SetRow, TypeOK
      <4> QED BY <3>8, <4>2, <4>3 DEF MarkSave, TypeOK
    <3>9. CASE UnlockCheck(w)
      BY <3>1, <3>9, TaskAtType, TaskEndsType DEF UnlockCheck, taskOnly, TypeOK
    <3>10. CASE UnlockDelete(w)
      BY <3>2, <3>10, TaskEndsType DEF UnlockDelete, TypeOK
    <3> QED BY <2>4, <3>3, <3>4, <3>5, <3>6, <3>7, <3>8, <3>9, <3>10 DEF TaskStep
  <2>5. CASE Reaper
    BY <2>5 DEF Reaper, ReapQuery, ReapSave, ReapAborts, SetRow, TypeOK
  <2>6. CASE Failure
    <3>1. ASSUME NEW w \in Workers, WorkerCrash(w) \/ Redeliver(w) PROVE TypeOK'
      BY <3>1, RunningTask, TaskEndsType, FaultType DEF WorkerCrash, Redeliver, TypeOK
    <3>2. ASSUME NEW w \in Workers, RetryUnpublished(w) PROVE TypeOK'
      <4>1. task' \in [Workers -> Tasks]
        BY <3>2, TaskAtType DEF RetryUnpublished
      <4> QED BY <3>2, <4>1, FaultType DEF RetryUnpublished, TypeOK
    <3>3. ASSUME NEW h \in Handlers, RequestLost(h) PROVE TypeOK'
      BY <3>3, ReqEndsType, FaultType DEF RequestLost, TypeOK
    <3>4. ASSUME NEW d \in Deps, LockTimeout(d) PROVE TypeOK'
      BY <3>4 DEF LockTimeout, TypeOK
    <3>5. ASSUME NEW d \in Deps, LockOutlived(d) PROVE TypeOK'
      BY <3>5, BoundsAssumption DEF LockOutlived, TypeOK
    <3> QED BY <2>6, <3>1, <3>2, <3>3, <3>4, <3>5 DEF Failure
  <2>7. CASE UNCHANGED vars
    BY <2>7 DEF vars, TypeOK
  <2> QED BY <2>1, <2>2, <2>3, <2>4, <2>5, <2>6, <2>7 DEF Next
<1> QED BY <1>1, <1>2, PTL DEF Spec
------------------------------------------------------------------------------
(***************************************************************************)
(* The build lock.  OneBuildAtATime is not inductive: a second execution   *)
(* is kept out by the Redis key, so the invariant says who holds the key.  *)
(***************************************************************************)
LockHeld ==
  slow = 0 => \A w \in Workers : task[w].pc # "idle" => lock[task[w].dep] = w

\* A step that leaves the lock, the executions and the slow count alone.
LEMMA LockHeldFrame ==
  ASSUME LockHeld, UNCHANGED <<lock, task, slow>>
  PROVE  LockHeld'
BY DEF LockHeld

\* A step after which every execution that goes on is on the deployment it was on.
Continues ==
  \A x \in Workers :
    task'[x].pc # "idle" => task[x].pc # "idle" /\ task'[x].dep = task[x].dep

LEMMA LockHeldContinues ==
  ASSUME LockHeld, Continues, UNCHANGED <<lock, slow>>
  PROVE  LockHeld'
BY DEF LockHeld, Continues

\* An execution that moves to another step continues, and so do all the others.
LEMMA TaskAtContinues ==
  ASSUME TypeOK, NEW w \in Workers, task[w].pc # "idle", NEW step, TaskAt(w, step)
  PROVE  Continues
BY DEF TaskAt, Continues, TypeOK

\* When an execution ends, the others continue.
LEMMA TaskEndsContinues ==
  ASSUME TypeOK, NEW w \in Workers, TaskEnds(w)
  PROVE  Continues
BY DEF TaskEnds, IdleTask, Continues, TypeOK

\* The read and the save of _mark_failed, which also set what was seen.
LEMMA MarkContinues ==
  ASSUME TypeOK, NEW w \in Workers, MarkRead(w) \/ MarkSave(w)
  PROVE  Continues
<1>1. task[w].pc # "idle"
  BY DEF MarkRead, MarkSave
<1>2. \/ TaskAt(w, "unlock")
      \/ task' = [task EXCEPT ![w].pc = "mark_save", ![w].seen = row[task[w].dep]]
      \/ task' = [task EXCEPT ![w].pc = "unlock", ![w].seen = None]
  BY DEF MarkRead, MarkSave
<1>3. ASSUME NEW step, NEW seen, task' = [task EXCEPT ![w].pc = step, ![w].seen = seen]
      PROVE  Continues
  BY <1>1, <1>3 DEF Continues, TypeOK
<1> QED BY <1>1, <1>2, <1>3, TaskAtContinues

\* The holder of the key is the one execution of its deployment.
THEOREM LockHeldCorrect == Spec => []LockHeld
<1>1. Init => LockHeld
  BY DEF Init, LockHeld, IdleTask
<1>2. TypeOK /\ LockHeld /\ [Next]_vars => LockHeld'
  <2> SUFFICES ASSUME TypeOK, LockHeld, [Next]_vars PROVE LockHeld'
    OBVIOUS
  <2>1. ASSUME NEW h \in Handlers, NewRequest(h) \/ RequestStep(h) PROVE LockHeld'
    <3>1. UNCHANGED <<lock, task, slow>>
      BY <2>1 DEF NewRequest, CreateCheck, StopRead, DeleteRead, reqOnly, RequestStep,
                  CreateInsert, CreateConflict, CreateEnqueue, StopSave, StopSaveGone,
                  Teardown, DeleteRow
    <3> QED BY <3>1, LockHeldFrame
  <2>2. ASSUME NEW w \in Workers, NEW m \in Messages, Deliver(w, m) PROVE LockHeld'
    <3>1. CASE AcquireLock(w, m)
      BY <3>1, NoneAssumption DEF AcquireLock, Deliverable, LockHeld, TypeOK, Messages
    <3>2. CASE AlreadyRunning(w, m)
      BY <3>2, LockHeldFrame DEF AlreadyRunning
    <3> QED BY <2>2, <3>1, <3>2 DEF Deliver
  <2>3. ASSUME NEW w \in Workers, TaskStep(w) PROVE LockHeld'
    <3>1. CASE UnlockDelete(w)
      <4>1. task[w].dep \in Deps
        BY <3>1, RunningTask DEF UnlockDelete
      <4>2. ASSUME slow' = 0, NEW x \in Workers, task'[x].pc # "idle"
            PROVE  lock'[task'[x].dep] = x
        <5>1. x # w /\ task'[x] = task[x]
          BY <3>1, <4>2 DEF UnlockDelete, TaskEnds, IdleTask, TypeOK
        <5>2. lock[task[x].dep] = x /\ lock[task[w].dep] = w
          BY <3>1, <4>2, <5>1 DEF UnlockDelete, LockHeld
        <5> QED BY <3>1, <4>1, <5>1, <5>2 DEF UnlockDelete, TypeOK
      <4> QED BY <4>2 DEF LockHeld
    <3>2. CASE ~UnlockDelete(w)
      <4>1. task[w].pc # "idle" /\ UNCHANGED <<lock, slow>>
        BY <2>3, <3>2
           DEF TaskStep, BeginSkip, BeginBuild, BeginRefused, RunnerReady, RunnerFails,
               Commit, CommitCancelled, CommitRefused, Retry, RetryExhausted, MarkRead,
               MarkSave, UnlockCheck, taskOnly
      <4>2. Continues
        <5>1. CASE MarkRead(w)
          BY <5>1, MarkContinues
        <5>2. CASE MarkSave(w)
          BY <5>2, MarkContinues
        <5>3. CASE UnlockCheck(w)
          BY <4>1, <5>3, TaskAtContinues, TaskEndsContinues DEF UnlockCheck
        <5>4. CASE ~(MarkRead(w) \/ MarkSave(w) \/ UnlockCheck(w))
          BY <2>3, <3>2, <4>1, <5>4, TaskAtContinues, TaskEndsContinues
             DEF TaskStep, BeginSkip, BeginBuild, BeginRefused, RunnerReady, RunnerFails,
                 Commit, CommitCancelled, CommitRefused, Retry, RetryExhausted
        <5> QED BY <5>1, <5>2, <5>3, <5>4
      <4> QED BY <4>1, <4>2, LockHeldContinues
    <3> QED BY <3>1, <3>2
  <2>4. CASE Reaper
    BY <2>4, LockHeldFrame DEF Reaper, ReapQuery, ReapSave, ReapAborts
  <2>5. CASE Failure
    <3>1. ASSUME NEW w \in Workers, WorkerCrash(w) \/ RetryUnpublished(w) PROVE LockHeld'
      <4>1. task[w].pc # "idle" /\ UNCHANGED <<lock, slow>>
        BY <3>1 DEF WorkerCrash, RetryUnpublished
      <4>2. Continues
        BY <3>1, <4>1, TaskAtContinues, TaskEndsContinues DEF WorkerCrash, RetryUnpublished
      <4> QED BY <4>1, <4>2, LockHeldContinues
    <3>2. ASSUME NEW w \in Workers, Redeliver(w) PROVE LockHeld'
      BY <3>2, LockHeldFrame DEF Redeliver
    <3>3. ASSUME NEW h \in Handlers, RequestLost(h) PROVE LockHeld'
      BY <3>3, LockHeldFrame DEF RequestLost
    <3>4. ASSUME NEW d \in Deps, LockTimeout(d) PROVE LockHeld'
      BY <3>4 DEF LockTimeout, Held, Executing, LockHeld, TypeOK
    <3>5. ASSUME NEW d \in Deps, LockOutlived(d) PROVE LockHeld'
      BY <3>5 DEF LockOutlived, LockHeld, TypeOK
    <3> QED BY <2>5, <3>1, <3>2, <3>3, <3>4, <3>5 DEF Failure
  <2>6. CASE UNCHANGED vars
    BY <2>6, LockHeldFrame DEF vars
  <2> QED BY <2>1, <2>2, <2>3, <2>4, <2>5, <2>6 DEF Next
<1> QED BY <1>1, <1>2, TypeCorrect, PTL DEF Spec

\* Whatever is redelivered and whoever crashes, build_deployment never runs twice
\* at a time for one deployment, as long as no build outlives the key's timeout.
THEOREM BuildMutualExclusion == Spec => []OneBuildAtATime
<1>1. LockHeld => OneBuildAtATime
  BY DEF LockHeld, OneBuildAtATime, Executing
<1> QED BY <1>1, LockHeldCorrect, PTL
------------------------------------------------------------------------------
(***************************************************************************)
(* The unique index: AtMostOneActive is inductive, given the types.        *)
(***************************************************************************)

\* Writing a status keeps the index satisfied when the row was active already, or
\* the new status is not, or no other row is active.
LEMMA SetRowKeepsIndex ==
  ASSUME TypeOK, AtMostOneActive, NEW d \in Deps, NEW status, SetRow(d, status),
         status \in Active => row[d] \in Active \/ ~Collides(d)
  PROVE  AtMostOneActive'
BY DEF AtMostOneActive, SetRow, Collides, TypeOK

\* However handlers, executions and the reaper interleave, crash and are repeated,
\* no model version ever has two active deployments (REL-07).
THEOREM UniqueActive == Spec => []AtMostOneActive
<1>1. Init => AtMostOneActive
  BY DEF Init, AtMostOneActive, Active
<1>2. TypeOK /\ AtMostOneActive /\ [Next]_vars => AtMostOneActive'
  <2> SUFFICES ASSUME TypeOK, AtMostOneActive, [Next]_vars PROVE AtMostOneActive'
    OBVIOUS
  <2>1. CASE UNCHANGED row
    BY <2>1 DEF AtMostOneActive
  <2>2. ASSUME NEW h \in Handlers, CreateInsert(h) \/ StopSave(h) \/ DeleteRow(h)
        PROVE  AtMostOneActive'
    <3>1. req[h].dep \in Deps
      BY <2>2, ServedRequest DEF CreateInsert, StopSave, DeleteRow
    <3> QED BY <2>2, <3>1, SetRowKeepsIndex DEF CreateInsert, StopSave, DeleteRow, Active
  <2>3. ASSUME NEW w \in Workers, BeginBuild(w) \/ Commit(w) PROVE AtMostOneActive'
    <3>1. task[w].dep \in Deps
      BY <2>3, RunningTask DEF BeginBuild, Commit
    <3> QED BY <2>3, <3>1, SetRowKeepsIndex DEF BeginBuild, Commit, Active
  <2>4. ASSUME NEW w \in Workers, MarkSave(w) PROVE AtMostOneActive'
    <3>1. task[w].dep \in Deps
      BY <2>4, RunningTask DEF MarkSave
    <3> QED BY <2>1, <2>4, <3>1, SetRowKeepsIndex DEF MarkSave
  <2>5. ASSUME NEW d \in Deps, ReapSave(d) PROVE AtMostOneActive'
    BY <2>5, SetRowKeepsIndex DEF ReapSave, Active
  <2>6. \/ UNCHANGED row
        \/ \E h \in Handlers : CreateInsert(h) \/ StopSave(h) \/ DeleteRow(h)
        \/ \E w \in Workers : BeginBuild(w) \/ Commit(w) \/ MarkSave(w)
        \/ \E d \in Deps : ReapSave(d)
    BY RowWriters
  <2> QED BY <2>1, <2>2, <2>3, <2>4, <2>5, <2>6
<1> QED BY <1>1, <1>2, TypeCorrect, PTL DEF Spec
------------------------------------------------------------------------------
(***************************************************************************)
(* What one step may do to the requests, the executions and the messages,  *)
(* whichever action it is.  The invariants below look no further.          *)
(***************************************************************************)
Carrying == {"runner", "commit", "retry", "mark_read", "mark_save"}

\* A request begins, goes on, or ends.
ReqBegins(h) ==
  /\ req[h].pc = "idle" /\ UNCHANGED row
  /\ \/ /\ req'[h].pc = "insert"
        /\ row[req'[h].dep] = "ABSENT"
        /\ \A g \in Handlers : req[g].dep # req'[h].dep
     \/ /\ req'[h].pc \in {"save", "delete"}
        /\ row[req'[h].dep] \in Existing

ReqGoesOn(h) ==
  /\ req[h].pc # "idle" /\ req'[h].dep = req[h].dep
  /\ \/ req'[h].pc = "enqueue" /\ CreateInsert(h)
     \/ req'[h].pc = "teardown" /\ StopSave(h)
     \/ req'[h].pc = "delete" /\ Teardown(h)

ReqMoves(h) ==
  /\ \A g \in Handlers \ {h} : req'[g] = req[g]
  /\ ReqBegins(h) \/ ReqGoesOn(h) \/ req'[h] = IdleReq

LEMMA ReqAtEffect ==
  ASSUME TypeOK, NEW h \in Handlers, req[h].pc # "idle", NEW step, ReqAt(h, step)
  PROVE  /\ req'[h].pc = step /\ req'[h].dep = req[h].dep
         /\ \A g \in Handlers \ {h} : req'[g] = req[g]
<1>1. PICK q \in Requests : q = req[h]
  BY DEF TypeOK
<1>2. q \in [pc : {"insert", "enqueue", "save", "teardown", "delete"}, dep : Deps,
              drop : BOOLEAN]
  BY <1>1 DEF Requests, IdleReq
<1>3. req' = [req EXCEPT ![h] = [q EXCEPT !.pc = step]]
  BY <1>1 DEF ReqAt
<1> QED BY <1>1, <1>2, <1>3 DEF TypeOK

LEMMA RequestEffect ==
  ASSUME TypeOK, [Next]_vars
  PROVE  UNCHANGED req \/ \E h \in Handlers : ReqMoves(h)
<1>1. CASE UNCHANGED vars
  BY <1>1 DEF vars
<1>2. ASSUME NEW h \in Handlers, NEW d \in Deps, CreateCheck(h, d) PROVE ReqMoves(h)
  BY <1>2 DEF CreateCheck, reqOnly, ReqMoves, ReqBegins, TypeOK
<1>3. ASSUME NEW h \in Handlers, NEW d \in Deps, StopRead(h, d) \/ DeleteRead(h, d)
      PROVE  ReqMoves(h)
  BY <1>3 DEF StopRead, DeleteRead, reqOnly, ReqMoves, ReqBegins, Active, Existing, TypeOK
<1>4. ASSUME NEW h \in Handlers, CreateInsert(h) \/ StopSave(h) PROVE ReqMoves(h)
  BY <1>4, ReqAtEffect DEF CreateInsert, StopSave, ReqMoves, ReqGoesOn
<1>5. ASSUME NEW h \in Handlers,
             CreateConflict(h) \/ CreateEnqueue(h) \/ StopSaveGone(h) \/ DeleteRow(h)
               \/ RequestLost(h)
      PROVE  ReqMoves(h)
  BY <1>5 DEF CreateConflict, CreateEnqueue, StopSaveGone, DeleteRow, RequestLost, ReqEnds,
              ReqMoves, TypeOK
<1>6. ASSUME NEW h \in Handlers, Teardown(h) PROVE ReqMoves(h)
  <2>1. CASE ReqEnds(h)
    BY <2>1 DEF ReqEnds, ReqMoves, TypeOK
  <2>2. CASE ReqAt(h, "delete")
    BY <1>6, <2>2, ReqAtEffect DEF Teardown, ReqMoves, ReqGoesOn
  <2> QED BY <1>6, <2>1, <2>2 DEF Teardown, AfterTeardown
<1>7. ASSUME NEW w \in Workers, NEW m \in Messages, Deliver(w, m) PROVE UNCHANGED req
  BY <1>7 DEF Deliver, AcquireLock, AlreadyRunning
<1>8. ASSUME NEW w \in Workers, TaskStep(w) PROVE UNCHANGED req
  BY <1>8 DEF TaskStep, BeginSkip, BeginBuild, BeginRefused, RunnerReady, RunnerFails, Commit,
              CommitCancelled, CommitRefused, Retry, RetryExhausted, MarkRead, MarkSave,
              UnlockCheck, UnlockDelete, taskOnly
<1>9. CASE Reaper
  BY <1>9 DEF Reaper, ReapQuery, ReapSave, ReapAborts
<1>10. CASE Failure
  BY <1>5, <1>10 DEF Failure, WorkerCrash, Redeliver, RetryUnpublished, LockTimeout,
                     LockOutlived
<1> QED BY <1>1, <1>2, <1>3, <1>4, <1>5, <1>6, <1>7, <1>8, <1>9, <1>10
       DEF Next, NewRequest, RequestStep

\* An execution is delivered, goes on, or ends.
Delivered(w) ==
  /\ task[w].pc = "idle" /\ task'[w].pc = "begin"
  /\ \E m \in msgs : AcquireLock(w, m) /\ task'[w].dep = m.dep

TaskGoesOn(w) ==
  /\ task[w].pc # "idle" /\ task'[w].dep = task[w].dep /\ task'[w].retries = task[w].retries
  /\ task'[w].pc \in Carrying =>
       task[w].pc \in Carrying \/ row'[task[w].dep] \in {"BUILDING", "FAILED"}
  /\ task'[w].pc = "commit" => RunnerReady(w)
  /\ task'[w].pc = "mark_save" =>
       /\ task[w].pc = "mark_read" /\ UNCHANGED row
       /\ task'[w].seen = row[task[w].dep] /\ row[task[w].dep] # "GONE"
  /\ task[w].pc \in Releasing => task'[w].pc \in Releasing

TaskMoves(w) ==
  /\ \A x \in Workers \ {w} : task'[x] = task[x]
  /\ Delivered(w) \/ TaskGoesOn(w) \/ task'[w] = IdleTask

\* A step of the task that only moves it to another step.
LEMMA TaskAtEffect ==
  ASSUME TypeOK, NEW w \in Workers, task[w].pc # "idle", NEW step, TaskAt(w, step),
         step \in Carrying =>
           task[w].pc \in Carrying \/ row'[task[w].dep] \in {"BUILDING", "FAILED"},
         step = "commit" => RunnerReady(w),
         step # "mark_save",
         task[w].pc \in Releasing => step \in Releasing
  PROVE  TaskMoves(w)
BY DEF TaskAt, TaskMoves, TaskGoesOn, TypeOK

LEMMA TaskEndsEffect ==
  ASSUME TypeOK, NEW w \in Workers, TaskEnds(w)
  PROVE  TaskMoves(w)
BY DEF TaskEnds, TaskMoves, TypeOK

LEMMA TaskStepEffect ==
  ASSUME TypeOK, NEW w \in Workers, TaskStep(w)
  PROVE  TaskMoves(w)
<1> USE DEF Carrying, Releasing
<1>0. task[w].pc # "idle"
  BY DEF TaskStep, BeginSkip, BeginBuild, BeginRefused, RunnerReady, RunnerFails, Commit,
         CommitCancelled, CommitRefused, Retry, RetryExhausted, MarkRead, MarkSave,
         UnlockCheck, UnlockDelete
<1>1. task[w].dep \in Deps
  BY <1>0, RunningTask
<1>2. CASE BeginSkip(w) \/ BeginRefused(w)
  BY <1>0, <1>1, <1>2, TaskAtEffect DEF BeginSkip, BeginRefused, taskOnly
<1>3. CASE BeginBuild(w)
  <2>1. row'[task[w].dep] = "BUILDING"
    BY <1>1, <1>3 DEF BeginBuild, SetRow, TypeOK
  <2> QED BY <1>0, <1>3, <2>1, TaskAtEffect DEF BeginBuild
<1>4. CASE RunnerReady(w) \/ RunnerFails(w)
  BY <1>0, <1>4, TaskAtEffect DEF RunnerReady, RunnerFails
<1>5. CASE Commit(w) \/ CommitCancelled(w) \/ CommitRefused(w)
  BY <1>0, <1>5, TaskAtEffect DEF Commit, CommitCancelled, CommitRefused
<1>6. CASE Retry(w) \/ RetryExhausted(w)
  BY <1>0, <1>6, TaskAtEffect DEF Retry, RetryExhausted
<1>7. CASE MarkRead(w)
  <2>1. CASE row[task[w].dep] = "GONE"
    BY <1>0, <1>7, <2>1, TaskAtEffect DEF MarkRead
  <2>2. CASE row[task[w].dep] # "GONE"
    <3>1. task' = [task EXCEPT ![w] = [task[w] EXCEPT !.pc = "mark_save",
                                                      !.seen = row[task[w].dep]]]
      BY <1>7, <2>2 DEF MarkRead
    <3>2. PICK t \in Tasks : t = task[w]
      BY DEF TypeOK
    <3>3. t \in [pc : TaskSteps, dep : Deps, retries : 0 .. MaxRetries, seen : {None}]
      BY <1>7, <3>2 DEF Tasks, IdleTask, MarkRead
    <3>4. /\ task'[w].pc = "mark_save" /\ task'[w].dep = task[w].dep
          /\ task'[w].retries = task[w].retries /\ task'[w].seen = row[task[w].dep]
      BY <3>1, <3>2, <3>3 DEF TypeOK
    <3> QED BY <1>7, <2>2, <3>1, <3>4 DEF MarkRead, taskOnly, TaskMoves, TaskGoesOn, TypeOK
  <2> QED BY <2>1, <2>2
<1>8. CASE MarkSave(w)
  <2>1. task' = [task EXCEPT ![w] = [task[w] EXCEPT !.pc = "unlock", !.seen = None]]
    BY <1>8 DEF MarkSave
  <2>2. PICK t \in Tasks : t = task[w]
    BY DEF TypeOK
  <2>3. t \in [pc : {"mark_save"}, dep : Deps, retries : 0 .. MaxRetries, seen : Statuses]
    BY <1>8, <2>2 DEF Tasks, IdleTask, MarkSave, TaskSteps, Building
  <2>4. /\ task'[w].pc = "unlock" /\ task'[w].dep = task[w].dep
        /\ task'[w].retries = task[w].retries
    BY <2>1, <2>2, <2>3 DEF TypeOK
  <2> QED BY <1>0, <2>1, <2>4 DEF TaskMoves, TaskGoesOn, TypeOK
<1>9. CASE UnlockCheck(w)
  BY <1>0, <1>9, TaskAtEffect, TaskEndsEffect DEF UnlockCheck
<1>10. CASE UnlockDelete(w)
  BY <1>10, TaskEndsEffect DEF UnlockDelete
<1> QED BY <1>2, <1>3, <1>4, <1>5, <1>6, <1>7, <1>8, <1>9, <1>10 DEF TaskStep

LEMMA TaskEffect ==
  ASSUME TypeOK, [Next]_vars
  PROVE  UNCHANGED task \/ \E w \in Workers : TaskMoves(w)
<1>1. CASE UNCHANGED vars
  BY <1>1 DEF vars
<1>2. ASSUME NEW h \in Handlers, NewRequest(h) \/ RequestStep(h) PROVE UNCHANGED task
  BY <1>2 DEF NewRequest, CreateCheck, StopRead, DeleteRead, reqOnly, RequestStep,
              CreateInsert, CreateConflict, CreateEnqueue, StopSave, StopSaveGone,
              Teardown, DeleteRow
<1>3. ASSUME NEW w \in Workers, NEW m \in Messages, AcquireLock(w, m) PROVE TaskMoves(w)
  <2>1. m \in msgs /\ task[w].pc = "idle"
    BY <1>3 DEF AcquireLock, Deliverable
  <2>2. /\ task'[w].pc = "begin" /\ task'[w].dep = m.dep
        /\ \A x \in Workers \ {w} : task'[x] = task[x]
    BY <1>3 DEF AcquireLock, TypeOK
  <2> QED BY <1>3, <2>1, <2>2 DEF TaskMoves, Delivered
<1>4. ASSUME NEW w \in Workers, NEW m \in Messages, AlreadyRunning(w, m) PROVE UNCHANGED task
  BY <1>4 DEF AlreadyRunning
<1>5. CASE Reaper
  BY <1>5 DEF Reaper, ReapQuery, ReapSave, ReapAborts
<1>6. ASSUME NEW w \in Workers, RetryUnpublished(w) PROVE TaskMoves(w)
  BY <1>6, TaskAtEffect DEF RetryUnpublished, Carrying, Releasing
<1>7. CASE Failure
  BY <1>6, <1>7, TaskEndsEffect DEF Failure, WorkerCrash, Redeliver, RequestLost, LockTimeout,
                              LockOutlived
<1> QED BY <1>1, <1>2, <1>3, <1>4, <1>5, <1>7, TaskStepEffect DEF Next, Deliver

\* A message comes from a handler that publishes, a retry, or a repeated delivery.
MessageEnters(m) ==
  \/ \E h \in Handlers : /\ CreateEnqueue(h)
                         /\ m = [dep |-> req[h].dep, retries |-> 0]
  \/ \E w \in Workers : /\ Retry(w)
                        /\ m = [dep |-> task[w].dep, retries |-> task[w].retries + 1]
  \/ \E w \in Workers : (WorkerCrash(w) \/ Redeliver(w)) /\ m = MessageOf(w)

LEMMA MessageEffect ==
  ASSUME TypeOK, [Next]_vars, NEW m \in msgs'
  PROVE  m \in msgs \/ MessageEnters(m)
<1>1. CASE UNCHANGED vars
  BY <1>1 DEF vars
<1>2. ASSUME NEW h \in Handlers, NewRequest(h) \/ RequestStep(h)
      PROVE  m \in msgs \/ MessageEnters(m)
  BY <1>2 DEF NewRequest, CreateCheck, StopRead, DeleteRead, reqOnly, RequestStep,
              CreateInsert, CreateConflict, CreateEnqueue, StopSave, StopSaveGone,
              Teardown, DeleteRow, MessageEnters
<1>3. ASSUME NEW w \in Workers, NEW n \in Messages, Deliver(w, n) PROVE m \in msgs
  BY <1>3 DEF Deliver, AcquireLock, AlreadyRunning
<1>4. ASSUME NEW w \in Workers, TaskStep(w) PROVE m \in msgs \/ MessageEnters(m)
  BY <1>4 DEF TaskStep, BeginSkip, BeginBuild, BeginRefused, RunnerReady, RunnerFails, Commit,
              CommitCancelled, CommitRefused, Retry, RetryExhausted, MarkRead, MarkSave,
              UnlockCheck, UnlockDelete, taskOnly, MessageEnters
<1>5. CASE Reaper
  BY <1>5 DEF Reaper, ReapQuery, ReapSave, ReapAborts
<1>6. CASE Failure
  BY <1>6 DEF Failure, WorkerCrash, Redeliver, RetryUnpublished, RequestLost, LockTimeout,
              LockOutlived, MessageEnters
<1> QED BY <1>1, <1>2, <1>3, <1>4, <1>5, <1>6 DEF Next
------------------------------------------------------------------------------
(***************************************************************************)
(* What is true of a row while somebody works on it: its insert is still   *)
(* to come, and nobody else has the id, or it is past; and an execution    *)
(* past the first transaction, or the reaper, has seen it past PENDING.    *)
(***************************************************************************)
Inserting ==
  \A h \in Handlers :
    /\ req[h].pc = "insert" =>
         /\ row[req[h].dep] = "ABSENT"
         /\ \A g \in Handlers : req[g].dep = req[h].dep => g = h
    /\ req[h].pc \notin {"idle", "insert"} => row[req[h].dep] # "ABSENT"

Queued == \A m \in msgs : row[m.dep] # "ABSENT"

Worked ==
  \A w \in Workers :
    /\ task[w].pc # "idle" => row[task[w].dep] # "ABSENT"
    /\ task[w].pc \in Carrying => row[task[w].dep] # "PENDING"
    /\ task[w].pc = "mark_save" => task[w].seen \notin {"ABSENT", "PENDING", "GONE"}

Reaping == \A d \in reap : row[d] \notin {"ABSENT", "PENDING"}

Present == Inserting /\ Queued /\ Worked /\ Reaping

\* A row appears as PENDING, by its insert, and is never ABSENT or PENDING again.
LEMMA RowEffect ==
  ASSUME TypeOK, Present, [Next]_vars, NEW d \in Deps
  PROVE  \/ row'[d] = row[d]
         \/ /\ \E h \in Handlers : CreateInsert(h) /\ req[h].dep = d
            /\ row[d] = "ABSENT" /\ row'[d] = "PENDING"
         \/ row[d] # "ABSENT" /\ row'[d] \notin {"ABSENT", "PENDING"}
<1>1. CASE UNCHANGED row
  BY <1>1
<1>2. ASSUME NEW h \in Handlers, CreateInsert(h) \/ StopSave(h) \/ DeleteRow(h)
      PROVE  \/ row'[d] = row[d]
             \/ /\ \E g \in Handlers : CreateInsert(g) /\ req[g].dep = d
                /\ row[d] = "ABSENT" /\ row'[d] = "PENDING"
             \/ row[d] # "ABSENT" /\ row'[d] \notin {"ABSENT", "PENDING"}
  <2>1. CASE req[h].dep # d
    BY <1>2, <2>1 DEF CreateInsert, StopSave, DeleteRow, SetRow, TypeOK
  <2>2. CASE req[h].dep = d
    BY <1>2, <2>2 DEF CreateInsert, StopSave, DeleteRow, SetRow, TypeOK, Present, Inserting
  <2> QED BY <2>1, <2>2
<1>3. ASSUME NEW w \in Workers, BeginBuild(w) \/ Commit(w)
      PROVE  row'[d] = row[d] \/ (row[d] # "ABSENT" /\ row'[d] \notin {"ABSENT", "PENDING"})
  BY <1>3 DEF BeginBuild, Commit, SetRow, TypeOK
<1>4. ASSUME NEW w \in Workers, MarkSave(w)
      PROVE  row'[d] = row[d] \/ (row[d] # "ABSENT" /\ row'[d] \notin {"ABSENT", "PENDING"})
  BY <1>4 DEF MarkSave, MarkedStatus, SetRow, TypeOK, Present, Worked
<1>5. ASSUME NEW e \in Deps, ReapSave(e)
      PROVE  row'[d] = row[d] \/ (row[d] # "ABSENT" /\ row'[d] \notin {"ABSENT", "PENDING"})
  BY <1>5 DEF ReapSave, SetRow, TypeOK, Present, Reaping
<1> QED BY <1>1, <1>2, <1>3, <1>4, <1>5, RowWriters

LEMMA InsertingStep ==
  ASSUME TypeOK, TypeOK', Present, [Next]_vars
  PROVE  Inserting'
<1>1. ASSUME NEW h \in Handlers, req'[h].pc = "insert"
      PROVE  /\ row'[req'[h].dep] = "ABSENT"
             /\ \A g \in Handlers : req'[g].dep = req'[h].dep => g = h
  <2>1. CASE ReqMoves(h)
    <3>1. ReqBegins(h)
      BY <1>1, <2>1 DEF ReqMoves, ReqGoesOn, IdleReq
    <3> QED BY <1>1, <2>1, <3>1 DEF ReqMoves, ReqBegins
  <2>2. CASE ~ReqMoves(h)
    <3>1. req'[h] = req[h]
      BY <2>2, RequestEffect DEF ReqMoves
    <3>2. /\ row[req[h].dep] = "ABSENT"
          /\ \A g \in Handlers : req[g].dep = req[h].dep => g = h
      BY <1>1, <3>1 DEF Present, Inserting
    <3>3. req[h].dep \in Deps
      BY <1>1, <3>1, ServedRequest
    <3>4. row'[req[h].dep] = "ABSENT"
      <4>1. ~CreateInsert(h)
        <5> SUFFICES ASSUME CreateInsert(h) PROVE FALSE
          OBVIOUS
        <5> QED BY <1>1, ReqAtEffect DEF CreateInsert
      <4> QED BY <3>2, <3>3, <4>1, RowEffect
    <3>5. ASSUME NEW g \in Handlers, req'[g].dep = req'[h].dep PROVE g = h
      <4>1. CASE req'[g] = req[g]
        BY <3>1, <3>2, <3>5, <4>1
      <4>2. CASE ReqMoves(g)
        <5>1. CASE ReqBegins(g)
          BY <3>1, <3>2, <3>5, <5>1 DEF ReqBegins, Existing, Active
        <5>2. CASE ReqGoesOn(g)
          BY <3>1, <3>2, <3>5, <5>2 DEF ReqGoesOn
        <5>3. CASE req'[g] = IdleReq
          BY <3>1, <3>3, <3>5, <5>3, NoneAssumption DEF IdleReq
        <5> QED BY <4>2, <5>1, <5>2, <5>3 DEF ReqMoves
      <4> QED BY <4>1, <4>2, RequestEffect DEF ReqMoves
    <3> QED BY <3>1, <3>4, <3>5
  <2> QED BY <2>1, <2>2
<1>2. ASSUME NEW h \in Handlers, req'[h].pc \notin {"idle", "insert"}
      PROVE  row'[req'[h].dep] # "ABSENT"
  <2>0. req'[h].dep \in Deps
    BY <1>2, ServedRequest DEF TypeOK, Requests, IdleReq
  <2>1. CASE req'[h] = req[h]
    BY <1>2, <2>0, <2>1, RowEffect DEF Present, Inserting
  <2>2. CASE ReqBegins(h)
    BY <1>2, <2>0, <2>2, RowEffect DEF ReqBegins, Existing, Active
  <2>3. CASE ReqGoesOn(h)
    <3>1. CASE req[h].pc # "insert"
      BY <1>2, <2>0, <2>3, <3>1, RowEffect DEF ReqGoesOn, Present, Inserting
    <3>2. CASE req[h].pc = "insert"
      BY <2>0, <2>3, <3>2 DEF ReqGoesOn, CreateInsert, StopSave, Teardown, SetRow, TypeOK
    <3> QED BY <3>1, <3>2
  <2> QED BY <1>2, <2>1, <2>2, <2>3, RequestEffect DEF ReqMoves, IdleReq
<1> QED BY <1>1, <1>2 DEF Inserting

LEMMA QueuedStep ==
  ASSUME TypeOK, TypeOK', Present, [Next]_vars
  PROVE  Queued'
<1> SUFFICES ASSUME NEW m \in msgs' PROVE row'[m.dep] # "ABSENT"
  BY DEF Queued
<1>1. m.dep \in Deps
  BY DEF TypeOK, Messages
<1>2. row[m.dep] # "ABSENT"
  <2>1. CASE m \in msgs
    BY <2>1 DEF Present, Queued
  <2>2. ASSUME NEW h \in Handlers, CreateEnqueue(h), m = [dep |-> req[h].dep, retries |-> 0]
        PROVE  row[m.dep] # "ABSENT"
    BY <2>2 DEF CreateEnqueue, Present, Inserting
  <2>3. ASSUME NEW w \in Workers, task[w].pc # "idle", m.dep = task[w].dep
        PROVE  row[m.dep] # "ABSENT"
    BY <2>3 DEF Present, Worked
  <2> QED BY <2>1, <2>2, <2>3, MessageEffect
         DEF MessageEnters, Retry, WorkerCrash, Redeliver, MessageOf
<1> QED BY <1>1, <1>2, RowEffect

LEMMA WorkedStep ==
  ASSUME TypeOK, TypeOK', Present, [Next]_vars
  PROVE  Worked'
<1> SUFFICES ASSUME NEW w \in Workers, task'[w].pc # "idle"
    PROVE  /\ row'[task'[w].dep] # "ABSENT"
           /\ task'[w].pc \in Carrying => row'[task'[w].dep] # "PENDING"
           /\ task'[w].pc = "mark_save" => task'[w].seen \notin {"ABSENT", "PENDING", "GONE"}
  BY DEF Worked, Carrying
<1>0. task'[w].dep \in Deps
  BY DEF TypeOK, Tasks, IdleTask
<1>1. CASE task'[w] = task[w]
  BY <1>0, <1>1, RowEffect DEF Present, Worked, Carrying
<1>2. CASE Delivered(w)
  <2>1. row[task'[w].dep] # "ABSENT"
    BY <1>2 DEF Delivered, Present, Queued
  <2> QED BY <1>0, <1>2, <2>1, RowEffect DEF Delivered, Carrying
<1>3. CASE TaskGoesOn(w)
  <2>1. row[task[w].dep] # "ABSENT" /\ task'[w].dep = task[w].dep
    BY <1>3 DEF TaskGoesOn, Present, Worked
  <2>2. row'[task'[w].dep] # "ABSENT"
    BY <1>0, <2>1, RowEffect
  <2>3. task'[w].pc \in Carrying => row'[task'[w].dep] # "PENDING"
    BY <1>0, <1>3, <2>1, RowEffect DEF TaskGoesOn, Present, Worked
  <2>4. task'[w].pc = "mark_save" => task'[w].seen \notin {"ABSENT", "PENDING", "GONE"}
    BY <1>3, <2>1 DEF TaskGoesOn, Present, Worked, Carrying
  <2> QED BY <2>2, <2>3, <2>4
<1> QED BY <1>1, <1>2, <1>3, TaskEffect DEF TaskMoves, IdleTask

LEMMA ReapingStep ==
  ASSUME TypeOK, Present, [Next]_vars
  PROVE  Reaping'
<1> SUFFICES ASSUME NEW d \in reap' PROVE row'[d] \notin {"ABSENT", "PENDING"}
  BY DEF Reaping
<1>1. d \in reap \/ (d \in Deps /\ row[d] = "BUILDING")
  BY DEF Next, vars, NewRequest, CreateCheck, StopRead, DeleteRead, reqOnly, RequestStep,
         CreateInsert, CreateConflict, CreateEnqueue, StopSave, StopSaveGone, Teardown,
         DeleteRow, Deliver, AcquireLock, AlreadyRunning, TaskStep, BeginSkip, BeginBuild,
         BeginRefused, RunnerReady, RunnerFails, Commit, CommitCancelled, CommitRefused,
         Retry, RetryExhausted, MarkRead, MarkSave, UnlockCheck, UnlockDelete, taskOnly,
         Reaper, ReapQuery, ReapSave, ReapAborts, Failure, WorkerCrash, Redeliver,
         RetryUnpublished, RequestLost, LockTimeout, LockOutlived
<1> QED BY <1>1, RowEffect DEF TypeOK, Present, Reaping

\* A deployment is worked on only once its row is there, and failure clean-up and the
\* reaper only once a build of it has begun.
THEOREM PresentCorrect == Spec => []Present
<1>1. Init => Present
  BY DEF Init, Present, Inserting, Queued, Worked, Reaping, IdleTask, IdleReq, Carrying
<1>2. TypeOK /\ TypeOK' /\ Present /\ [Next]_vars => Present'
  BY InsertingStep, QueuedStep, WorkedStep, ReapingStep DEF Present
<1> QED BY <1>1, <1>2, TypeCorrect, PTL DEF Spec
------------------------------------------------------------------------------
(***************************************************************************)
(* Refinement.  While no build outlives its lock, a row cannot become      *)
(* RUNNING behind an execution that carries it, so what _mark_failed has   *)
(* seen is what it may write back, and a stopped or failed row stays so.   *)
(***************************************************************************)
Ended == {"STOPPED", "FAILED", "GONE"}

Settling ==
  slow = 0 =>
    /\ \A w \in Workers :
         /\ task[w].pc \in Carrying => row[task[w].dep] # "RUNNING"
         /\ task[w].pc = "mark_save" =>
              \/ task[w].seen = "BUILDING"
              \/ task[w].seen \in Ended /\ row[task[w].dep] \in Ended
    /\ \A h \in Handlers : req[h].pc = "teardown" => row[req[h].dep] \in Ended

\* The slow count never falls.
LEMMA SlowGrows ==
  ASSUME TypeOK, [Next]_vars, slow' = 0
  PROVE  slow = 0
<1>1. slow \in Nat
  BY BoundsAssumption DEF TypeOK
<1>2. slow' = slow \/ slow' = slow + 1
  BY DEF Next, vars, NewRequest, CreateCheck, StopRead, DeleteRead, reqOnly, RequestStep,
         CreateInsert, CreateConflict, CreateEnqueue, StopSave, StopSaveGone, Teardown,
         DeleteRow, Deliver, AcquireLock, AlreadyRunning, TaskStep, BeginSkip, BeginBuild,
         BeginRefused, RunnerReady, RunnerFails, Commit, CommitCancelled, CommitRefused,
         Retry, RetryExhausted, MarkRead, MarkSave, UnlockCheck, UnlockDelete, taskOnly,
         Reaper, ReapQuery, ReapSave, ReapAborts, Failure, WorkerCrash, Redeliver,
         RetryUnpublished, RequestLost, LockTimeout, LockOutlived
<1> QED BY <1>1, <1>2

\* How a row changes, by whose hand, while no build outlives its lock.
Changes(d) ==
  \/ \E h \in Handlers : CreateInsert(h) /\ req[h].dep = d
  \/ \E w \in Workers : BeginBuild(w) /\ task[w].dep = d
  \/ \E w \in Workers : Commit(w) /\ task[w].dep = d
  \/ row[d] \in Active /\ row'[d] = "STOPPED"
  \/ row[d] \in {"BUILDING", "RUNNING"} /\ row'[d] = "FAILED"
  \/ row[d] \in {"FAILED", "STOPPED"} /\ row'[d] \in {"FAILED", "STOPPED"}
  \/ row[d] \in Existing /\ row'[d] = "GONE"

LEMMA CalmRows ==
  ASSUME TypeOK, Present, Settling, slow = 0, [Next]_vars
  PROVE  UNCHANGED row \/ \E d \in Deps : Changes(d) /\ SetRow(d, row'[d])
<1> USE DEF Active, Existing
<1>1. ASSUME NEW h \in Handlers, CreateInsert(h) \/ StopSave(h) \/ DeleteRow(h)
      PROVE  UNCHANGED row \/ \E d \in Deps : Changes(d) /\ SetRow(d, row'[d])
  <2>1. PICK d \in Deps : d = req[h].dep
    BY <1>1, ServedRequest DEF CreateInsert, StopSave, DeleteRow
  <2>2. SetRow(d, row'[d])
    BY <1>1, <2>1 DEF CreateInsert, StopSave, DeleteRow, SetRow, TypeOK
  <2>3. CASE CreateInsert(h)
    BY <2>1, <2>2, <2>3 DEF Changes
  <2>4. CASE StopSave(h)
    <3>1. row[d] \in Existing /\ row'[d] = "STOPPED"
      BY <2>1, <2>4 DEF StopSave, SetRow, TypeOK, Statuses, Present, Inserting
    <3> QED BY <2>1, <2>2, <3>1 DEF Changes
  <2>5. CASE DeleteRow(h)
    <3>1. row[d] \in Existing \cup {"GONE"} /\ row' = [row EXCEPT ![d] = "GONE"]
      BY <2>1, <2>5 DEF DeleteRow, SetRow, TypeOK, Statuses, Present, Inserting
    <3>2. CASE row[d] = "GONE"
      BY <3>1, <3>2 DEF TypeOK
    <3>3. CASE row[d] \in Existing
      BY <2>1, <2>2, <3>1, <3>3 DEF Changes, TypeOK
    <3> QED BY <3>1, <3>2, <3>3
  <2> QED BY <1>1, <2>3, <2>4, <2>5
<1>2. ASSUME NEW w \in Workers, BeginBuild(w) \/ Commit(w)
      PROVE  \E d \in Deps : Changes(d) /\ SetRow(d, row'[d])
  <2>1. PICK d \in Deps : d = task[w].dep
    BY <1>2, RunningTask DEF BeginBuild, Commit
  <2>2. SetRow(d, row'[d])
    BY <1>2, <2>1 DEF BeginBuild, Commit, SetRow, TypeOK
  <2> QED BY <1>2, <2>1, <2>2 DEF Changes
<1>3. ASSUME NEW w \in Workers, MarkSave(w)
      PROVE  UNCHANGED row \/ \E d \in Deps : Changes(d) /\ SetRow(d, row'[d])
  <2>1. PICK d \in Deps : d = task[w].dep
    BY <1>3, RunningTask DEF MarkSave
  <2>2. \/ task[w].seen = "BUILDING"
        \/ task[w].seen \in Ended /\ row[d] \in Ended
    BY <1>3, <2>1 DEF MarkSave, Settling
  <2>3. row[d] \notin {"ABSENT", "PENDING", "RUNNING"} /\ task[w].seen # "GONE"
    BY <1>3, <2>1 DEF MarkSave, Settling, Present, Worked, Carrying
  <2>4. CASE row[d] = "GONE"
    BY <1>3, <2>1, <2>4 DEF MarkSave
  <2>5. CASE row[d] # "GONE"
    <3>1. PICK status \in {"FAILED", "STOPPED"} : status = MarkedStatus(task[w].seen)
      BY <2>2, <2>3 DEF MarkedStatus, Ended
    <3>2. SetRow(d, status)
      BY <1>3, <2>1, <2>5, <3>1 DEF MarkSave
    <3>3. row'[d] = status
      BY <3>2 DEF SetRow, TypeOK
    <3>4. row[d] \in {"BUILDING", "FAILED", "STOPPED"}
      BY <2>3, <2>5 DEF TypeOK, Statuses
    <3>5. row[d] = "BUILDING" => status = "FAILED"
      BY <2>2, <3>1 DEF MarkedStatus, Ended
    <3> QED BY <3>2, <3>3, <3>4, <3>5 DEF Changes
  <2> QED BY <2>4, <2>5
<1>4. ASSUME NEW d \in Deps, ReapSave(d)
      PROVE  \E e \in Deps : Changes(e) /\ SetRow(e, row'[e])
  <2>1. row'[d] = "FAILED" /\ SetRow(d, row'[d])
    BY <1>4 DEF ReapSave, SetRow, TypeOK
  <2>2. row[d] \in {"BUILDING", "RUNNING", "FAILED", "STOPPED"}
    BY <1>4 DEF ReapSave, TypeOK, Statuses, Present, Reaping
  <2> QED BY <2>1, <2>2 DEF Changes
<1> QED BY <1>1, <1>2, <1>3, <1>4, RowWriters

\* The three ways a row becomes or stays what the invariants speak of.
LEMMA CalmRow ==
  ASSUME TypeOK, Present, Settling, slow = 0, [Next]_vars, NEW d \in Deps
  PROVE  /\ row[d] \in Ended => row'[d] \in Ended
         /\ row'[d] = "RUNNING" /\ row[d] # "RUNNING" =>
              \E w \in Workers : Commit(w) /\ task[w].dep = d
         /\ row'[d] = "BUILDING" /\ row[d] # "BUILDING" =>
              \E w \in Workers : BeginBuild(w) /\ task[w].dep = d
<1>1. CASE UNCHANGED row
  BY <1>1
<1>2. ASSUME NEW e \in Deps, Changes(e), SetRow(e, row'[e]), e # d
      PROVE  row'[d] = row[d]
  BY <1>2 DEF SetRow, TypeOK
<1>3. CASE Changes(d)
  <2>1. ASSUME NEW h \in Handlers, CreateInsert(h), req[h].dep = d
        PROVE  row[d] = "ABSENT" /\ row'[d] = "PENDING"
    BY <2>1 DEF CreateInsert, SetRow, TypeOK, Present, Inserting
  <2>2. ASSUME NEW w \in Workers, BeginBuild(w), task[w].dep = d
        PROVE  row[d] \in {"PENDING", "BUILDING"} /\ row'[d] = "BUILDING"
    BY <2>2 DEF BeginBuild, SetRow, TypeOK
  <2>3. ASSUME NEW w \in Workers, Commit(w), task[w].dep = d
        PROVE  row[d] = "BUILDING" /\ row'[d] = "RUNNING"
    BY <2>3 DEF Commit, SetRow, TypeOK
  <2> QED BY <1>3, <2>1, <2>2, <2>3 DEF Changes, Ended, Active, Existing
<1> QED BY <1>1, <1>2, <1>3, CalmRows

\* Somebody else's commit cannot happen under an execution that still carries the row.
LEMMA OneCarrier ==
  ASSUME LockHeld, slow = 0, NEW w \in Workers, NEW x \in Workers,
         task[w].pc # "idle", task[x].pc # "idle", task[w].dep = task[x].dep
  PROVE  w = x
BY DEF LockHeld

LEMMA SettlingStep ==
  ASSUME TypeOK, TypeOK', Present, LockHeld, Settling, [Next]_vars, slow' = 0
  PROVE  Settling'
<1>0. slow = 0
  BY SlowGrows
<1>1. ASSUME NEW w \in Workers, task'[w].pc \in Carrying
      PROVE  row'[task'[w].dep] # "RUNNING"
  <2>0. task'[w].dep \in Deps
    BY <1>1 DEF TypeOK, Tasks, IdleTask, Carrying
  <2>1. CASE \E x \in Workers : Commit(x) /\ task[x].dep = task'[w].dep
    <3>1. PICK x \in Workers : Commit(x) /\ task[x].dep = task'[w].dep
      BY <2>1
    <3>2. task[x].pc = "commit" /\ task'[x].pc = "unlock"
          /\ \A y \in Workers \ {x} : task'[y] = task[y]
      BY <3>1 DEF Commit, TaskAt, TypeOK
    <3> QED BY <1>0, <1>1, <3>1, <3>2, OneCarrier DEF Carrying
  <2>2. CASE row[task'[w].dep] # "RUNNING"
    BY <1>0, <2>0, <2>1, <2>2, CalmRow
  <2>3. CASE row[task'[w].dep] = "RUNNING" /\ row'[task'[w].dep] = "RUNNING"
    <3>1. ~(task[w].pc \in Carrying /\ task'[w].dep = task[w].dep)
      BY <1>0, <2>3 DEF Settling
    <3> QED BY <1>1, <2>3, <3>1, TaskEffect
           DEF TaskMoves, TaskGoesOn, Delivered, IdleTask, Carrying
  <2> QED BY <2>2, <2>3
<1>2. ASSUME NEW w \in Workers, task'[w].pc = "mark_save"
      PROVE  \/ task'[w].seen = "BUILDING"
             \/ task'[w].seen \in Ended /\ row'[task'[w].dep] \in Ended
  <2>1. CASE task'[w] = task[w]
    <3>1. task[w].dep \in Deps
      BY <1>2, <2>1, RunningTask
    <3> QED BY <1>0, <1>2, <2>1, <3>1, CalmRow DEF Settling
  <2>2. CASE TaskGoesOn(w)
    <3>1. /\ task[w].pc = "mark_read" /\ UNCHANGED row /\ task'[w].dep = task[w].dep
          /\ task'[w].seen = row[task[w].dep] /\ row[task[w].dep] # "GONE"
      BY <1>2, <2>2 DEF TaskGoesOn
    <3>2. row[task[w].dep] \in Statuses \ {"ABSENT", "PENDING", "RUNNING", "GONE"}
      BY <1>0, <3>1, RunningTask DEF TypeOK, Present, Worked, Settling, Carrying
    <3> QED BY <3>1, <3>2 DEF Statuses, Existing, Active, Ended
  <2> QED BY <1>2, <2>1, <2>2, TaskEffect DEF TaskMoves, Delivered, IdleTask
<1>3. ASSUME NEW h \in Handlers, req'[h].pc = "teardown"
      PROVE  row'[req'[h].dep] \in Ended
  <2>1. CASE req'[h] = req[h]
    BY <1>0, <1>3, <2>1, ServedRequest, CalmRow DEF Settling
  <2>2. CASE ReqGoesOn(h)
    <3>1. StopSave(h) /\ req'[h].dep = req[h].dep /\ req[h].dep \in Deps
      BY <1>3, <2>2, ServedRequest DEF ReqGoesOn
    <3> QED BY <3>1 DEF StopSave, SetRow, TypeOK, Ended
  <2> QED BY <1>3, <2>1, <2>2, RequestEffect DEF ReqMoves, ReqBegins, IdleReq
<1> QED BY <1>1, <1>2, <1>3 DEF Settling

THEOREM SettlingCorrect == Spec => []Settling
<1>1. Init => Settling
  BY DEF Init, Settling, IdleTask, IdleReq, Carrying
<1>2. TypeOK /\ TypeOK' /\ Present /\ LockHeld /\ Settling /\ [Next]_vars => Settling'
  BY SettlingStep DEF Settling
<1> QED BY <1>1, <1>2, TypeCorrect, PresentCorrect, LockHeldCorrect, PTL DEF Spec

\* Every change of a row is a step of DeploymentLifecycle.
LEMMA ChangeRefines ==
  ASSUME TypeOK, Present, NEW d \in Deps, Changes(d), SetRow(d, row'[d])
  PROVE  [Lifecycle!Next]_row
<1> USE DEF Lifecycle!Move, Lifecycle!Active, Lifecycle!Existing, SetRow, Active, Existing
<1>1. ASSUME NEW h \in Handlers, CreateInsert(h), req[h].dep = d PROVE Lifecycle!Create(d)
  <2>1. row[d] = "ABSENT" /\ row' = [row EXCEPT ![d] = "PENDING"]
    BY <1>1 DEF CreateInsert, Present, Inserting
  <2>2. \A e \in Deps : VersionOf[e] = VersionOf[d] => row[e] \notin Active
    BY <1>1, <2>1 DEF CreateInsert, Collides
  <2> QED BY <2>1, <2>2 DEF Lifecycle!Create
<1>2. ASSUME NEW w \in Workers, BeginBuild(w), task[w].dep = d
      PROVE  Lifecycle!StartBuild(d) \/ UNCHANGED row
  BY <1>2 DEF BeginBuild, Lifecycle!StartBuild, TypeOK
<1>3. ASSUME NEW w \in Workers, Commit(w), task[w].dep = d PROVE Lifecycle!Succeed(d)
  BY <1>3 DEF Commit, Lifecycle!Succeed
<1>4. ASSUME row[d] \in Active, row'[d] = "STOPPED" PROVE Lifecycle!Stop(d)
  BY <1>4 DEF Lifecycle!Stop
<1>5. ASSUME row[d] \in {"BUILDING", "RUNNING"}, row'[d] = "FAILED" PROVE Lifecycle!Fail(d)
  BY <1>5 DEF Lifecycle!Fail
<1>6. ASSUME row[d] \in {"FAILED", "STOPPED"}, row'[d] \in {"FAILED", "STOPPED"}
      PROVE  Lifecycle!Fail(d) \/ Lifecycle!Stop(d) \/ UNCHANGED row
  BY <1>6 DEF Lifecycle!Fail, Lifecycle!Stop, TypeOK
<1>7. ASSUME row[d] \in Existing, row'[d] = "GONE" PROVE Lifecycle!Drop(d)
  BY <1>7 DEF Lifecycle!Drop
<1> QED BY <1>1, <1>2, <1>3, <1>4, <1>5, <1>6, <1>7 DEF Changes, Lifecycle!Next

\* Whatever crashes or is redelivered, every change of a row that a client sees is
\* one of the lifecycle's, up to the moment a build outlives its lock.
THEOREM LifecycleUntilSlow ==
  Spec => Lifecycle!Init /\ [][slow = 0 => Lifecycle!Next]_row
<1>1. Init => Lifecycle!Init
  BY DEF Init, Lifecycle!Init
<1>2. TypeOK /\ Present /\ Settling /\ [Next]_vars => [slow = 0 => Lifecycle!Next]_row
  BY CalmRows, ChangeRefines
<1> QED BY <1>1, <1>2, TypeCorrect, PresentCorrect, SettlingCorrect, PTL DEF Spec

\* What clients observe is DeploymentLifecycle, whatever crashes or is repeated, as
\* long as no build outlives its lock: behind a build that does, _mark_failed may save
\* a copy that says RUNNING over a row that was stopped meanwhile.
THEOREM LifecycleRefined == Spec /\ [](slow = 0) => LifecycleSpec
<1>1. Init => Lifecycle!Init
  BY DEF Init, Lifecycle!Init
<1>2. TypeOK /\ Present /\ Settling /\ slow = 0 /\ [Next]_vars => [Lifecycle!Next]_row
  BY CalmRows, ChangeRefines
<1> QED BY <1>1, <1>2, TypeCorrect, PresentCorrect, SettlingCorrect, PTL
       DEF Spec, LifecycleSpec, Lifecycle!Spec
------------------------------------------------------------------------------
(***************************************************************************)
(* Environments.  Between the runner's answer and the second transaction   *)
(* the environment can be torn down only for another deployment.           *)
(***************************************************************************)
Usable(d) == env[VersionOf[d]] \/ envBy[VersionOf[d]] \in Deps \ {d}

EnvReady ==
  slow = 0 =>
    \A w \in Workers :
      task[w].pc = "commit" /\ row[task[w].dep] = "BUILDING" => Usable(task[w].dep)

\* Who writes an environment.
LEMMA EnvWriters ==
  ASSUME [Next]_vars
  PROVE  \/ UNCHANGED <<env, envBy>>
         \/ \E h \in Handlers : Teardown(h) /\ SetEnv(req[h].dep, FALSE)
         \/ \E w \in Workers : RunnerReady(w)
         \/ \E w \in Workers, usable \in BOOLEAN :
              RunnerFails(w) /\ SetEnv(task[w].dep, usable)
<1>1. CASE UNCHANGED vars
  BY <1>1 DEF vars
<1>2. ASSUME NEW h \in Handlers, NewRequest(h) PROVE UNCHANGED <<env, envBy>>
  BY <1>2 DEF NewRequest, CreateCheck, StopRead, DeleteRead, reqOnly
<1>3. ASSUME NEW h \in Handlers, RequestStep(h)
      PROVE  UNCHANGED <<env, envBy>> \/ (Teardown(h) /\ SetEnv(req[h].dep, FALSE))
  <2>1. CASE Teardown(h)
    BY <2>1 DEF Teardown
  <2>2. CASE ~Teardown(h)
    BY <1>3, <2>2 DEF RequestStep, CreateInsert, CreateConflict, CreateEnqueue, StopSave,
                      StopSaveGone, DeleteRow, reqOnly
  <2> QED BY <2>1, <2>2
<1>4. ASSUME NEW w \in Workers, NEW m \in Messages, Deliver(w, m)
      PROVE  UNCHANGED <<env, envBy>>
  BY <1>4 DEF Deliver, AcquireLock, AlreadyRunning
<1>5. ASSUME NEW w \in Workers, TaskStep(w)
      PROVE  \/ UNCHANGED <<env, envBy>> \/ RunnerReady(w)
             \/ \E usable \in BOOLEAN : RunnerFails(w) /\ SetEnv(task[w].dep, usable)
  <2>1. CASE RunnerFails(w)
    BY <2>1 DEF RunnerFails
  <2>2. CASE ~RunnerFails(w)
    BY <1>5, <2>2
       DEF TaskStep, BeginSkip, BeginBuild, BeginRefused, Commit, CommitCancelled,
           CommitRefused, Retry, RetryExhausted, MarkRead, MarkSave, UnlockCheck,
           UnlockDelete, taskOnly
  <2> QED BY <2>1, <2>2
<1>6. CASE Reaper
  BY <1>6 DEF Reaper, ReapQuery, ReapSave, ReapAborts
<1>7. CASE Failure
  BY <1>7 DEF Failure, WorkerCrash, Redeliver, RetryUnpublished, RequestLost, LockTimeout,
              LockOutlived
<1> QED BY <1>1, <1>2, <1>3, <1>4, <1>5, <1>6, <1>7 DEF Next

\* A call made for one deployment leaves the environment of another usable, or is
\* the other's loss.
LEMMA SetEnvUsable ==
  ASSUME TypeOK, NEW d \in Deps, NEW e \in Deps, NEW usable \in BOOLEAN, SetEnv(e, usable),
         Usable(d), d # e \/ usable
  PROVE  Usable(d)'
<1>1. VersionOf[d] \in Versions /\ VersionOf[e] \in Versions
  BY VersionOfAssumption
<1>2. CASE VersionOf[d] = VersionOf[e]
  <2>1. env'[VersionOf[d]] = usable /\ envBy'[VersionOf[d]] = e
    BY <1>1, <1>2 DEF SetEnv, TypeOK
  <2> QED BY <2>1 DEF Usable
<1>3. CASE VersionOf[d] # VersionOf[e]
  <2>1. env'[VersionOf[d]] = env[VersionOf[d]] /\ envBy'[VersionOf[d]] = envBy[VersionOf[d]]
    BY <1>1, <1>3 DEF SetEnv, TypeOK
  <2> QED BY <2>1 DEF Usable
<1> QED BY <1>2, <1>3

\* A deployment that runs, or whose execution is about to say so, keeps a usable
\* environment except by a call for another deployment.
LEMMA UsableStays ==
  ASSUME TypeOK, Present, LockHeld, Settling, slow = 0, [Next]_vars, NEW d \in Deps, Usable(d),
         \/ row[d] = "RUNNING"
         \/ row[d] = "BUILDING" /\ \E w \in Workers : task[w].pc = "commit" /\ task[w].dep = d
  PROVE  Usable(d)'
<1>1. CASE UNCHANGED <<env, envBy>>
  BY <1>1 DEF Usable
<1>2. ASSUME NEW h \in Handlers, Teardown(h), SetEnv(req[h].dep, FALSE) PROVE Usable(d)'
  <2>1. req[h].dep \in Deps /\ req[h].dep # d
    BY <1>2, ServedRequest DEF Teardown, Settling, Ended
  <2> QED BY <1>2, <2>1, SetEnvUsable
<1>3. ASSUME NEW w \in Workers, RunnerReady(w) PROVE Usable(d)'
  <2>1. task[w].dep \in Deps /\ SetEnv(task[w].dep, TRUE)
    BY <1>3, RunningTask DEF RunnerReady
  <2> QED BY <2>1, SetEnvUsable
<1>4. ASSUME NEW w \in Workers, NEW usable \in BOOLEAN,
             RunnerFails(w), SetEnv(task[w].dep, usable)
      PROVE  Usable(d)'
  <2>1. task[w].dep \in Deps /\ task[w].pc = "runner"
    BY <1>4, RunningTask DEF RunnerFails
  <2>2. task[w].dep # d
    BY <2>1, OneCarrier DEF Settling, Carrying
  <2> QED BY <1>4, <2>1, <2>2, SetEnvUsable
<1> QED BY <1>1, <1>2, <1>3, <1>4, EnvWriters

LEMMA EnvReadyStep ==
  ASSUME TypeOK, TypeOK', Present, LockHeld, LockHeld', Settling, EnvReady, [Next]_vars,
         slow' = 0
  PROVE  EnvReady'
<1> SUFFICES ASSUME NEW w \in Workers, task'[w].pc = "commit",
                    NEW d \in Deps, task'[w].dep = d, row'[d] = "BUILDING"
    PROVE  Usable(d)'
  BY DEF EnvReady, Usable, TypeOK, Tasks, IdleTask
<1>0. slow = 0
  BY SlowGrows
<1>1. CASE task'[w] = task[w]
  <2>1. task[w].pc = "commit" /\ task[w].dep = d
    BY <1>1
  <2>2. row[d] = "BUILDING"
    <3>1. ASSUME NEW x \in Workers, BeginBuild(x), task[x].dep = d PROVE FALSE
      <4>1. x = w
        BY <1>0, <2>1, <3>1, OneCarrier DEF BeginBuild
      <4> QED BY <2>1, <3>1, <4>1 DEF BeginBuild
    <3> QED BY <1>0, <3>1, CalmRow
  <2>3. Usable(d)
    BY <1>0, <2>1, <2>2 DEF EnvReady
  <2> QED BY <1>0, <2>1, <2>2, <2>3, UsableStays
<1>2. CASE TaskGoesOn(w)
  <2>1. RunnerReady(w) /\ task[w].dep = d
    BY <1>2 DEF TaskGoesOn
  <2>2. env' = [env EXCEPT ![VersionOf[d]] = TRUE]
    BY <2>1 DEF RunnerReady, SetEnv
  <2>3. env'[VersionOf[d]] = TRUE
    BY <2>2, VersionOfAssumption DEF TypeOK
  <2> QED BY <2>3, Zenon DEF Usable
<1> QED BY <1>1, <1>2, TaskEffect DEF TaskMoves, Delivered, IdleTask

\* A running deployment loses its environment only to another deployment of its
\* version (the runner keys environments by model_version_id).
THEOREM RunningKeepsEnv == Spec => []RunningLosesEnvToOthersOnly
<1>1. Init => EnvReady /\ RunningLosesEnvToOthersOnly
  BY DEF Init, EnvReady, RunningLosesEnvToOthersOnly, IdleTask
<1>2. TypeOK /\ TypeOK' /\ Present /\ LockHeld /\ LockHeld' /\ Settling /\ EnvReady
        /\ [Next]_vars => EnvReady'
  BY EnvReadyStep DEF EnvReady
<1>3. TypeOK /\ Present /\ LockHeld /\ Settling /\ EnvReady /\ RunningLosesEnvToOthersOnly
        /\ [Next]_vars => RunningLosesEnvToOthersOnly'
  <2> SUFFICES ASSUME TypeOK, Present, LockHeld, Settling, EnvReady,
                      RunningLosesEnvToOthersOnly, [Next]_vars, slow' = 0,
                      NEW d \in Deps, row'[d] = "RUNNING"
      PROVE  Usable(d)'
    BY DEF RunningLosesEnvToOthersOnly, Usable
  <2>1. slow = 0
    BY SlowGrows
  <2>2. CASE row[d] = "RUNNING"
    BY <2>1, <2>2, UsableStays DEF RunningLosesEnvToOthersOnly, Usable
  <2>3. CASE row[d] # "RUNNING"
    <3>1. PICK w \in Workers : Commit(w) /\ task[w].dep = d
      BY <2>1, <2>3, CalmRow
    <3>2. Usable(d) /\ UNCHANGED <<env, envBy>>
      BY <2>1, <3>1 DEF Commit, EnvReady
    <3> QED BY <3>2 DEF Usable
  <2> QED BY <2>2, <2>3
<1> QED BY <1>1, <1>2, <1>3, TypeCorrect, PresentCorrect, LockHeldCorrect, SettlingCorrect, PTL
       DEF Spec
------------------------------------------------------------------------------
(***************************************************************************)
(* Who carries a deployment on.  While nothing failed, a deployment has    *)
(* one token: its creator before the publication, one queued message, or   *)
(* one execution, of which only the one that published the retry and is    *)
(* on its way out coexists with a message.  So no message is dropped       *)
(* because the lock is taken.                                              *)
(***************************************************************************)
FaultFree == faults = 0 /\ slow = 0

LockIsLive == \A d \in Deps : lock[d] # None => Executing(lock[d], d)

MessageOrExecution ==
  \A m \in msgs, w \in Workers : Executing(w, m.dep) =>
    task[w].pc \in Releasing /\ task[w].retries + 1 = m.retries

OneMessage == \A m, n \in msgs : m.dep = n.dep => m = n

BeforePublication ==
  \A h \in Handlers : req[h].pc = "enqueue" =>
    /\ \A g \in Handlers : req[g].pc = "enqueue" /\ req[g].dep = req[h].dep => g = h
    /\ \A m \in msgs : m.dep # req[h].dep
    /\ \A w \in Workers : ~Executing(w, req[h].dep)

OneToken ==
  FaultFree => LockIsLive /\ MessageOrExecution /\ OneMessage /\ BeforePublication

\* The steps of a system in which nothing has failed yet.
CalmNext ==
  \/ \E h \in Handlers : NewRequest(h) \/ RequestStep(h)
  \/ \E w \in Workers, m \in Messages : Deliver(w, m)
  \/ \E w \in Workers : TaskStep(w)
  \/ Reaper
  \/ \E d \in Deps : LockTimeout(d)
  \/ UNCHANGED vars

LEMMA CalmStep ==
  ASSUME TypeOK, [Next]_vars, FaultFree'
  PROVE  FaultFree /\ CalmNext
<1>0. faults \in Nat /\ slow \in Nat
  BY BoundsAssumption DEF TypeOK
<1>1. ASSUME NEW w \in Workers, WorkerCrash(w) \/ Redeliver(w) \/ RetryUnpublished(w)
      PROVE  FALSE
  BY <1>0, <1>1 DEF WorkerCrash, Redeliver, RetryUnpublished, Fault, FaultFree
<1>2. ASSUME NEW h \in Handlers, RequestLost(h) PROVE FALSE
  BY <1>0, <1>2 DEF RequestLost, Fault, FaultFree
<1>3. ASSUME NEW d \in Deps, LockOutlived(d) PROVE FALSE
  BY <1>0, <1>3 DEF LockOutlived, FaultFree
<1>4. CalmNext
  BY <1>1, <1>2, <1>3 DEF Next, Failure, CalmNext
<1>5. UNCHANGED faults
  BY <1>4 DEF CalmNext, vars, NewRequest, CreateCheck, StopRead, DeleteRead, reqOnly, RequestStep,
         CreateInsert, CreateConflict, CreateEnqueue, StopSave, StopSaveGone, Teardown,
         DeleteRow, Deliver, AcquireLock, AlreadyRunning, TaskStep, BeginSkip, BeginBuild,
         BeginRefused, RunnerReady, RunnerFails, Commit, CommitCancelled, CommitRefused,
         Retry, RetryExhausted, MarkRead, MarkSave, UnlockCheck, UnlockDelete, taskOnly,
         Reaper, ReapQuery, ReapSave, ReapAborts, LockTimeout
<1> QED BY <1>4, <1>5, SlowGrows DEF FaultFree

\* A step that publishes nothing, starts nothing and releases nothing that goes on.
LEMMA TokenFrame ==
  ASSUME TypeOK, LockIsLive, MessageOrExecution, OneMessage, BeforePublication,
         msgs' \subseteq msgs,
         \A w \in Workers : task'[w].pc # "idle" =>
           /\ task[w].pc # "idle" /\ task'[w].dep = task[w].dep
           /\ task'[w].retries = task[w].retries
           /\ task[w].pc \in Releasing => task'[w].pc \in Releasing,
         \A d \in Deps : lock'[d] # None =>
           lock'[d] = lock[d] /\ task'[lock[d]].pc # "idle",
         \A h \in Handlers : req'[h].pc = "enqueue" =>
           req[h].pc = "enqueue" /\ req'[h].dep = req[h].dep
  PROVE  LockIsLive' /\ MessageOrExecution' /\ OneMessage' /\ BeforePublication'
<1>1. \A w \in Workers, d \in Deps : Executing(w, d)' => Executing(w, d)
  BY DEF Executing
<1>2. LockIsLive'
  BY DEF LockIsLive, Executing, TypeOK
<1>3. MessageOrExecution'
  BY DEF MessageOrExecution, Executing
<1>4. OneMessage'
  BY DEF OneMessage
<1>5. BeforePublication'
  BY DEF BeforePublication, Executing
<1> QED BY <1>2, <1>3, <1>4, <1>5

LEMMA CalmRequestTokens ==
  ASSUME TypeOK, Present, LockIsLive, MessageOrExecution, OneMessage, BeforePublication,
         NEW h \in Handlers, NewRequest(h) \/ RequestStep(h)
  PROVE  LockIsLive' /\ MessageOrExecution' /\ OneMessage' /\ BeforePublication'
<1>0. UNCHANGED <<lock, task>>
  BY DEF NewRequest, CreateCheck, StopRead, DeleteRead, reqOnly, RequestStep,
         CreateInsert, CreateConflict, CreateEnqueue, StopSave, StopSaveGone, Teardown,
         DeleteRow
<1>1. ASSUME NEW k \in Handlers, CreateInsert(k)
      PROVE  LockIsLive' /\ MessageOrExecution' /\ OneMessage' /\ BeforePublication'
  <2>1. PICK d \in Deps : d = req[k].dep
    BY <1>1, ServedRequest DEF CreateInsert
  <2>2. /\ req'[k].pc = "enqueue" /\ req'[k].dep = d
        /\ \A g \in Handlers \ {k} : req'[g] = req[g]
    BY <1>1, <2>1, ReqAtEffect DEF CreateInsert
  <2>3. row[d] = "ABSENT" /\ \A g \in Handlers : req[g].dep = d => g = k
    BY <1>1, <2>1 DEF CreateInsert, Present, Inserting
  <2>4. /\ \A m \in msgs : m.dep # d
        /\ \A w \in Workers : ~Executing(w, d)
    BY <2>3 DEF Present, Queued, Worked, Executing
  <2>5. LockIsLive' /\ MessageOrExecution' /\ OneMessage'
    BY <1>0, <1>1 DEF CreateInsert, LockIsLive, MessageOrExecution, OneMessage, Executing
  <2>6. BeforePublication'
    BY <1>0, <1>1, <2>2, <2>3, <2>4 DEF CreateInsert, BeforePublication, Executing
  <2> QED BY <2>5, <2>6
<1>2. ASSUME NEW k \in Handlers, CreateEnqueue(k)
      PROVE  LockIsLive' /\ MessageOrExecution' /\ OneMessage' /\ BeforePublication'
  <2>1. PICK d \in Deps : d = req[k].dep
    BY <1>2, ServedRequest DEF CreateEnqueue
  <2>2. PICK n : n = [dep |-> d, retries |-> 0]
    OBVIOUS
  <2>3. msgs' = msgs \cup {n} /\ n.dep = d
    BY <1>2, <2>1, <2>2 DEF CreateEnqueue
  <2>4. /\ \A g \in Handlers : req[g].pc = "enqueue" /\ req[g].dep = d => g = k
        /\ \A m \in msgs : m.dep # d
        /\ \A w \in Workers : ~Executing(w, d)
    BY <1>2, <2>1 DEF CreateEnqueue, BeforePublication
  <2>5. req'[k].pc = "idle" /\ \A g \in Handlers \ {k} : req'[g] = req[g]
    BY <1>2 DEF CreateEnqueue, ReqEnds, IdleReq, TypeOK
  <2>6. LockIsLive'
    BY <1>0 DEF LockIsLive, Executing
  <2>7. MessageOrExecution'
    BY <1>0, <2>3, <2>4 DEF MessageOrExecution, Executing
  <2>8. OneMessage'
    BY <2>3, <2>4 DEF OneMessage
  <2>9. BeforePublication'
    BY <1>0, <2>3, <2>4, <2>5 DEF BeforePublication, Executing
  <2> QED BY <2>6, <2>7, <2>8, <2>9
<1>3. CASE \A k \in Handlers : ~CreateInsert(k) /\ ~CreateEnqueue(k)
  <2>1. UNCHANGED msgs
    BY <1>3 DEF NewRequest, CreateCheck, StopRead, DeleteRead, reqOnly, RequestStep,
         CreateConflict, StopSave, StopSaveGone, Teardown, DeleteRow
  <2>2. UNCHANGED req \/ \E k \in Handlers : ReqMoves(k)
    BY RequestEffect DEF Next
  <2>3. ASSUME NEW g \in Handlers, req'[g].pc = "enqueue"
        PROVE  req[g].pc = "enqueue" /\ req'[g].dep = req[g].dep
    <3>1. req'[g] = req[g]
      BY <1>3, <2>2, <2>3 DEF ReqMoves, ReqBegins, ReqGoesOn, IdleReq
    <3> QED BY <2>3, <3>1
  <2> QED BY <1>0, <2>1, <2>3, TokenFrame DEF LockIsLive, Executing
<1> QED BY <1>1, <1>2, <1>3

\* The step an execution is at after TaskAt.
LEMMA TaskAtPc ==
  ASSUME TypeOK, NEW w \in Workers, task[w].pc # "idle", NEW step, TaskAt(w, step)
  PROVE  task'[w].pc = step /\ \A x \in Workers \ {w} : task'[x] = task[x]
BY DEF TaskAt, TypeOK

\* _mark_failed's read and save leave the execution to its finally block.
LEMMA MarkGoesOn ==
  ASSUME TypeOK, NEW w \in Workers, MarkRead(w) \/ MarkSave(w)
  PROVE  task'[w].pc # "idle" /\ \A x \in Workers \ {w} : task'[x] = task[x]
<1>1. task[w].pc # "idle"
  BY DEF MarkRead, MarkSave
<1>2. \/ TaskAt(w, "unlock")
      \/ task' = [task EXCEPT ![w].pc = "mark_save", ![w].seen = row[task[w].dep]]
      \/ task' = [task EXCEPT ![w].pc = "unlock", ![w].seen = None]
  BY DEF MarkRead, MarkSave
<1>3. ASSUME NEW step \in TaskSteps \cup {"mark_save"}, NEW seen,
             task' = [task EXCEPT ![w].pc = step, ![w].seen = seen]
      PROVE  task'[w].pc # "idle" /\ \A x \in Workers \ {w} : task'[x] = task[x]
  <2>1. PICK t \in Tasks : t = task[w]
    BY DEF TypeOK
  <2>2. t \in [pc : TaskSteps, dep : Deps, retries : 0 .. MaxRetries, seen : {None}] \cup
            [pc : {"mark_save"}, dep : Deps, retries : 0 .. MaxRetries, seen : Statuses]
    BY <1>1, <2>1 DEF Tasks, IdleTask
  <2>3. task' = [task EXCEPT ![w] = [t EXCEPT !.pc = step, !.seen = seen]]
    BY <1>3, <2>1
  <2>4. task'[w].pc = step
    BY <2>2, <2>3 DEF TypeOK
  <2> QED BY <1>3, <2>3, <2>4 DEF TypeOK, TaskSteps, Building, Releasing
<1> QED BY <1>1, <1>2, <1>3, TaskAtPc DEF TaskSteps, Building, Releasing

LEMMA CalmDeliveryTokens ==
  ASSUME TypeOK, TypeOK', LockHeld, slow = 0, LockIsLive, MessageOrExecution, OneMessage,
         BeforePublication, NEW w \in Workers, NEW m \in Messages, Deliver(w, m)
  PROVE  LockIsLive' /\ MessageOrExecution' /\ OneMessage' /\ BeforePublication'
<1>1. CASE AcquireLock(w, m)
  <2>1. PICK d \in Deps : d = m.dep
    BY DEF Messages
  <2>2. /\ m \in msgs /\ task[w].pc = "idle" /\ lock[d] = None
        /\ msgs' = msgs \ {m} /\ lock' = [lock EXCEPT ![d] = w] /\ UNCHANGED req
    BY <1>1, <2>1 DEF AcquireLock, Deliverable
  <2>3. /\ task'[w].pc = "begin" /\ task'[w].dep = d
        /\ \A x \in Workers \ {w} : task'[x] = task[x]
    BY <1>1, <2>1 DEF AcquireLock, TypeOK
  <2>4. \A n \in msgs' : n.dep # d
    BY <2>1, <2>2 DEF OneMessage
  <2>5. LockIsLive'
    <3> SUFFICES ASSUME NEW e \in Deps, NEW x \in Workers, lock'[e] = x
        PROVE  task'[x].pc # "idle" /\ task'[x].dep = e
      BY NoneAssumption DEF LockIsLive, Executing, TypeOK
    <3>1. CASE e = d
      BY <2>2, <2>3, <3>1 DEF TypeOK
    <3>2. CASE e # d
      <4>1. Executing(x, e)
        BY <2>2, <3>2, NoneAssumption DEF LockIsLive, TypeOK
      <4> QED BY <2>2, <2>3, <4>1 DEF Executing
    <3> QED BY <3>1, <3>2
  <2>6. MessageOrExecution'
    BY <2>2, <2>3, <2>4 DEF MessageOrExecution, Executing
  <2>7. OneMessage'
    BY <2>2 DEF OneMessage
  <2>8. BeforePublication'
    BY <2>1, <2>2, <2>3 DEF BeforePublication, Executing
  <2> QED BY <2>5, <2>6, <2>7, <2>8
<1>2. CASE AlreadyRunning(w, m)
  BY <1>2, TokenFrame DEF AlreadyRunning, LockIsLive, Executing
<1> QED BY <1>1, <1>2 DEF Deliver

LEMMA CalmTaskTokens ==
  ASSUME TypeOK, TypeOK', LockHeld, slow = 0, LockIsLive, MessageOrExecution, OneMessage,
         BeforePublication, NEW w \in Workers, TaskStep(w)
  PROVE  LockIsLive' /\ MessageOrExecution' /\ OneMessage' /\ BeforePublication'
<1>0. /\ task[w].pc # "idle" /\ UNCHANGED req
  BY DEF TaskStep, BeginSkip, BeginBuild, BeginRefused, RunnerReady, RunnerFails, Commit,
         CommitCancelled, CommitRefused, Retry, RetryExhausted, MarkRead, MarkSave,
         UnlockCheck, UnlockDelete, taskOnly
<1>1. PICK d \in Deps : d = task[w].dep
  BY <1>0, RunningTask
<1>2. lock[d] = w
  BY <1>0, <1>1 DEF LockHeld
<1>3. \A x \in Workers : task'[x].pc # "idle" =>
        /\ task[x].pc # "idle" /\ task'[x].dep = task[x].dep
        /\ task'[x].retries = task[x].retries
        /\ task[x].pc \in Releasing => task'[x].pc \in Releasing
  BY <1>0, TaskStepEffect DEF TaskMoves, TaskGoesOn, Delivered, IdleTask
<1>4. CASE Retry(w)
  <2>1. PICK n : n = [dep |-> d, retries |-> task[w].retries + 1]
    OBVIOUS
  <2>2. msgs' = msgs \cup {n} /\ n.dep = d /\ n.retries = task[w].retries + 1
    BY <1>1, <1>4, <2>1 DEF Retry
  <2>3. /\ task'[w].pc = "unlock" /\ task'[w].dep = d /\ UNCHANGED lock
        /\ \A x \in Workers \ {w} : task'[x] = task[x]
    BY <1>1, <1>3, <1>4 DEF Retry, TaskAt, TypeOK
  <2>4. /\ \A m \in msgs : m.dep # d
        /\ \A h \in Handlers : req[h].pc = "enqueue" => req[h].dep # d
        /\ \A x \in Workers : Executing(x, d) => x = w
    <3>1. Executing(w, d) /\ task[w].pc \notin Releasing
      BY <1>1, <1>4 DEF Retry, Executing, Releasing
    <3>2. \A x \in Workers : Executing(x, d) => x = w
      BY <1>2 DEF LockHeld, Executing
    <3> QED BY <3>1, <3>2 DEF MessageOrExecution, BeforePublication
  <2>5. LockIsLive'
    <3> SUFFICES ASSUME NEW e \in Deps, NEW x \in Workers, lock[e] = x
        PROVE  task'[x].pc # "idle" /\ task'[x].dep = e
      BY <2>3, NoneAssumption DEF LockIsLive, Executing, TypeOK
    <3>1. Executing(x, e)
      BY NoneAssumption DEF LockIsLive
    <3> QED BY <1>1, <2>3, <3>1 DEF Executing
  <2>6. MessageOrExecution'
    <3> SUFFICES ASSUME NEW m \in msgs', NEW x \in Workers, task'[x].pc # "idle",
                        task'[x].dep = m.dep
        PROVE  task'[x].pc \in Releasing /\ task'[x].retries + 1 = m.retries
      BY DEF MessageOrExecution, Executing
    <3>1. Executing(x, m.dep)
      BY <1>3 DEF Executing
    <3>2. CASE m \in msgs
      BY <1>3, <3>1, <3>2 DEF MessageOrExecution
    <3>3. CASE m = n
      BY <1>3, <2>2, <2>3, <2>4, <3>1, <3>3 DEF Releasing
    <3> QED BY <2>2, <3>2, <3>3
  <2>7. OneMessage'
    BY <2>2, <2>4 DEF OneMessage
  <2>8. BeforePublication'
    BY <1>0, <1>3, <2>2, <2>4 DEF BeforePublication, Executing
  <2> QED BY <2>5, <2>6, <2>7, <2>8
<1>5. CASE UnlockDelete(w)
  <2>1. /\ lock' = [lock EXCEPT ![d] = None] /\ UNCHANGED msgs
        /\ \A x \in Workers \ {w} : task'[x] = task[x]
    BY <1>1, <1>5 DEF UnlockDelete, TaskEnds, TypeOK
  <2>2. ASSUME NEW e \in Deps, lock'[e] # None
        PROVE  lock'[e] = lock[e] /\ task'[lock[e]].pc # "idle"
    <3>1. e # d /\ lock'[e] = lock[e] /\ lock[e] # None
      BY <2>1, <2>2 DEF TypeOK
    <3>2. lock[e] \in Workers /\ Executing(lock[e], e)
      BY <3>1 DEF LockIsLive, TypeOK
    <3>3. lock[e] # w
      BY <1>1, <3>1, <3>2 DEF Executing
    <3> QED BY <2>1, <3>1, <3>2, <3>3 DEF Executing
  <2> QED BY <1>0, <1>3, <2>1, <2>2, TokenFrame
<1>6. CASE ~(Retry(w) \/ UnlockDelete(w))
  <2>1. UNCHANGED <<msgs, lock>>
    BY <1>6
       DEF TaskStep, BeginSkip, BeginBuild, BeginRefused, RunnerReady, RunnerFails, Commit,
           CommitCancelled, CommitRefused, RetryExhausted, MarkRead, MarkSave,
           UnlockCheck, taskOnly
  <2>2. task'[w].pc # "idle" /\ \A x \in Workers \ {w} : task'[x] = task[x]
    <3>1. CASE MarkRead(w) \/ MarkSave(w)
      BY <3>1, MarkGoesOn
    <3>2. CASE UnlockCheck(w)
      BY <1>0, <1>1, <1>2, <3>2, TaskAtPc DEF UnlockCheck
    <3>3. CASE ~(MarkRead(w) \/ MarkSave(w) \/ UnlockCheck(w))
      <4>1. PICK step \in TaskSteps : TaskAt(w, step)
        BY <1>6, <3>3
           DEF TaskStep, BeginSkip, BeginBuild, BeginRefused, RunnerReady, RunnerFails, Commit,
               CommitCancelled, CommitRefused, RetryExhausted, TaskSteps, Building, Releasing
      <4> QED BY <1>0, <4>1, TaskAtPc DEF TaskSteps, Building, Releasing
    <3> QED BY <3>1, <3>2, <3>3
  <2>3. ASSUME NEW e \in Deps, lock[e] # None PROVE task'[lock[e]].pc # "idle"
    <3>1. lock[e] \in Workers /\ task[lock[e]].pc # "idle"
      BY <2>3 DEF LockIsLive, Executing, TypeOK
    <3> QED BY <2>2, <3>1
  <2> QED BY <1>0, <1>3, <2>1, <2>3, TokenFrame
<1> QED BY <1>4, <1>5, <1>6

LEMMA OneTokenStep ==
  ASSUME TypeOK, TypeOK', Present, LockHeld, OneToken, [Next]_vars, FaultFree'
  PROVE  LockIsLive' /\ MessageOrExecution' /\ OneMessage' /\ BeforePublication'
<1>0. /\ FaultFree /\ CalmNext /\ slow = 0
      /\ LockIsLive /\ MessageOrExecution /\ OneMessage /\ BeforePublication
  BY CalmStep DEF FaultFree, OneToken
<1>1. CASE Reaper \/ UNCHANGED vars
  <2>1. UNCHANGED <<msgs, lock, task, req>>
    BY <1>1 DEF Reaper, ReapQuery, ReapSave, ReapAborts, vars
  <2> QED BY <1>0, <2>1, TokenFrame DEF LockIsLive, Executing
<1>2. ASSUME NEW d \in Deps, LockTimeout(d) PROVE FALSE
  BY <1>0, <1>2 DEF LockTimeout, Held, LockIsLive
<1> QED BY <1>0, <1>1, <1>2, CalmRequestTokens, CalmDeliveryTokens, CalmTaskTokens DEF CalmNext

\* While nothing failed, a deployment is carried by one hand at a time.
THEOREM OneTokenCorrect == Spec => []OneToken
<1>1. Init => OneToken
  BY DEF Init, OneToken, LockIsLive, MessageOrExecution, OneMessage, BeforePublication, IdleReq
<1>2. TypeOK /\ TypeOK' /\ Present /\ LockHeld /\ OneToken /\ [Next]_vars => OneToken'
  BY OneTokenStep DEF OneToken, FaultFree
<1> QED BY <1>1, <1>2, TypeCorrect, PresentCorrect, LockHeldCorrect, PTL DEF Spec
------------------------------------------------------------------------------
Owned(d) ==
  \/ \E h \in Handlers : req[h].pc = "enqueue" /\ req[h].dep = d
  \/ \E m \in msgs : m.dep = d
  \/ \E w \in Workers : Executing(w, d) /\ task[w].pc \notin Releasing

Unfinished(status) == status \in {"PENDING", "BUILDING"}

\* An execution reaches its finally block with a retry published or a row that ended.
LEMMA OwnerGoesOn ==
  ASSUME TypeOK, Present, Settling, slow = 0, NEW w \in Workers, TaskStep(w),
         NEW d \in Deps, task[w].dep = d, task[w].pc \notin Releasing, Unfinished(row'[d])
  PROVE  Owned(d)'
<1>0. task[w].pc # "idle"
  BY DEF TaskStep, BeginSkip, BeginBuild, BeginRefused, RunnerReady, RunnerFails, Commit,
         CommitCancelled, CommitRefused, Retry, RetryExhausted, MarkRead, MarkSave,
         UnlockCheck, UnlockDelete, taskOnly
<1>1. ASSUME task'[w].pc # "idle", task'[w].pc \notin Releasing, task'[w].dep = d
      PROVE  Owned(d)'
  BY <1>1 DEF Owned, Executing
<1>2. ASSUME NEW step \in TaskSteps \ Releasing, TaskAt(w, step) PROVE Owned(d)'
  <2>1. task'[w].pc = step /\ task'[w].dep = d
    BY <1>0, <1>2, TaskAtPc, TaskAtContinues DEF Continues, TaskSteps, Building
  <2> QED BY <1>1, <2>1 DEF TaskSteps, Building
<1>3. CASE BeginSkip(w) \/ CommitCancelled(w)
  BY <1>3 DEF BeginSkip, CommitCancelled, taskOnly, Unfinished
<1>4. CASE Commit(w)
  BY <1>4 DEF Commit, SetRow, TypeOK, Unfinished
<1>5. CASE Retry(w)
  <2>1. PICK n : n = [dep |-> d, retries |-> task[w].retries + 1]
    OBVIOUS
  <2>2. n \in msgs' /\ n.dep = d
    BY <1>5, <2>1 DEF Retry
  <2> QED BY <2>2 DEF Owned
<1>6. CASE MarkRead(w)
  <2>1. task'[w].pc # "idle" /\ task'[w].dep = d /\ row[d] # "GONE"
    BY <1>6, MarkGoesOn, MarkContinues DEF Continues, MarkRead, taskOnly, Unfinished
  <2>2. task'[w].pc = "mark_save"
    <3>1. PICK t \in Tasks : t = task[w]
      BY DEF TypeOK
    <3>2. t \in [pc : TaskSteps, dep : Deps, retries : 0 .. MaxRetries, seen : {None}]
      BY <1>6, <3>1 DEF Tasks, IdleTask, MarkRead
    <3>3. task' = [task EXCEPT ![w] = [t EXCEPT !.pc = "mark_save", !.seen = row[d]]]
      BY <1>6, <2>1, <3>1 DEF MarkRead
    <3> QED BY <3>2, <3>3 DEF TypeOK
  <2> QED BY <1>1, <2>1, <2>2 DEF Releasing
<1>7. CASE MarkSave(w)
  <2>1. \/ task[w].seen = "BUILDING"
        \/ task[w].seen \in Ended /\ row[d] \in Ended
    BY <1>7 DEF MarkSave, Settling
  <2>2. MarkedStatus(task[w].seen) \in Ended
    BY <2>1 DEF MarkedStatus, Ended
  <2>3. row'[d] \in Ended
    BY <1>7, <2>2 DEF MarkSave, SetRow, TypeOK, Ended, Active
  <2> QED BY <2>3 DEF Ended, Unfinished
<1>8. CASE BeginBuild(w) \/ BeginRefused(w) \/ RunnerReady(w) \/ RunnerFails(w)
             \/ CommitRefused(w) \/ RetryExhausted(w)
  BY <1>2, <1>8 DEF BeginBuild, BeginRefused, RunnerReady, RunnerFails, CommitRefused,
                    RetryExhausted, TaskSteps, Building, Releasing
<1>9. CASE UnlockCheck(w) \/ UnlockDelete(w)
  BY <1>9 DEF UnlockCheck, UnlockDelete, Releasing
<1> QED BY <1>3, <1>4, <1>5, <1>6, <1>7, <1>8, <1>9 DEF TaskStep

LEMMA OwnedStep ==
  ASSUME TypeOK, Present, LockHeld, Settling, OneToken, [Next]_vars, FaultFree',
         NEW d \in Deps, Unfinished(row'[d]), Unfinished(row[d]) => Owned(d)
  PROVE  Owned(d)'
<1>0. FaultFree /\ CalmNext /\ slow = 0
  BY CalmStep DEF FaultFree
<1>1. CASE ~Unfinished(row[d])
  <2>1. CASE \E h \in Handlers : CreateInsert(h) /\ req[h].dep = d
    <3>1. PICK h \in Handlers : CreateInsert(h) /\ req[h].dep = d
      BY <2>1
    <3>2. req'[h].pc = "enqueue" /\ req'[h].dep = d
      BY <3>1, ReqAtEffect DEF CreateInsert
    <3> QED BY <3>2 DEF Owned
  <2>2. CASE \E w \in Workers : BeginBuild(w) /\ task[w].dep = d
    BY <1>1, <2>2 DEF BeginBuild, Unfinished
  <2> QED BY <1>0, <1>1, <2>1, <2>2, RowEffect, CalmRow DEF Unfinished
<1>2. ASSUME NEW h \in Handlers, req[h].pc = "enqueue", req[h].dep = d PROVE Owned(d)'
  <2>1. CASE req'[h] = req[h]
    BY <1>2, <2>1 DEF Owned
  <2>2. CASE CreateEnqueue(h)
    <3>1. PICK n : n = [dep |-> d, retries |-> 0]
      OBVIOUS
    <3>2. n \in msgs' /\ n.dep = d
      BY <1>2, <2>2, <3>1 DEF CreateEnqueue
    <3> QED BY <3>2 DEF Owned
  <2>3. ASSUME NEW g \in Handlers, NewRequest(g) \/ RequestStep(g), ~CreateEnqueue(h)
        PROVE  req'[h] = req[h]
    <3>1. CASE g = h
      BY <1>2, <2>3, <3>1
         DEF NewRequest, CreateCheck, StopRead, DeleteRead, RequestStep, CreateInsert,
             CreateConflict, StopSave, StopSaveGone, Teardown, DeleteRow
    <3>2. CASE g # h
      BY <2>3, <3>2
         DEF NewRequest, CreateCheck, StopRead, DeleteRead, RequestStep, CreateInsert,
             CreateConflict, CreateEnqueue, StopSave, StopSaveGone, Teardown, DeleteRow,
             AfterTeardown, ReqAt, ReqEnds, TypeOK
    <3> QED BY <3>1, <3>2
  <2>4. CASE UNCHANGED req
    BY <2>1, <2>4
  <2>5. (\E g \in Handlers : NewRequest(g) \/ RequestStep(g)) \/ UNCHANGED req
    BY <1>0 DEF CalmNext, vars, Deliver, AcquireLock, AlreadyRunning, TaskStep, BeginSkip,
           BeginBuild, BeginRefused, RunnerReady, RunnerFails, Commit, CommitCancelled,
           CommitRefused, Retry, RetryExhausted, MarkRead, MarkSave, UnlockCheck,
           UnlockDelete, taskOnly, Reaper, ReapQuery, ReapSave, ReapAborts, LockTimeout
  <2> QED BY <2>1, <2>2, <2>3, <2>4, <2>5
<1>3. ASSUME NEW m \in msgs, m.dep = d PROVE Owned(d)'
  <2>1. CASE m \in msgs'
    BY <1>3, <2>1 DEF Owned
  <2>2. ASSUME NEW w \in Workers, NEW n \in Messages, Deliver(w, n), m \notin msgs'
        PROVE  Owned(d)'
    <3>1. n = m
      BY <2>2 DEF Deliver, AcquireLock, AlreadyRunning
    <3>2. CASE AcquireLock(w, m)
      <4>1. task'[w].pc = "begin" /\ task'[w].dep = d
        BY <1>3, <3>2 DEF AcquireLock, TypeOK
      <4> QED BY <4>1 DEF Owned, Executing, Releasing
    <3>3. CASE AlreadyRunning(w, m)
      <4>1. PICK x \in Workers : x = lock[d] /\ Executing(x, d)
        BY <1>0, <1>3, <3>3 DEF AlreadyRunning, OneToken, LockIsLive, TypeOK
      <4>2. task[x].pc \in Releasing /\ task[x].retries + 1 = m.retries /\ task[x].dep = m.dep
        BY <1>0, <1>3, <4>1 DEF OneToken, MessageOrExecution, Executing
      <4> QED BY <3>3, <4>2 DEF AlreadyRunning, Deliverable, CountdownOver
    <3> QED BY <2>2, <3>1, <3>2, <3>3 DEF Deliver
  <2>3. (\E w \in Workers, n \in Messages : Deliver(w, n)) \/ msgs \subseteq msgs'
    BY <1>0 DEF CalmNext, vars, NewRequest, CreateCheck, StopRead, DeleteRead, reqOnly,
           RequestStep, CreateInsert, CreateConflict, CreateEnqueue, StopSave, StopSaveGone,
           Teardown, DeleteRow, TaskStep, BeginSkip, BeginBuild, BeginRefused, RunnerReady,
           RunnerFails, Commit, CommitCancelled, CommitRefused, Retry, RetryExhausted,
           MarkRead, MarkSave, UnlockCheck, UnlockDelete, taskOnly, Reaper, ReapQuery,
           ReapSave, ReapAborts, LockTimeout
  <2> QED BY <2>1, <2>2, <2>3
<1>4. ASSUME NEW w \in Workers, Executing(w, d), task[w].pc \notin Releasing PROVE Owned(d)'
  <2>1. CASE task'[w] = task[w]
    BY <1>4, <2>1 DEF Owned, Executing
  <2>2. CASE TaskStep(w)
    BY <1>0, <1>4, <2>2, OwnerGoesOn DEF Executing
  <2>3. ASSUME NEW x \in Workers, TaskStep(x), x # w PROVE task'[w] = task[w]
    BY <2>3, TaskStepEffect DEF TaskMoves
  <2>4. ASSUME NEW x \in Workers, NEW m \in Messages, Deliver(x, m) PROVE task'[w] = task[w]
    BY <1>4, <2>4 DEF Deliver, AcquireLock, AlreadyRunning, Deliverable, Executing, TypeOK
  <2>5. (\E x \in Workers : TaskStep(x)) \/ (\E x \in Workers, m \in Messages : Deliver(x, m))
          \/ UNCHANGED task
    BY <1>0 DEF CalmNext, vars, NewRequest, CreateCheck, StopRead, DeleteRead, reqOnly,
           RequestStep, CreateInsert, CreateConflict, CreateEnqueue, StopSave, StopSaveGone,
           Teardown, DeleteRow, Reaper, ReapQuery, ReapSave, ReapAborts, LockTimeout
  <2> QED BY <2>1, <2>2, <2>3, <2>4, <2>5
<1> QED BY <1>1, <1>2, <1>3, <1>4 DEF Owned

\* As long as nothing failed and no build outlived its lock, an unfinished deployment
\* has an owner: self.retry() publishes before the finally block, _mark_failed leaves no
\* unfinished row, and no queued attempt is answered "already_running".
THEOREM UnfinishedOwned == Spec => []UnfinishedHasOwner
<1>1. Init => UnfinishedHasOwner
  BY DEF Init, UnfinishedHasOwner
<1>2. TypeOK /\ Present /\ LockHeld /\ Settling /\ OneToken /\ UnfinishedHasOwner
        /\ [Next]_vars => UnfinishedHasOwner'
  <2> SUFFICES ASSUME TypeOK, Present, LockHeld, Settling, OneToken, UnfinishedHasOwner,
                      [Next]_vars, FaultFree', NEW d \in Deps, Unfinished(row'[d])
      PROVE  Owned(d)'
    BY DEF UnfinishedHasOwner, FaultFree, Unfinished, Owned, Executing
  <2>1. FaultFree
    BY CalmStep
  <2>2. Unfinished(row[d]) => Owned(d)
    BY <2>1 DEF UnfinishedHasOwner, FaultFree, Unfinished, Owned
  <2> QED BY <2>2, OwnedStep
<1> QED BY <1>1, <1>2, TypeCorrect, PresentCorrect, LockHeldCorrect, SettlingCorrect,
           OneTokenCorrect, PTL DEF Spec
=============================================================================
