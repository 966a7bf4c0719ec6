# A TLA+ verification project for MODEL_DEPLOYER

MODEL_DEPLOYER is a Django platform that takes machine-learning models as zip
bundles, builds an environment for a version on demand, and serves predictions,
some of them against credits. This directory holds TLA+ modules translated from
its source, the TLC configurations that check them on small instances, and
theorems about them that TLAPS checks for every value of the constants.

`tlc -config X.cfg M` checks a run, `tlapm M.tla` the proofs of a module.
`PROJECT.json` lists the runs, the mutants that show each property can fail, the
source lines of every definition, the hazards and the findings.

## 1. The system

### Components, their state and operations

| Component | State | Operations | Module |
|---|---|---|---|
| Deployment control plane (`deployments/`) | Deployment rows (PostgreSQL), Celery messages (Redis), one build lock per deployment (Redis key, 360 s), the runner's environments keyed by version | create, stop, delete handlers; `build_deployment` with two transactions, retries and `_mark_failed`; `reap_stale_builds` | `Deployments`, abstractly `DeploymentLifecycle` |
| Credits and the monetised gateway (`billing/`, `UniversalInferenceAPIView`) | wallets, an append-only ledger | reserve, discount, refund, demo deposit | `Billing`, abstractly `Accounts` |
| Prediction cache and single-flight suppression (`singleflight.py`, `PredictAPIView`) | one cache shared by all processes, one table of locks per process | look up, lead, wait, probe, fall back, store | `SingleFlight` |
| Model registry (`model_registry/`, `core/storage.py`) | Model and ModelVersion rows, the objects of an S3 bucket | upload a model or a version, delete a version or a model, `reconcile_orphans` | `Registry` |
| Runner service (`runners/worker.py`) | the model's directory and environment on disk, two semaphores | init-model, predict with a process per request, teardown | `Runner` |
| its warm pool (`WarmRuntimeManager`, `WarmRuntime`) and the loop of `worker_bridge.py` | runtimes by model, their processes and pipes, one lock per runtime and one for the pool | get or create, evict, start, stop, predict, restart | `WarmRuntime`, abstractly `ModelServer` |
| its commands (`_run_bounded`) | a process group, three pipes, a deadline | feed, drain, time out, kill | `BoundedCommand` |
| Framework runners and `pytorch_bridge.py` | the loaded model | one HTTP call per operation | not modelled: no state that is shared |
| Bundle validation and manifest (`core/archive.py`, `manifest.py`) | the directory an upload is extracted to | check, extract under limits, validate | `Bundles` |
| API keys, authentication of the gateway | key rows | create, use, revoke | `Access` |
| Monitoring (`monitoring/views.py`) | the prediction logs | averages, counts, percentiles | `Metrics` |
| Accounts and sessions, throttling | user rows, counters in the cache | register, log in | not modelled: the framework's |
| Marketplace | the Model row's price and visibility | listings, one PATCH | not modelled |
| Error envelope, configuration, frontend, scripts | none | formatting, settings, user interface | not modelled |

### How they interact

A handler commits a row and then publishes a message; a worker calls the runner
over HTTP and commits the result in another transaction. The gateway reads
Deployment rows that are changed by those workers, charges wallets before it
calls the runner and writes log rows that reference models and deployments,
which the registry deletes. The registry deletes deployments with their versions.
Inside the runner, requests are threads that share directories and a pool of
processes. No component holds a lock while it calls another one, except a version
upload, which holds the row lock of its model while it writes to S3, and the
runner, which holds a runtime's lock while its process computes. So the hard
behaviour is:

* **stale copies.** A handler, `_mark_failed` and the reaper read a row, validate
  a transition on the copy, and save it later over whatever the row has become.
* **locks that end early.** The build lock has a timeout that is shorter than
  the longest build; single-flight releases its lock before the answer is in the
  cache; a version upload's row lock is gone before its clean-up runs.
* **two stores, one transaction.** A row and a message, a row and S3 objects, a
  charge and a runner call are never atomic together, and a process may die or a
  call fail in between.
* **delivery.** Late acknowledgement and requeueing on worker loss run a build
  again; retries are published before the lock is released.
* **order of locks** between two wallets; **rounding** of halves.
* **things named by a path or a key, not by an owner.** A directory is replaced,
  a process stopped and an environment torn down under a request that uses it.
* **two pipes and a deadline** between the runner and each of its processes.

### What makes each component correct

* Deployments: one active deployment per version; a build excludes itself; no
  accepted deployment is forgotten; a RUNNING one loses its environment only to
  another deployment of its version; clients see only the edges of the lifecycle.
* Billing: ledger and wallets agree up to the rounding of halves; the charge fits the
  answer; no credits are spent twice; transactions are atomic transfers and do not
  deadlock.
* Single-flight: one leader per process and key, a lock nobody keeps, no runner
  call beside a leader without cause, an answer for every request.
* Registry: version numbers are allocated one upload at a time, a row names the
  complete bundle of its own upload until somebody asks to delete it, a deletion whose
  storage call raises strands nothing.
* Runner service: a directory appears as one finished download with all it had listed;
  slots are neither lost nor freed twice; builds do not disturb each other's environment.
* Warm pool: an input is run at most once and a result is its own caller's; the pool
  keeps to its capacity, and processes outside it end; nobody waits for ever.
* Commands: no deadlock on full pipes, no process of the group left after a
  time-out, an output cut at its end only, with a notice exactly if it was cut.
* Bundles: within the limits at every moment, nothing left of a rejected one.
* Access, Metrics: a revoked key stays revoked; a percentile is one.

## 2. Modules

### Deployments

`row[d]` is the status column (ABSENT before the insert, GONE after the delete),
`msgs` the broker's queue, `lock[d]` the Redis key, `task[w]` the execution on a
Celery slot, `req[h]` the request on an API thread, `reap` the rows the reaper
has fetched, `env[v]` whether the runner has an environment of version `v`, and
`envBy[v]` (history) for which deployment it was last written.

| Action | Code |
|---|---|
| `CreateCheck`, `CreateInsert`, `CreateConflict`, `CreateEnqueue` | `DeploymentCreateAPIView.post`: look, insert under the unique index, answer with the existing row on a conflict, publish |
| `StopRead`, `StopSave`, `StopSaveGone`, `Teardown` | `DeploymentStopAPIView.post` |
| `DeleteRead`, the same steps, `DeleteRow` | `DeploymentDetailAPIView.delete` |
| `AcquireLock`, `AlreadyRunning` | `cache.add` in `build_deployment` |
| `BeginBuild`, `BeginSkip`, `BeginRefused` | first transaction of `_build_and_run_deployment` |
| `RunnerReady`, `RunnerFails` | init and the readiness loop |
| `Commit`, `CommitCancelled`, `CommitRefused` | second transaction |
| `Retry`, `RetryExhausted`, `RetryUnpublished`, `MarkRead`, `MarkSave` | exception branches and `_mark_failed` |
| `UnlockCheck`, `UnlockDelete` | the finally block: a get, then a delete |
| `ReapQuery`, `ReapSave`, `ReapAborts` | `reap_stale_builds` |
| `WorkerCrash`, `Redeliver`, `RequestLost`, `LockTimeout`, `LockOutlived` | process loss, broker, key expiry |

What is abstracted: the handler's reading of the row before the first transaction
is merged with it (same exits); `celery_task_id`, `build_attempt`, `last_error`
and URLs are left out; init and readiness are one step; a retry's countdown (at
least 30 s) outlasts the finally block of the attempt that published it; the
reaper's age threshold is the operator's, so any BUILDING row may be older.

`DeploymentLifecycle` is what a client sees: one status change at a time. Its
edges are not the table `ALLOWED_TRANSITIONS`, because the table is checked
on copies: FAILED can replace RUNNING and STOPPED, STOPPED can replace FAILED.

### Billing

`wallet` and `ledger` come from `Accounts`, which has the four money movements as
atomic steps. `Billing` adds requests: `step[r]`, `party[r]`, `copy[r]` (the wallet
rows it has locked and read), `paid[r]`. `LockWallet` is one `select_for_update`
per wallet in primary-key order, `Debit`, `GiveDiscount` and `RefundFailure` are
the writes, the ledger row and the commit; `RollBack` is a refund or discount
whose ledger row has lost its model; `Lookup`, `Predict` and `Answer` are the
cache, the runner and the log row; `Delete` is the deletion of a model or of the
deployment a request is served by. Amounts are in units of 0.00005 credits, half
of what a column can store, and `Stored` is the rounding of a `numeric(12,4)`. Prices
have four decimals (`cost_per_run`), so half of an odd number of 0.0001 is rounded, once
in each wallet and once in the ledger row: `RoundedOff` is by how much they may differ.

Free requests (the owner's own, a price of zero, billing off) touch no wallet and
are left out. A crash between charge and refund leaves the charge; the code has
nothing that looks for it after a restart.

### SingleFlight

One cache key. `lock[p]` is the lock in process `p`, `step[r]` where a request is.
`Check`, `Acquire`, `BecomeWaiter`, `Recheck`, `LeadReturns`, `LeadFails`, `Poll`,
`Probe`, `Unprobe`, `GiveUp` are the statements of `execute()`; `Arrive` and `Store` are
the view's own read and write of the cache, before and after it; `DirectReturns` and
`DirectFails` the runner call outside the lock, which is also what the universal gateway
does. `leader[r]` (history) is the leader whose answer a waiter waits for; behind a lock
that is only being probed it is the prober's. Cache outages make a read a miss and a
write a no-op.

### Registry

`models` and `versions` are committed rows (a version carries the request that made it,
which stands for its id), `objects` the bucket (an object carries the request that wrote
it), `lock[m]` the transaction holding a model's row, `dep[d]` deployments as far as
deletions look at them, `req[r]` a request of any kind with what it has read. Every
object is stored in a step of its own (`Put`); `delete_prefix_paginated` is `List` and
then one of `Sweep`, `SweepPartly` (`delete_objects` answers 200 and names keys it kept,
which the code ignores; `spared` is a history of them) and `SweepFails` (it raises);
Django's `delete()` is `Collect` (read what cascades) and `Drop` or `DropFails` (the
transaction, which may fail at any time: its deferred foreign keys do when a deployment,
a log row or a key was added in between). `FailUpload` covers a refused archive, a
storage error and a failing insert: a new version rolls back, releases the lock and
cleans up; a new model cleans up only when all its files were stored.

What is abstracted: one list page and one batch per prefix (up to 1000 objects); which
rows refer to a version is kept for deployments only, so that `DropFails` needs no
cause; every bundle consists of the same files; a new model's name may be refused
whenever another model exists; teardown calls to the runner; the reconciler's row
look-ups are one step.

### Runner

The requests for one model: `dir` is the model's directory (for each name the download
that wrote it), `listed` what the bucket listed to each download, `stale` the downloads
whose completion mark is too old, `env` what there is of the environment, `builds` and
`preds` the free slots of the two semaphores, `req[r]` the threads. `Acquire` and `Busy`
are the two ways out of `acquire(timeout=...)`; `CheckMark` .. `MoveIn` are
`_download_s3_artifact` with `_safe_replace_dir` and `_attempt_remove_dir`, one step per
look, listing, unlink, rmdir and rename, because other threads do the same to the same
path; `ReadManifest`, `CreateVenv`, `InstallRequirements`, `Validate` are the rest of
`init_model`, `RunBridge` of `predict`; a teardown removes what it listed, part by part.
A listing is any subset of the bundle, none of it included, because pages without
`Contents` are skipped and the mark is written after whatever was listed. Removals are
best effort as in the code: a failed download may leave any part of its partial
directory, and an unlink or a teardown's removal may be refused. `Crash` loses threads
and slots and keeps the disk.

What is abstracted: the errors of init (all answer 503 or 400); a file is there or not;
what the pages of a listing hold is chosen when the download begins; a bridge is any
success on complete files and any failure. `Old` stands for a download from before the
first request.

### WarmRuntime and ModelServer

Every thread that calls `/predict` or `/teardown`: `mlock` is the manager's lock, `pool`
its dictionary, `rt[t]` the runtime that thread `t` created, `proc[p]` the processes
with what is in their pipes, `th[t]` the thread. `Lookup`, `Evict`, `Create`, `Boot`,
`BootFails` are `get_or_create` and `stop_runtime`; `StopKill`, `StopClear` and the
three ways it returns are `stop()`, which its callers enter with or without the
runtime's own lock; `Enter` .. `ReadFails` are `predict()`; `Compute` is one turn of the
bridge's loop and `Die` the end of a process by itself.

What is abstracted: a lock is taken together with the reads that follow it at once;
the least recently used runtime is any runtime in the pool, so the claims do not
depend on the order of use; a pipe belongs to its process, so a descriptor that
is closed and used again by the kernel for another file is not modelled; the
process for each request when warm workers are off is in `Runner`.

`ModelServer` is what a caller sees: a call's input is run at most once, and the call
ends with its own result or with an error. It is not implied by the pipes: a
process that was late would answer the next caller with the previous result, and
the code prevents it by stopping every process whose exchange failed.

### BoundedCommand, Bundles, Access, Metrics

* `BoundedCommand` is the loop of `_run_bounded`: `Select` (which never waits longer
  than what is left), `Transfer` (feed without blocking, drain what is ready, cut at the
  cap and append a notice for every chunk past it: `notices`), `Poll`, then `Term` and
  `Kill` for a late command. The command is a process with a family: cooperative (it
  answers each unit of input and ends with it) or of any kind, which may never read,
  ignore SIGTERM, fork and keep the outputs open. Left out: the notice that a time-out
  appends once, `select()` itself failing, processes that leave the group, and a killed
  process that takes seconds to end. Output that arrives between the last read and
  `poll()` is lost, in the code and in the model; no property says otherwise.
* `Bundles` is an upload from archive to accepted directory: `_validate_entries` as one
  check of what is declared, extraction chunk by chunk with its running totals, the
  removal of everything on any failure, and `validate_manifest` with
  `validate_bundle_files` (which asks for `classFile` too when the format is a
  state_dict). Directory entries are checked and then skipped (`SkipDirectory`), so a
  directory exists only above a file. The archive library is external and may deliver more
  than an entry declares, which is what the second count is for. Names are model
  values with the path they normalise to, and paths have two levels, so that a file can
  be in the way of a directory and the reverse (`BundleAssumption`).
* `Access` has a universal key (authentication) and a model's key (permission), with one
  step per query and save, so a revocation falls between any two of a check.
* `Metrics` has both ways in which `_compute_metrics` is fed, a query and a list, over
  the rows the gateway writes; `IsPercentile` is a definition without interpolation.

`MCParts` checks these four, one at a time: they share no state.

## 3. Runs

| Run | Question | States |
|---|---|---|
| `deployments_races` | every interleaving of two requests, two workers, reaper and one retry, no faults: `AtMostOneActive`, `UnfinishedHasOwner`, `RunningLosesEnvToOthersOnly`, and `LifecycleSpec` (Deployments implements DeploymentLifecycle) | 1.57 M |
| `deployments_live` | fairness, two faults (crash, lost request, redelivery), a lock that a build outlives: `BuildingResolves`, `LockIsReleased`, `SettlesWithoutFaults`, `OneBuildAtATime`, typing | 278 k |
| `deployments_cleanup` | finding: `CleanupKeepsTerminal` | violated |
| `billing` | `WalletsAgreeWithLedger`, `ChargeMatchesOutcome`, `OverdrawnByRefundOnly`, `SomeHolderGoesOn`, `AccountsSpec` (Billing implements Accounts), `EveryRequestEnds` | 26 k |
| `billing_refund` | finding: `FailureIsFree` | violated |
| `singleflight` | `LockHeldByActor`, `OneLeaderPerProcess`, `FallbackAfterItsLeader`, `EveryRequestEnds` | 414 k |
| `registry_safety` | `UploadsAreExclusive`, `VersionsAreIntact`, `NothingIsStranded` | 546 k |
| `registry_cleanup` | finding: `CleanupKeepsOthers` | violated |
| `runner` | `SlotsMatchHolders`, `SoloDownloadsAreWhole`, `BuildsDontInterfere`, `NobodyWaitsForever`, `RequestsMoveOn`, `PublishedWhole` | 1.17 M |
| `runner_marker` | finding: `MarkedIsComplete` | violated |
| `warm` | `ServerSpec` (WarmRuntime implements ModelServer), `PoolIsSound`, `LockHoldersGoOn`, `EveryCallEnds` | 201 k |
| `parts` | `KeptIsAPrefix`, `TimeoutEndsTheGroup`, `CommandReturns` (commands), `ExtractionIsSafe`, `MetricsAreSound`, `RevocationIsFinal` | 1.17 M |

### Bounds, and why they are enough

* *Deployments*: the hazards are between deployments of one version, so there is one
  version. Two deployments are an old and a new one; two threads and two workers
  give every race of two writers, with the reaper and the broker as third and
  fourth. One retry (the code has three) has all of first, last and repeated attempt.
  The safety run has no fault (an instance with one, 1.30 M states, was checked
  too); the live run has two and a lost lock, for one deployment.
  Rows, threads and workers are symmetric in the safety run.
* *Billing*: two users are each other's creators, which makes the opposite lock
  orders. The price is 6 units (0.0003 credits), whose half the columns round. The
  starting balance of 4 does not pay for a request: a user pays after a deposit of 2, or
  from what the other one's request earned, so that a refund can find that its creator
  has spent the credits. That takes a wallet below zero, which is the case that
  `OverdrawnByRefundOnly` is about. The safety properties are proved for any number of
  users and requests and every price.
* *SingleFlight*: three threads of a process are a leader, a waiter that probes, and a
  third one that meets the probe's lock; a request of another process and a
  universal one fill the cache from outside. One time-out, failure, outage and
  expiry each.
* *Registry*: three requests of any kind are, for example, two uploads and a
  deletion, two deletions of one row and the upload that takes its number, or a failed
  upload, its successor and the reconciler. Two files make a half-written bundle and a
  deletion of which storage keeps one key; version numbers up to 3; one failure, one
  error of storage, one crash.
* *Runner*: three requests of any kind, so two that download beside a third that
  reads or tears down; two files (the manifest and another), of which a listing has any,
  and the mark; one slot each, so every second request meets a full semaphore; marks
  that age, one crash. `View` (in `MCRunner`) identifies states that differ only in what
  nobody looks at any more: how a request ended and what it left in its own partial
  directory, the listing and the age of a download of which nothing is left. No guard
  and no property reads them, so nothing is lost (without it there are over 30 M states).
* *WarmRuntime*: a pool of one and two models, so every creation evicts; two
  predictions, of one model or of both, beside a teardown; one restart for each
  runtime and one death. Three predictions were checked for safety too (2.9 M
  states).
* *Parts*: six units of input against pipes of two fill all three pipes of a command; an
  output may be cut after any of its four units. Archives of up to three entries over
  three paths, one below another, with entries of every size around both limits and a
  second spelling of the manifest's name. Three log rows, of every kind, and a sample of
  two. Three requests for a key are a use, a revocation and a later use.

### Fairness

* *Deployments*: weak fairness of a request that was accepted, of the delivery of each
  message to some worker, of each execution (each call it makes has a timeout), of a
  Redis key's expiry, and of the reaper, which `docs/alerts.md` tells the operator to
  run. A client never has to send anything; crashes are not fair and are bounded.
* *Billing*, *SingleFlight*: weak fairness of each request's thread. A wallet lock
  that is free again is granted in the end because no step takes it away for ever:
  the instances have as many requests as threads. In `SingleFlight` reaching the
  waiter's time-out is bounded at once and not forced, so progress rests on the probe.
* *WarmRuntime*: weak fairness of each thread. Every wait but those for the two locks has
  a time-out in the code, which is why `BootFails` and `ReadFails` need no cause. Nothing
  is assumed of the processes.
* *BoundedCommand*: weak fairness of the runner's thread, and of a command that plays
  its part. The deadline need not come, so that a cooperative command's end rests on
  the loop and not on the time-out.
* `Runner` states with ENABLED that no request is stuck, and with `RequestsMoveOn` that
  each takes finitely many steps; it needs no fairness for either. `DeploymentLifecycle`,
  `Accounts`, `ModelServer`, `Registry` and the rest state safety only.

### Findings

Each is a run whose single property TLC violates; `PROJECT.json` quotes the sentence
of the repository it contradicts.

1. `_mark_failed` decides on an unlocked copy: a stop in between is overwritten by
   FAILED (`deployments_cleanup`).
2. A refund whose model was deleted meanwhile rolls back: a failed inference stays
   charged (`billing_refund`).
3. The clean-up of a failed version upload runs after its row lock is gone and can
   delete the files of the next upload with the same number (`registry_cleanup`).
4. Two requests that find the completion mark stale replace the model's directory at
   the same time: one unlinks files of the other's download and leaves its fresh
   mark beside an incomplete bundle (`runner_marker`).

Five more disagreements follow from what the modules say of the code. Each has a property
that TLC violates under a configuration of its own, kept for reference and not among the
runs above; the properties of the runs state what holds in spite of it.

| Configuration, module | Property | What happens | The repository's sentence |
|---|---|---|---|
| `Billing_rounding.cfg`, `MCBilling` | `LedgerIsExact` | each column rounds half of an odd price (0.0003) for itself, so balances are not what the ledger adds up to | `billing/models.py:25`: "Immutable audit log of every credit movement" |
| `Registry_deletion.cfg`, `MCRegistry` | `DeletionKeepsOthers` | a second deletion of a version that is gone already deletes by the number, which a new upload may have by then | `model_registry/views.py:386`: "This prefix belongs only to the newly allocated version" |
| `Registry_errors.cfg`, `MCRegistry` | `DeletionFailsClosed` | a key that storage names as not deleted, in a successful response, is ignored: the row goes and the object stays | `model_registry/views.py:477-478`: "fail closed: a storage error must not silently remove the database record" |
| `Runner_listing.cfg`, `MCRunner` | `ReusedIsWhole` | a short or empty listing is marked as a completed download and reused for an hour | `runners/worker.py:64-65`: "completed downloads are marked atomically and re-validated before reuse" |
| `Parts_output.cfg`, `MCParts` | `OutputIsCapped` | every chunk past the output budget appends one more notice to what is kept | `runners/worker.py:375-377`: "Output is capped to a fixed diagnostic budget" |

## 4. Proofs

The theorems hold for every value of the constants that the named ASSUMEs allow:
any number of deployments, workers, users, requests, models, files, keys, processes,
any price, pipe size and budget. Typing is proved for every module that has a type
invariant; the runs of `SingleFlight`, `Registry`, `Runner` and `WarmRuntime` leave it to
the proof.

* **`DeploymentsProofs`.** `TypeCorrect` is typing. `LockHeldCorrect` is the inductive
  invariant: while no build outlived its lock, an execution for `d` that is past
  `cache.add` and before its delete is the one the key names. `OneBuildAtATime`
  is not inductive by itself, because a second `AcquireLock` is excluded only by the
  key; it follows from the invariant at once (`BuildMutualExclusion`).
  `UniqueActive` (`AtMostOneActive`) needs one lemma, `RowWriters`, which names the
  actions that write a row, and looks at the unique index in each of them.
  `PresentCorrect` relates rows to those who work on them: an insert that is still to
  come has its id to itself, an execution past its first transaction and the reaper have
  seen the row past PENDING. `SettlingCorrect` bounds what a saved copy may be: while no
  build outlives its lock, what `_mark_failed` has seen is what it may write back. Both
  rest on lemmas that say once what any step does to requests, executions and messages.
  `LifecycleRefined` follows: Deployments implements `DeploymentLifecycle` under
  `[](slow = 0)`. The hypothesis is needed: a build that outlives its lock runs beside a
  second one, whose copy may say RUNNING, and `_mark_failed` saves it over a row that was
  stopped meanwhile. `deployments_races` checks the same case (`MaxSlow = 0`).
  `LifecycleUntilSlow` drops the hypothesis: in every behaviour each step that is taken while no
  build has outlived its lock is a step of the lifecycle, so nothing that happens later
  can spoil what went before.
  `RunningKeepsEnv` (`RunningLosesEnvToOthersOnly`) extends the claim to an execution
  between the runner's answer and its second transaction, when a teardown may still come.
  `UnfinishedOwned` (`UnfinishedHasOwner`) needs `OneTokenCorrect`: while nothing has
  failed a deployment is carried by one hand at a time (its creator, one message, one
  execution), so no message meets a lock that somebody else holds and is dropped.
* **`BillingProofs`.** The inductive invariant `BillingInv` joins typing, `TwoParties`
  (a request that started is between two different users), `RowLocks` (a copy a
  transaction holds is the current row, and one transaction holds it) and `PaidSoFar`
  (what a request has paid at each step). `RowLocks` is what makes a read-compute-write
  atomic: `CommitIsTransfer` turns a commit computed from copies into the atomic
  transfer of `Accounts`, and `Refinement` follows (Billing implements Accounts).
  `ChargesCorrect` and `TypeCorrect` are consequences of `PaidSoFar`.
  `LedgerCorrect` (`WalletsAgreeWithLedger`) is for every price. What is stored is a whole
  number of 0.0001 (`Even`), so only a discount is ever rounded, and wallet and ledger
  differ by 0.0001 at most for each one: the bound counts the requests that got one
  (`FewDiscounted`). It is zero, and they agree exactly, when half of the price can be
  stored; `LedgerIsExact` shows that otherwise they do not. `OverdraftsCorrect` uses that
  a debit checks the balance of the row it holds.
  `WaitingEnds` (`SomeHolderGoesOn`) is freedom from deadlock for any number of users. A
  transaction that holds one wallet and waits for the other holds the one with the smaller
  key (`LockOrder`), and each wallet has one holder (`RowLocks`). Users may be infinitely
  many; the wallets that are held are finitely many, because the requests are (`FewHolders`),
  so one of them has the largest key. Its holder waits for a wallet with a larger key
  still, which nobody holds, or for none.
* **`SingleFlightProofs`.** `LockHeldCorrect` is `LockHeldByActor` with typing, inductive
  as it stands because every path out of `execute()` resets the lock;
  `LeaderUnique` (`OneLeaderPerProcess`) follows: two leaders would both be the holder.
  `FallbackCorrect` (`FallbackAfterItsLeader`) rests on `FollowsALeader`: the request in
  `leader[r]` is one of `r`'s own process that leads there or is done, and past a
  successful probe it is done, because a leader keeps the lock until it is.
* **`RegistryProofs`.** `TypeCorrect` carries `Filled` along: a request that has begun
  knows its kind, its model and, when it stores files, its number. `UploadsCorrect`
  (`UploadsAreExclusive`) rests on `Exclusive`: a version upload that stores files
  holds its model's row lock and has a number that no row has (`LockedFor`); the
  model of a new upload is in no row and, the reconciler aside, in no other request
  (`FreshFor`); every row was made by an upload that is over (`Made`), which is what
  keeps a new model's id out of the rows. The number is free because it is one more
  than the largest (`NextNumberIsFree`), and a largest one exists because the numbers
  are a finite set (`MaxOfFinite`, from the well-foundedness of proper inclusion).
  `VersionsCorrect` (`VersionsAreIntact`) adds `AllApart` (the id of a model whose
  upload is not done is in no row and, the reconciler aside, in no other request),
  `Numbered` (a number of a model is one row's) and `Kept`: a row has its bundle, and an
  upload the part it has stored, unless somebody has swept the prefix for a reason the
  property names. A deletion is such a reason for the row it was asked for, known by its
  maker, and for another one only if its own row was deleted before: while a deletion goes
  on its row is there, unless another deletion took it (`AllBacked`), and as long as it is
  there nobody else has its number. `StrandedCorrect` (`NothingIsStranded`)
  turns the question round: `Listed` (what a clean-up or a deletion has listed is all that
  is left to delete) and `Accounted` (a reason for every object, having been kept by
  storage among them). Both look at a step only through what it does to one request, the
  rows and the bucket.
* **`RunnerProofs`.** `SlotsCorrect` counts: each step of a request either keeps its
  part in a semaphore or moves one slot (`Balanced`), so that free slots and holders
  add up. `PublishedCorrect` (`PublishedWhole`) needs `Gathered`: what a request is
  about to move in is its mark and all that it had listed. `SoloCorrect`
  (`SoloDownloadsAreWhole`) needs `Alone`: without an overlap the one
  request that replaces the directory found it incomplete or too old, so removing files
  from it never makes a complete directory a partial one. Both are about what a download
  had listed, and hold for every listing and whatever is left behind by refused removals.
  `BuildsCorrect` assumes
  `MaxBuilds = 1`, the default of `RUNNER_MAX_CONCURRENT_BUILDS`; with two slots it
  is false, because the environment of a model has one path. `MovesCorrect`
  (`RequestsMoveOn`) is the half of termination that needs no ENABLED: every step of a
  request leads to a later stage (`Onward` lists them) or leaves a smaller set to fetch or
  remove, and whatever the others do on the same paths, or a crash, never sends it back.
  The requests and the files of a bundle are finite sets (`RunnerAssumption`).
* **`WarmProofs`.** `ServerCorrect` is the refinement of `ModelServer`. Its invariant
  has four parts beyond typing, each resting on the one before: who exchanges with a
  process or restarts it holds the runtime's lock (`Locked`); two runtimes never have
  the same process (`OneProcessEach`); what is in the pipes of a runtime's process
  belongs to the call that holds its lock, and either still waits for it or is about to
  kill it (`Paired`); an input is in one pipe at most, before it was run, and a result
  after it was (`Counted`). A call that is answered then read its own result (`Given`).
  `PoolCorrect` (`PoolIsSound`) counts the pool by the manager's lock: whoever makes a
  runtime found room for it, and its model is not in the pool. Its second half says
  where every living process is: with a pooled runtime, or with one that some thread
  makes or is about to stop. It holds until a runtime is stopped under a call, which
  then restarts it outside the pool. `LocksAreTakenOneAtATime` (`LockHoldersGoOn`) needs
  `Careful`: the step of a thread says which lock it holds, and before it asks for one
  it holds none. Every path out of `stop()` and `start()` counts, so a holder that ended
  its call with a lock in hand, or asked for a second one, would break it.
  `WarmAssumption` also says that `None` is not one of the three ways on after `stop()`.
* **`CommandProofs`.** `PrefixCorrect` (`KeptIsAPrefix`) strengthens to `Cut`: for each
  output either everything taken was kept and counted and there is no notice, or the
  budget was counted as full at the cut and there is one at least. How many there are is
  bounded by nothing but the reads (`OutputIsCapped`). `GroupCorrect`
  (`TimeoutEndsTheGroup`) needs that a late command's leading process was not reaped
  before the group was signalled (`Group`).
* **`PartsProofs`.** `RevocationCorrect` (`RevocationIsFinal`): a revoked key stays inactive
  because the save of its time of use writes that field only (`Dead`), and a request that
  found its key active did not begin after the revocation (`Trusted`).
  `ExtractionCorrect` (`ExtractionIsSafe`) is about every archive and all limits. The bytes
  on disk are a fold over the paths, in an order the definition leaves open; `BytesGrow`
  says that they grow by at most what one path grows by, and rests on the sums' existence
  and uniqueness (`SumsExist`, `SumsAgree`), by a minimal counterexample among the sets of
  paths. Then the running totals bound the disk (`Between`, `Writing`): a file
  written again is counted twice and stored once, so the total is an upper bound and
  no more. `LastFor` carries from entry to entry that the disk has all of the last one, and
  `Extracted` that every file of the archive so far has its file.
  `PercentileCorrect`: `calculate_percentile` of any sorted list is a percentile
  (`IsPercentile`), with no bound on the list's length or values. `MetricsCorrect`
  (`MetricsAreSound`) goes from the rows of the log to the answer: a sorted column ascends
  (`SortedIsSorted`), so `PercentileCorrect` is about it; every row is a success or an error;
  and for rows of today's gateway that fit the sample the query and the list take the same
  latencies (`SameLatencies`) and the same computing times (`ComputeIsSmall`). Sorting and
  filtering are written with ranks (an element's place is the number of elements before
  it), because the library's `SortSeq`
  and `SelectSeq` are recursive and opaque to the provers; that every place is taken
  once (`ArrangedByRank`) is by a minimal counterexample. `LogAssumption` bounds nothing: it
  says what values a row of the log may have.

Only model-checked:

* everything with fairness or ENABLED, which the prover does not handle: `EveryRequestEnds`
  (twice), `EveryCallEnds`, `CommandReturns`, `BuildingResolves`, `LockIsReleased`,
  `SettlesWithoutFaults`, `NobodyWaitsForever`;
* the findings, which are violated.

What a recursive definition computes for every input (induction over data) is out of the
prover's reach too, and no module that is proved about uses a RECURSIVE operator.

## 5. Plan

Done: the modules above, their runs, and the proofs of section 4. Left, the most
important first:

1. The safety part of `CommandReturns` as a theorem: that a late command has a signal to come.
2. `LifecycleSpec` when a build outlives its lock: which edge `_mark_failed` adds then.
3. `Deployments` composed with `Runner`: an environment of two parts in the place of
   the one Boolean.
4. The price of a model as a variable of `Billing`, with the marketplace's PATCH.

## 6. Not modelled, and why

* Celery's hard time limit (900 s; the soft one raises an exception and is
  `RunnerFails`) and its eager mode; database errors inside a transaction of
  `Deployments`; a runner that goes on after its client's time-out; rows that the
  registry's cascade takes away from `Deployments`.
* The deletion of a version while it is being deployed (the registry looks at
  deployments once, without a lock): the model reaches it, and no sentence of the
  repository promises otherwise, so no run states it.
* The creation of a missing wallet, the overflow of a balance, deleted users.
* The fields of a row other than those named above: a deletion may also fail on a log
  row, an API key or a ledger row that was added meanwhile, which `DropFails` covers
  without modelling those tables; a version's deletion of more than one page of objects.
* Two stops of one runtime that race for its `_stderr_thread` (`worker.py:1088-1089`): one
  of them may find None after the other's check, and its AttributeError would skip the
  removal of the runtime from the pool.
* Log rows that other views write than the gateway's (`Metrics` takes the kinds of rows
  as a constant, and `WriteLog` is the gateway's place).
* The growth of single-flight's table of locks: memory, over distinct keys.
* The runner's readiness, health and metrics answers, which only read; its service
  token; processes that leave their group; file descriptors used again.
* JSON schemas of predictions, key hashing, which log rows a user may see, rounding of
  milliseconds: formatting or a library's work.
* Sessions, throttling, listings, the error envelope, the frontend: one row write or
  none, and the framework's own machinery. The marketplace's PATCH writes a whole
  row it read without a lock, so that of two edits at a time one is lost.
