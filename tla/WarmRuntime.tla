----------------------------- MODULE WarmRuntime -----------------------------
(* The pool of warm model processes behind /predict: WarmRuntime and           *)
(* WarmRuntimeManager in runners/worker.py, and the request loop of            *)
(* runners/worker_bridge.py at the other end of each pair of pipes.            *)
(* A runtime is named after the thread whose get_or_create made it, a process  *)
(* after the thread that started it and the reason ("new" or "again").         *)
(* A pipe is known by its process, not by its descriptor number: a thread that *)
(* waits on a killed process's pipe is woken before stop(), 0.4 s after the    *)
(* kill, closes it. Taking a lock and the reads that follow are one step, and  *)
(* so are the writes before a release and the release.                         *)
EXTENDS Naturals, FiniteSets

CONSTANTS
    Threads,      \* requests, each served by a thread of its own
    Models,
    Workloads,    \* what the threads may be asked for: kind and model, by thread
    MaxModels,    \* RUNNER_MAX_WARM_MODELS
    MaxRestarts,  \* the restart budget of a runtime (3 in the code)
    MaxDeaths,    \* bound on processes that die by themselves
    None

ASSUME WarmAssumption ==
    /\ MaxModels \in Nat \ {0} /\ MaxRestarts \in Nat /\ MaxDeaths \in Nat
    /\ None \notin Threads \cup Models \cup (Threads \X {"new", "again"})
    /\ None \notin {"forget", "raise", "restart"}
    /\ Workloads \subseteq
         [Threads -> [kind : {"predict", "teardown"}, model : Models]]

Procs  == Threads \X {"new", "again"}
States == {"STARTING", "READY", "UNHEALTHY", "STOPPING", "STOPPED"}

VARIABLES
    mlock,     \* the thread that holds the manager's lock, or None
    pool,      \* the manager's runtimes, by model
    rt,        \* the runtimes: state, proc, lock, restart_count
    proc,      \* the processes: alive, the input and the result in its pipes
    th,        \* the threads
    ran,       \* history: how often the model was run on a thread's input
    deaths,    \* processes that died by themselves so far
    disturbed  \* history: a runtime was stopped while a call was using it

vars == <<mlock, pool, rt, proc, th, ran, deaths, disturbed>>

NoRuntime == [state |-> "STARTING", proc |-> None, lock |-> None, restarts |-> 0]
NoProcess == [alive |-> FALSE, input |-> None, result |-> None]

\* rt: the runtime the thread is working on; mine: the process stop() captured;
\* then: where the thread goes after stop(); got: whose result it was given.
NewThread(call) ==
    [kind |-> call.kind, model |-> call.model, pc |-> "want", rt |-> None,
     mine |-> None, then |-> None, got |-> None]

Init ==
    /\ mlock = None
    /\ pool = [m \in Models |-> None]
    /\ rt = [t \in Threads |-> NoRuntime]
    /\ proc = [p \in Procs |-> NoProcess]
    /\ \E w \in Workloads : th = [t \in Threads |-> NewThread(w[t])]
    /\ ran = [t \in Threads |-> 0] /\ deaths = 0 /\ disturbed = FALSE

At(t, pc)    == th[t].pc = pc
Alive(p)     == p # None /\ proc[p].alive
Usable(r)    == rt[r].state = "READY" /\ Alive(rt[r].proc)
Goto(t, pc)  == th' = [th EXCEPT ![t].pc = pc]

InCall == {"enter", "boot_again", "write", "read"}
Ended(t) == th[t].pc \in {"answered", "failed", "done"}

\* Threads besides t that are in rt.predict of runtime r, or about to be.
Users(t, r) == {u \in Threads \ {t} :
                  /\ th[u].kind = "predict" /\ th[u].rt = r
                  /\ th[u].pc \in InCall \/ th[u].then \in {"raise", "restart"}}

\* stop() is entered for runtime r: it takes note of the process there is now;
\* the thread goes on at `then` afterwards.
StopThen(t, r, then) ==
    /\ rt' = [rt EXCEPT ![r].state = "STOPPING"]
    /\ th' = [th EXCEPT ![t].pc = "kill", ![t].rt = r, ![t].then = then,
                        ![t].mine = rt[r].proc]
    /\ disturbed' = (disturbed \/ Users(t, r) # {})
----------------------------------------------------------------------------
(* get_or_create and stop_runtime, under the manager's lock.                   *)

\* A usable runtime is handed out; any other is stopped and forgotten.
Lookup(t) == LET r == pool[th[t].model] IN
    /\ At(t, "want") /\ mlock = None
    /\ \/ /\ th[t].kind = "predict" /\ r # None /\ Usable(r)
          /\ th' = [th EXCEPT ![t].pc = "enter", ![t].rt = r]
          /\ UNCHANGED <<mlock, rt, disturbed>>
       \/ /\ r # None /\ (th[t].kind = "teardown" \/ ~Usable(r))
          /\ StopThen(t, r, "forget") /\ mlock' = t
       \/ /\ th[t].kind = "predict" /\ r = None
          /\ Goto(t, "evict") /\ mlock' = t /\ UNCHANGED <<rt, disturbed>>
       \/ /\ th[t].kind = "teardown" /\ r = None
          /\ Goto(t, "done") /\ UNCHANGED <<mlock, rt, disturbed>>
    /\ UNCHANGED <<pool, proc, ran, deaths>>

Pooled == {m \in Models : pool[m] # None}

\* At the limit the least recently used runtime is stopped: here, any of them.
Evict(t) ==
    /\ At(t, "evict") /\ Cardinality(Pooled) >= MaxModels
    /\ \E m \in Pooled : StopThen(t, pool[m], "forget")
    /\ UNCHANGED <<mlock, pool, proc, ran, deaths>>

\* Popen in start(): of a new runtime, or of an old one in predict()
Spawn(r, p) ==
    /\ proc' = [proc EXCEPT ![p] = [NoProcess EXCEPT !.alive = TRUE]]
    /\ rt' = [rt EXCEPT ![r].state = "STARTING", ![r].proc = p]

CreateAtTheLimit(t) ==
    /\ At(t, "evict")
    /\ Spawn(t, <<t, "new">>)
    /\ th' = [th EXCEPT ![t].pc = "boot", ![t].rt = t]
    /\ UNCHANGED <<mlock, pool, ran, deaths, disturbed>>

Create(t) ==
    /\ At(t, "evict") /\ Cardinality(Pooled) < MaxModels
    /\ Spawn(t, <<t, "new">>)
    /\ th' = [th EXCEPT ![t].pc = "boot", ![t].rt = t]
    /\ UNCHANGED <<mlock, pool, ran, deaths, disturbed>>

\* The readiness frame arrives: the runtime is pooled and the lock is released.
Boot(t) ==
    /\ At(t, "boot") /\ Alive(rt[t].proc)
    /\ rt' = [rt EXCEPT ![t].state = "READY"]
    /\ pool' = [pool EXCEPT ![th[t].model] = t]
    /\ mlock' = None
    /\ Goto(t, "enter")
    /\ UNCHANGED <<proc, ran, deaths, disturbed>>

\* It does not: start() stops the process and raises; nothing is pooled.
BootFails(t) ==
    /\ At(t, "boot") \/ At(t, "boot_again")
    /\ StopThen(t, th[t].rt, "raise")
    /\ UNCHANGED <<mlock, pool, proc, ran, deaths>>
----------------------------------------------------------------------------
(* WarmRuntime.stop(), entered by StopThen, under whatever lock its            *)
(* caller holds, which need not be the runtime's own.                          *)

Return(t, pc) ==
    th' = [th EXCEPT ![t].pc = pc, ![t].then = None, ![t].mine = None]

StopKill(t) ==
    /\ At(t, "kill")
    /\ proc' = [p \in Procs |-> IF p = th[t].mine THEN NoProcess ELSE proc[p]]
    /\ Goto(t, "clear")
    /\ UNCHANGED <<mlock, pool, rt, ran, deaths, disturbed>>

StopClear(t) ==
    /\ At(t, "clear")
    /\ rt' = [rt EXCEPT ![th[t].rt].proc = IF th[t].mine = None THEN @ ELSE None]
    /\ Goto(t, "stopped")
    /\ UNCHANGED <<mlock, pool, proc, ran, deaths, disturbed>>

\* After the last assignment the runtime is taken out of the pool (del
\* self.runtimes[...]), ...
StopForgets(t) ==
    /\ At(t, "stopped") /\ th[t].then = "forget"
    /\ rt' = [rt EXCEPT ![th[t].rt].state = "STOPPED"]
    /\ pool' = [m \in Models |-> IF pool[m] = th[t].rt THEN None ELSE pool[m]]
    /\ mlock' = IF th[t].kind = "teardown" THEN None ELSE t
    /\ Return(t, IF th[t].kind = "teardown" THEN "done" ELSE "evict")
    /\ UNCHANGED <<proc, ran, deaths, disturbed>>

\* ... started again, ...
StopRestarts(t) == LET r == th[t].rt IN
    /\ At(t, "stopped") /\ th[t].then = "restart"
    /\ Spawn(r, <<t, "again">>)
    /\ Return(t, "boot_again")
    /\ UNCHANGED <<mlock, pool, ran, deaths, disturbed>>

RaiseUnderTheLock(t) ==
    /\ At(t, "stopped") /\ th[t].then = "raise"
    /\ rt' = [rt EXCEPT ![th[t].rt].state = "STOPPED"]
    /\ mlock' = IF mlock = t THEN None ELSE mlock
    /\ Return(t, "failed")
    /\ UNCHANGED <<pool, proc, ran, deaths, disturbed>>

\* ... or the error is raised: it releases whatever locks the thread holds and is
\* answered 503 or 504.
StopRaises(t) ==
    /\ At(t, "stopped") /\ th[t].then = "raise"
    /\ rt' = [r \in Threads |->
                [rt[r] EXCEPT !.state = IF r = th[t].rt THEN "STOPPED" ELSE @,
                              !.lock  = IF @ = t THEN None ELSE @]]
    /\ mlock' = IF mlock = t THEN None ELSE mlock
    /\ Return(t, "failed")
    /\ UNCHANGED <<pool, proc, ran, deaths, disturbed>>
----------------------------------------------------------------------------
(* WarmRuntime.predict(), under the runtime's lock.                            *)

\* A runtime that is not ready is restarted, pooled or not, within its budget.
Enter(t) == LET r == th[t].rt IN
    /\ At(t, "enter") /\ rt[r].lock = None
    /\ \/ Usable(r) /\ Goto(t, "write")
          /\ rt' = [rt EXCEPT ![r].lock = t] /\ UNCHANGED disturbed
       \/ /\ ~Usable(r) /\ rt[r].restarts >= MaxRestarts
          /\ rt' = [rt EXCEPT ![r].state = "UNHEALTHY"]
          /\ Goto(t, "failed") /\ UNCHANGED disturbed
    /\ UNCHANGED <<mlock, pool, proc, ran, deaths>>

EnterStopped(t) == LET r == th[t].rt IN
    /\ At(t, "enter") /\ rt[r].lock = None
    /\ ~Usable(r) /\ rt[r].restarts < MaxRestarts
    /\ rt' = [rt EXCEPT ![r].lock = t, ![r].restarts = @ + 1, ![r].state = "STOPPING"]
    /\ th' = [th EXCEPT ![t].pc = "kill", ![t].then = "restart", ![t].mine = rt[r].proc]
    /\ disturbed' = (disturbed \/ Users(t, r) # {})
    /\ UNCHANGED <<mlock, pool, proc, ran, deaths>>

BootAgain(t) == LET r == th[t].rt IN
    /\ At(t, "boot_again") /\ Alive(rt[r].proc)
    /\ rt' = [rt EXCEPT ![r].state = "READY"]
    /\ Goto(t, "write")
    /\ UNCHANGED <<mlock, pool, proc, ran, deaths, disturbed>>

ExceptionLeavesProcess(t) ==
    /\ rt' = [r \in Threads |-> [rt[r] EXCEPT !.lock = IF @ = t THEN None ELSE @]]
    /\ Return(t, "failed")
    /\ UNCHANGED <<mlock, pool, proc, ran, deaths, disturbed>>

\* Any exception of the exchange: the process is stopped before the error is
\* raised, so that a late result cannot be taken for the next call's.
Exception(t) ==
    /\ StopThen(t, th[t].rt, "raise")
    /\ UNCHANGED <<mlock, pool, proc, ran, deaths>>

Write(t) == LET p == rt[th[t].rt].proc IN
    /\ At(t, "write") /\ Alive(p)
    /\ proc' = [proc EXCEPT ![p].input = t]
    /\ Goto(t, "read")
    /\ UNCHANGED <<mlock, pool, rt, ran, deaths, disturbed>>

\* The process has gone, the pipe stays full, or the input is too long.
WriteFails(t) == At(t, "write") /\ Exception(t)

Read(t) == LET p == rt[th[t].rt].proc IN
    /\ At(t, "read") /\ Alive(p) /\ proc[p].result # None
    /\ proc' = [proc EXCEPT ![p].result = None]
    /\ rt' = [rt EXCEPT ![th[t].rt].lock = None]
    /\ th' = [th EXCEPT ![t].pc = "answered", ![t].got = proc[p].result]
    /\ UNCHANGED <<mlock, pool, ran, deaths, disturbed>>

\* A time-out, the end of the stream, a malformed line or the model's own error.
ReadFails(t) == At(t, "read") /\ Exception(t)
----------------------------------------------------------------------------
(* The processes.                                                              *)

Compute(p) ==
    /\ proc[p].alive /\ proc[p].input # None /\ proc[p].result = None
    /\ proc' = [proc EXCEPT ![p].result = proc[p].input, ![p].input = None]
    /\ ran' = [ran EXCEPT ![proc[p].input] = @ + 1]
    /\ UNCHANGED <<mlock, pool, rt, th, deaths, disturbed>>

Die(p) ==
    /\ proc[p].alive /\ deaths < MaxDeaths
    /\ proc' = [proc EXCEPT ![p] = NoProcess]
    /\ deaths' = deaths + 1
    /\ UNCHANGED <<mlock, pool, rt, th, ran, disturbed>>
----------------------------------------------------------------------------
Manage(t) ==
    Lookup(t) \/ Evict(t) \/ Create(t) \/ Boot(t) \/ BootFails(t)
Stopping(t) == StopKill(t) \/ StopClear(t)
      \/ StopForgets(t) \/ StopRestarts(t) \/ StopRaises(t)
Predict(t) ==
    Enter(t) \/ EnterStopped(t) \/ BootAgain(t)
      \/ Write(t) \/ WriteFails(t) \/ Read(t) \/ ReadFails(t)

Serve(t) == Manage(t) \/ Stopping(t) \/ Predict(t)

Next ==
    \/ \E t \in Threads : Serve(t)
    \/ \E p \in Procs : Compute(p) \/ Die(p)

Spec == Init /\ [][Next]_vars

\* Threads run; every wait but those for the two locks has a time-out. Nothing is
\* assumed of the model processes.
LiveSpec == Spec /\ \A t \in Threads : WF_vars(Serve(t))
----------------------------------------------------------------------------
\* Typing, which WarmProofs proves: no runtime restarts more often than its budget.
WarmTypeOK ==
    /\ mlock \in Threads \cup {None}
    /\ pool \in [Models -> Threads \cup {None}]
    /\ rt \in [Threads -> [state : States, proc : Procs \cup {None},
                           lock : Threads \cup {None}, restarts : 0..MaxRestarts]]
    /\ proc \in [Procs -> [alive : BOOLEAN, input : Threads \cup {None},
                           result : Threads \cup {None}]]
    /\ th \in [Threads ->
                [kind : {"predict", "teardown"}, model : Models,
                 pc : InCall \cup {"want", "evict", "boot", "kill", "clear",
                                   "stopped", "answered", "failed", "done"},
                 rt : Threads \cup {None}, mine : Procs \cup {None},
                 then : {"forget", "raise", "restart", None},
                 got : Threads \cup {None}]]
    /\ ran \in [Threads -> Nat] /\ deaths \in 0..MaxDeaths /\ disturbed \in BOOLEAN

\* The pool never has more runtimes than its capacity, and unless somebody stopped
\* a runtime under a call, the processes that live on when all calls have ended
\* are those of the pool.
PoolIsSound ==
    /\ Cardinality(Pooled) <= MaxModels
    /\ (~disturbed /\ \A t \in Threads : Ended(t) \/ At(t, "want")) =>
         \A p \in Procs : Alive(p) => \E m \in Pooled : rt[pool[m]].proc = p

\* Nobody waits in a circle: a thread that holds the manager's lock or a runtime's
\* waits for neither, and has none left when its call has ended, however it ended.
Holds(t) == mlock = t \/ \E r \in Threads : rt[r].lock = t
LockHoldersGoOn ==
    \A t \in Threads : Holds(t) => ~Ended(t) /\ ~At(t, "want") /\ ~At(t, "enter")

\* Callers see ModelServer: at most one run of each input, own results or errors.
Phase(t) == CASE At(t, "answered") -> "answered"
              [] At(t, "failed")   -> "failed"
              [] At(t, "done")     -> "failed"
              [] OTHER             -> "waiting"

Server == INSTANCE ModelServer
    WITH Calls <- Threads,
         phase <- [t \in Threads |-> Phase(t)],
         ran   <- ran,
         got   <- [t \in Threads |-> th[t].got]
ServerSpec == Server!Spec

\* Every call and every teardown ends: nobody waits for ever for the manager's or
\* for a runtime's lock.
EveryCallEnds == \A t \in Threads : At(t, "want") ~> Ended(t)
=============================================================================
