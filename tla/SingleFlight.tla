---------------------------- MODULE SingleFlight ----------------------------
(***************************************************************************)
(* Cold prediction requests for one cache key (one model version and one   *)
(* payload): PredictAPIView goes through single_flight.execute(), whose    *)
(* locks are per API process; UniversalInferenceAPIView shares the cache   *)
(* and calls the runner directly.                                          *)
(*                                                                         *)
(* Every read of the cache, every attempt on the lock and every return of  *)
(* the runner is a step.  The view stores the leader's answer after        *)
(* execute() has returned, so after the lock was released.                 *)
(***************************************************************************)
EXTENDS Naturals, FiniteSets

CONSTANTS
  Procs,        \* API processes
  Reqs,         \* requests, each on a thread of its own
  ProcOf,       \* the process each request is served by
  Universal,    \* the requests that come through the universal gateway
  MaxTimeouts,  \* bound: waiters that reach lock_timeout_sec
  MaxFailures,  \* bound: runner calls that fail
  MaxOutages,   \* bound: cache.get() or cache.set() that raise
  MaxExpiries,  \* bound: times the cached answer expires
  None

ASSUME ProcOfAssumption == ProcOf \in [Reqs -> Procs]
ASSUME UniversalAssumption == Universal \subseteq Reqs
ASSUME BoundsAssumption ==
  {MaxTimeouts, MaxFailures, MaxOutages, MaxExpiries} \subseteq Nat
ASSUME NoneAssumption == None \notin Reqs

VARIABLES
  cached,      \* the prediction cache holds an answer for the key
  lock,        \* lock[p]: the request holding process p's lock for the key, or None
  step,        \* step[r]: where request r is
  leader,      \* leader[r]: the leader whose answer r waits for, or None (history)
  timeouts, failures, outages, expiries

vars == <<cached, lock, step, leader, timeouts, failures, outages, expiries>>
counters == <<timeouts, failures, outages, expiries>>

Leading == {"recheck", "lead"}
Ended   == {"hit", "answered", "error"}
Steps   == {"idle", "check", "acquire", "wait", "probe", "probed", "direct", "store"}
             \cup Leading \cup Ended

StepTo(r, s) == step' = [step EXCEPT ![r] = s]
Lock(r) == lock[ProcOf[r]]
Forget(r) == leader' = [leader EXCEPT ![r] = None]
SetLock(r, holder) == lock' = [lock EXCEPT ![ProcOf[r]] = holder]

\* cache.get() finds nothing, or raises, which safe_get_cache makes a miss.
Miss == \/ ~cached /\ UNCHANGED outages
        \/ outages < MaxOutages /\ outages' = outages + 1

ReadsCache(r, hit, miss) ==
  /\ \/ cached /\ StepTo(r, hit) /\ UNCHANGED outages
     \/ Miss /\ StepTo(r, miss)
  /\ UNCHANGED <<cached, timeouts, failures, expiries>>
------------------------------------------------------------------------------
\* The view's own look in the cache.
Arrive(r) ==
  /\ step[r] = "idle"
  /\ ReadsCache(r, "hit", IF r \in Universal THEN "direct" ELSE "check")
  /\ UNCHANGED <<lock, leader>>

\* execute(): "First check cache".
Check(r) ==
  /\ step[r] = "check"
  /\ ReadsCache(r, "hit", "acquire")
  /\ UNCHANGED <<lock, leader>>

\* Mutant: a lock of its own for every request.
AcquireAnyway(r) ==
  /\ step[r] = "acquire"
  /\ SetLock(r, r) /\ StepTo(r, "recheck")
  /\ UNCHANGED <<cached, leader, counters>>

\* lock.acquire(blocking=False): the leader, or one more waiter.
Acquire(r) ==
  /\ step[r] = "acquire"
  /\ Lock(r) = None
  /\ SetLock(r, r) /\ StepTo(r, "recheck")
  /\ UNCHANGED <<cached, leader, counters>>

\* Who fails to get the lock waits for its holder, or for the leader that a holder
\* who only probes has waited for.
LeaderBehind(h) == IF step[h] = "probed" THEN leader[h] ELSE h

BecomeWaiter(r) ==
  /\ step[r] = "acquire"
  /\ Lock(r) # None
  /\ StepTo(r, "wait")
  /\ leader' = [leader EXCEPT ![r] = LeaderBehind(Lock(r))]
  /\ UNCHANGED <<cached, lock, counters>>

\* The leader's second look; a hit releases the lock on the way out.
Recheck(r) ==
  /\ step[r] = "recheck"
  /\ ReadsCache(r, "hit", "lead")
  /\ IF step'[r] = "hit" THEN SetLock(r, None) ELSE UNCHANGED lock
  /\ UNCHANGED leader

\* execute_fn() returns and the finally block releases the lock.
LeadReturns(r) ==
  /\ step[r] = "lead"
  /\ SetLock(r, None) /\ StepTo(r, "store")
  /\ UNCHANGED <<cached, leader, counters>>

\* The runner raised or answered 400 or more: released, and nothing is stored.
LeadFails(r) ==
  /\ step[r] = "lead"
  /\ failures < MaxFailures /\ failures' = failures + 1
  /\ SetLock(r, None) /\ StepTo(r, "error")
  /\ UNCHANGED <<cached, leader, timeouts, outages, expiries>>

\* A waiter polls the cache ...
Poll(r) ==
  /\ step[r] = "wait"
  /\ ReadsCache(r, "hit", "probe")
  /\ IF step'[r] = "hit" THEN Forget(r) ELSE UNCHANGED leader
  /\ UNCHANGED lock

\* Mutant: a waiter does not look whether the leader is gone.
ProbeNothing(r) ==
  /\ step[r] = "probe"
  /\ StepTo(r, "wait")
  /\ UNCHANGED <<cached, lock, leader, counters>>

\* Mutant: a waiter polls once and goes on, whoever holds the lock.
ProbeGivesUp(r) ==
  /\ step[r] = "probe"
  /\ StepTo(r, "direct")
  /\ UNCHANGED <<cached, lock, leader, counters>>

\* ... and tries the lock, to see whether the leader is gone.
Probe(r) ==
  /\ step[r] = "probe"
  /\ \/ Lock(r) # None /\ StepTo(r, "wait") /\ UNCHANGED lock
     \/ Lock(r) = None /\ StepTo(r, "probed") /\ SetLock(r, r)
  /\ UNCHANGED <<cached, leader, counters>>

\* Mutant: the waiter breaks out of its loop with the lock in hand.
UnprobeLocked(r) ==
  /\ step[r] = "probed"
  /\ StepTo(r, "direct")
  /\ UNCHANGED <<cached, lock, leader, counters>>

\* lock.release(); break.
Unprobe(r) ==
  /\ step[r] = "probed"
  /\ SetLock(r, None) /\ StepTo(r, "direct")
  /\ UNCHANGED <<cached, leader, counters>>

\* The loop's condition: the waiter has waited for lock_timeout_sec.
GiveUp(r) ==
  /\ step[r] = "wait"
  /\ timeouts < MaxTimeouts /\ timeouts' = timeouts + 1
  /\ StepTo(r, "direct")
  /\ UNCHANGED <<cached, lock, leader, failures, outages, expiries>>

\* The runner call outside the lock: a waiter's fallback, or the universal gateway's.
DirectReturns(r) ==
  /\ step[r] = "direct"
  /\ StepTo(r, "store") /\ Forget(r)
  /\ UNCHANGED <<cached, lock, counters>>

DirectFails(r) ==
  /\ step[r] = "direct"
  /\ failures < MaxFailures /\ failures' = failures + 1
  /\ StepTo(r, "error") /\ Forget(r)
  /\ UNCHANGED <<cached, lock, timeouts, outages, expiries>>

\* The view: cache.set(), whose exception is swallowed, then the answer.
Store(r) ==
  /\ step[r] = "store"
  /\ \/ cached' = TRUE /\ UNCHANGED outages
     \/ outages < MaxOutages /\ outages' = outages + 1 /\ UNCHANGED cached
  /\ StepTo(r, "answered")
  /\ UNCHANGED <<lock, leader, timeouts, failures, expiries>>

\* PREDICTION_CACHE_TTL_SECONDS pass.
Expire ==
  /\ cached /\ cached' = FALSE
  /\ expiries < MaxExpiries /\ expiries' = expiries + 1
  /\ UNCHANGED <<lock, step, leader, timeouts, failures, outages>>

Init ==
  /\ cached = FALSE
  /\ lock = [p \in Procs |-> None]
  /\ step = [r \in Reqs |-> "idle"]
  /\ leader = [r \in Reqs |-> None]
  /\ timeouts = 0 /\ failures = 0 /\ outages = 0 /\ expiries = 0

RequestStep(r) ==
  \/ Check(r) \/ Acquire(r) \/ BecomeWaiter(r) \/ Recheck(r)
  \/ LeadReturns(r) \/ LeadFails(r)
  \/ Poll(r) \/ Probe(r) \/ Unprobe(r) \/ GiveUp(r)
  \/ DirectReturns(r) \/ DirectFails(r) \/ Store(r)

Next == \/ \E r \in Reqs : Arrive(r) \/ RequestStep(r)
        \/ Expire

Spec == Init /\ [][Next]_vars

\* A thread that serves a request is scheduled, and runner calls have a timeout.
LiveSpec == Spec /\ \A r \in Reqs : WF_vars(RequestStep(r))
------------------------------------------------------------------------------
(* Properties *)

TypeOK ==
  /\ cached \in BOOLEAN
  /\ lock \in [Procs -> Reqs \cup {None}]
  /\ step \in [Reqs -> Steps]
  /\ leader \in [Reqs -> Reqs \cup {None}]
  /\ timeouts \in 0 .. MaxTimeouts /\ failures \in 0 .. MaxFailures
  /\ outages \in 0 .. MaxOutages /\ expiries \in 0 .. MaxExpiries

\* A process's lock is held by exactly the request that leads there or has just won
\* it in a probe: no path out of execute() keeps it, whoever failed.
LockHeldByActor ==
  \A p \in Procs, r \in Reqs :
    lock[p] = r <=> ProcOf[r] = p /\ step[r] \in Leading \cup {"probed"}

\* In one process at most one request leads, also while waiters try the lock.
OneLeaderPerProcess ==
  \A r, q \in Reqs :
    step[r] \in Leading /\ step[q] \in Leading /\ ProcOf[r] = ProcOf[q] => r = q

\* What suppression is worth: as long as no waiter timed out, a waiter calls the
\* runner itself only when the leader of its process that it waits for, if need be
\* through a waiter that was probing the lock, is done with its own call.  Its answer
\* may not be in the cache yet, or it has failed.
FallbackAfterItsLeader ==
  timeouts = 0 =>
    \A r \in Reqs \ Universal :
      step[r] = "direct" =>
        \E q \in Reqs : /\ q = leader[r] /\ ProcOf[q] = ProcOf[r]
                       /\ step[q] \in {"store"} \cup Ended

\* Every request is answered, also if its leader fails, and not because waiters
\* time out: they find the lock free, or their leader is answered first.
EveryRequestEnds == \A r \in Reqs : step[r] = "check" ~> step[r] \in Ended
==============================================================================
