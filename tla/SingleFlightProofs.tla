------------------------- MODULE SingleFlightProofs -------------------------
(***************************************************************************)
(* Theorems about module SingleFlight, for every set of processes and      *)
(* requests and every bound.                                               *)
(***************************************************************************)
EXTENDS SingleFlight, TLAPS

LEMMA BoundsAreNat ==
  /\ MaxTimeouts \in Nat /\ MaxFailures \in Nat
  /\ MaxOutages \in Nat /\ MaxExpiries \in Nat
BY BoundsAssumption

\* What reading the cache does to the types.
LEMMA ReadsCacheType ==
  ASSUME TypeOK, NEW r \in Reqs, NEW hit \in Steps, NEW miss \in Steps,
         ReadsCache(r, hit, miss)
  PROVE  /\ step' = [step EXCEPT ![r] = hit] \/ step' = [step EXCEPT ![r] = miss]
         /\ step' \in [Reqs -> Steps]
         /\ outages' \in 0 .. MaxOutages
         /\ UNCHANGED <<cached, timeouts, failures, expiries>>
BY BoundsAreNat DEF ReadsCache, Miss, StepTo, TypeOK

\* Every reachable state is well typed.
THEOREM TypeCorrect == Spec => []TypeOK
<1>1. Init => TypeOK
  <2> SUFFICES ASSUME Init PROVE TypeOK
    OBVIOUS
  <2>1. cached \in BOOLEAN
    BY Zenon DEF Init
  <2>2. /\ lock \in [Procs -> Reqs \cup {None}] /\ step \in [Reqs -> Steps]
        /\ leader \in [Reqs -> Reqs \cup {None}]
        /\ timeouts \in 0 .. MaxTimeouts /\ failures \in 0 .. MaxFailures
        /\ outages \in 0 .. MaxOutages /\ expiries \in 0 .. MaxExpiries
    BY BoundsAreNat DEF Init, Steps
  <2> QED BY <2>1, <2>2 DEF TypeOK
<1>2. TypeOK /\ [Next]_vars => TypeOK'
  <2> SUFFICES ASSUME TypeOK, [Next]_vars PROVE TypeOK'
    OBVIOUS
  <2> {"idle", "check", "acquire", "wait", "probe", "probed", "direct", "store",
       "recheck", "lead", "hit", "answered", "error"} \subseteq Steps
    BY DEF Steps, Leading, Ended
  <2>1. ASSUME NEW r \in Reqs, Arrive(r) \/ Check(r) \/ Recheck(r) \/ Poll(r) PROVE TypeOK'
    <3>1. PICK hit \in Steps, miss \in Steps : ReadsCache(r, hit, miss)
      BY <2>1 DEF Arrive, Check, Recheck, Poll
    <3>2. lock' \in [Procs -> Reqs \cup {None}]
      BY <2>1, ProcOfAssumption DEF Arrive, Check, Recheck, Poll, SetLock, TypeOK
    <3>3. leader' \in [Reqs -> Reqs \cup {None}]
      BY <2>1 DEF Arrive, Check, Recheck, Poll, Forget, TypeOK
    <3> QED BY <3>1, <3>2, <3>3, ReadsCacheType DEF TypeOK
  <2>2. ASSUME NEW r \in Reqs,
               \/ Acquire(r) \/ LeadReturns(r)
               \/ Probe(r) \/ Unprobe(r) \/ DirectReturns(r)
        PROVE  TypeOK'
    BY <2>2, ProcOfAssumption
       DEF Acquire, LeadReturns, Probe, Unprobe, DirectReturns, Forget,
           SetLock, StepTo, counters, TypeOK
  <2>3. ASSUME NEW r \in Reqs, LeadFails(r) \/ DirectFails(r) \/ GiveUp(r) PROVE TypeOK'
    BY <2>3, ProcOfAssumption, BoundsAreNat
       DEF LeadFails, DirectFails, GiveUp, Forget, SetLock, StepTo, TypeOK
  <2>4. ASSUME NEW r \in Reqs, Store(r) PROVE TypeOK'
    <3>1. cached' \in BOOLEAN
      BY <2>4, Zenon DEF Store, TypeOK
    <3>2. step' \in [Reqs -> Steps] /\ outages' \in 0 .. MaxOutages
      BY <2>4, BoundsAreNat DEF Store, StepTo, TypeOK
    <3>3. UNCHANGED <<lock, leader, timeouts, failures, expiries>>
      BY <2>4 DEF Store
    <3> QED BY <3>1, <3>2, <3>3 DEF TypeOK
  <2>5. CASE Expire
    <3>1. cached' \in BOOLEAN
      BY <2>5, Zenon DEF Expire
    <3>2. expiries' \in 0 .. MaxExpiries
      BY <2>5, BoundsAreNat DEF Expire, TypeOK
    <3>3. UNCHANGED <<lock, step, leader, timeouts, failures, outages>>
      BY <2>5 DEF Expire
    <3> QED BY <3>1, <3>2, <3>3 DEF TypeOK
  <2>6. CASE UNCHANGED vars
    BY <2>6 DEF vars, TypeOK
  <2>7. ASSUME NEW r \in Reqs, BecomeWaiter(r) PROVE TypeOK'
    <3>1. LeaderBehind(Lock(r)) \in Reqs \cup {None}
      BY <2>7, ProcOfAssumption DEF BecomeWaiter, Lock, LeaderBehind, TypeOK
    <3> QED BY <2>7, <3>1 DEF BecomeWaiter, StepTo, counters, TypeOK
  <2> QED BY <2>1, <2>2, <2>3, <2>4, <2>5, <2>6, <2>7 DEF Next, RequestStep
<1> QED BY <1>1, <1>2, PTL DEF Spec
------------------------------------------------------------------------------
\* LockHeldByActor is inductive: it says which of a process's requests has its lock.
THEOREM LockHeldCorrect == Spec => []LockHeldByActor
<1>1. Init => LockHeldByActor
  BY NoneAssumption DEF Init, LockHeldByActor, Leading
<1>2. TypeOK /\ LockHeldByActor /\ [Next]_vars => LockHeldByActor'
  <2> SUFFICES ASSUME TypeOK, LockHeldByActor, [Next]_vars PROVE LockHeldByActor'
    OBVIOUS
  <2> USE NoneAssumption, ProcOfAssumption DEF Leading, LockHeldByActor
  <2>1. ASSUME NEW r \in Reqs, Arrive(r) \/ Check(r) \/ Poll(r) PROVE LockHeldByActor'
    BY <2>1 DEF Arrive, Check, Poll, ReadsCache, StepTo, TypeOK
  <2>2. ASSUME NEW r \in Reqs, Recheck(r) PROVE LockHeldByActor'
    <3>1. CASE step'[r] = "hit"
      BY <2>2, <3>1 DEF Recheck, ReadsCache, SetLock, StepTo, TypeOK
    <3>2. CASE step'[r] # "hit"
      BY <2>2, <3>2 DEF Recheck, ReadsCache, StepTo, TypeOK
    <3> QED BY <3>1, <3>2
  <2>3. ASSUME NEW r \in Reqs, Acquire(r) PROVE LockHeldByActor'
    BY <2>3 DEF Acquire, Lock, SetLock, StepTo, TypeOK
  <2>4. ASSUME NEW r \in Reqs, Probe(r) PROVE LockHeldByActor'
    BY <2>4 DEF Probe, Lock, SetLock, StepTo, TypeOK
  <2>5. ASSUME NEW r \in Reqs, LeadReturns(r) \/ LeadFails(r) \/ Unprobe(r) PROVE LockHeldByActor'
    BY <2>5 DEF LeadReturns, LeadFails, Unprobe, SetLock, StepTo, TypeOK
  <2>6. ASSUME NEW r \in Reqs,
               BecomeWaiter(r) \/ GiveUp(r) \/ DirectReturns(r) \/ DirectFails(r) \/ Store(r)
        PROVE  LockHeldByActor'
    BY <2>6 DEF BecomeWaiter, GiveUp, DirectReturns, DirectFails, Store, StepTo, TypeOK
  <2>7. CASE Expire \/ UNCHANGED vars
    BY <2>7 DEF Expire, vars
  <2> QED BY <2>1, <2>2, <2>3, <2>4, <2>5, <2>6, <2>7 DEF Next, RequestStep
<1> QED BY <1>1, <1>2, TypeCorrect, PTL DEF Spec

\* Two requests of one process never lead at a time: both would hold its lock.
THEOREM LeaderUnique == Spec => []OneLeaderPerProcess
<1>1. LockHeldByActor => OneLeaderPerProcess
  BY ProcOfAssumption DEF LockHeldByActor, OneLeaderPerProcess
<1> QED BY <1>1, LockHeldCorrect, PTL
------------------------------------------------------------------------------
(* What a waiter knows of its leader *)

Done == {"store"} \cup Ended
Same(q, r) == ProcOf[q] = ProcOf[r]

\* As long as no waiter timed out: a waiter's leader leads in its process or is
\* done; past a successful probe nobody leads, so it is done.
FollowsALeader ==
  timeouts = 0 => \A r \in Reqs :
    /\ step[r] \in {"wait", "probe"} =>
         \E q \in Reqs : q = leader[r] /\ Same(q, r) /\ step[q] \in Leading \cup Done
    /\ step[r] = "probed" \/ (step[r] = "direct" /\ r \notin Universal) =>
         \E q \in Reqs : q = leader[r] /\ Same(q, r) /\ step[q] \in Done

\* A leader goes on leading until it is done, and stays done.
LEMMA LeadersMoveOn ==
  ASSUME TypeOK, [Next]_vars, NEW q \in Reqs
  PROVE  /\ step[q] \in Done => step'[q] \in Done
         /\ step[q] \in Leading => step'[q] \in Leading \cup Done
<1> USE DEF Done, Ended, Leading
<1> DEFINE Goal == /\ step[q] \in Done => step'[q] \in Done
                   /\ step[q] \in Leading => step'[q] \in Leading \cup Done
<1>1. ASSUME NEW r \in Reqs, Arrive(r) \/ Check(r) \/ Recheck(r) \/ Poll(r) PROVE Goal
  BY <1>1 DEF Arrive, Check, Recheck, Poll, ReadsCache, StepTo, TypeOK
<1>2. ASSUME NEW r \in Reqs,
             \/ Acquire(r) \/ BecomeWaiter(r) \/ LeadReturns(r) \/ LeadFails(r)
             \/ Probe(r) \/ Unprobe(r) \/ GiveUp(r)
             \/ DirectReturns(r) \/ DirectFails(r) \/ Store(r)
      PROVE  Goal
  BY <1>2 DEF Acquire, BecomeWaiter, LeadReturns, LeadFails, Probe, Unprobe, GiveUp,
              DirectReturns, DirectFails, Store, StepTo, TypeOK
<1>3. CASE Expire \/ UNCHANGED vars
  BY <1>3 DEF Expire, vars
<1> QED BY <1>1, <1>2, <1>3 DEF Next, RequestStep

\* A waiter that timed out is never forgotten.
LEMMA TimeoutsGrow == ASSUME TypeOK, [Next]_vars, timeouts' = 0 PROVE timeouts = 0
<1> USE BoundsAreNat
<1>1. ASSUME NEW r \in Reqs, Arrive(r) \/ Check(r) \/ Recheck(r) \/ Poll(r) PROVE UNCHANGED timeouts
  BY <1>1 DEF Arrive, Check, Recheck, Poll, ReadsCache
<1>2. ASSUME NEW r \in Reqs,
             \/ Acquire(r) \/ BecomeWaiter(r) \/ LeadReturns(r) \/ LeadFails(r)
             \/ Probe(r) \/ Unprobe(r) \/ DirectReturns(r) \/ DirectFails(r) \/ Store(r)
      PROVE  UNCHANGED timeouts
  BY <1>2 DEF Acquire, BecomeWaiter, LeadReturns, LeadFails, Probe, Unprobe,
              DirectReturns, DirectFails, Store, counters
<1>3. ASSUME NEW r \in Reqs, GiveUp(r) PROVE FALSE
  BY <1>3 DEF GiveUp, TypeOK
<1>4. CASE Expire \/ UNCHANGED vars
  BY <1>4 DEF Expire, vars
<1> QED BY <1>1, <1>2, <1>3, <1>4 DEF Next, RequestStep

\* Who comes to wait, to hold a probed lock or to call the runner, from where, and
\* what becomes of its leader.
LEMMA Arrivals ==
  ASSUME TypeOK, [Next]_vars, timeouts' = 0, NEW r \in Reqs
  PROVE  /\ step'[r] \in {"wait", "probe"} =>
              \/ step[r] \in {"wait", "probe"} /\ leader'[r] = leader[r]
              \/ step[r] = "acquire" /\ Lock(r) # None /\ leader'[r] = LeaderBehind(Lock(r))
         /\ step'[r] = "probed" =>
              \/ step[r] = "probed" /\ leader'[r] = leader[r]
              \/ step[r] = "probe" /\ Lock(r) = None /\ leader'[r] = leader[r]
         /\ step'[r] = "direct" /\ r \notin Universal =>
              step[r] \in {"probed", "direct"} /\ leader'[r] = leader[r]
<1> USE BoundsAreNat
<1> DEFINE Goal ==
      /\ step'[r] \in {"wait", "probe"} =>
           \/ step[r] \in {"wait", "probe"} /\ leader'[r] = leader[r]
           \/ step[r] = "acquire" /\ Lock(r) # None /\ leader'[r] = LeaderBehind(Lock(r))
      /\ step'[r] = "probed" =>
           \/ step[r] = "probed" /\ leader'[r] = leader[r]
           \/ step[r] = "probe" /\ Lock(r) = None /\ leader'[r] = leader[r]
      /\ step'[r] = "direct" /\ r \notin Universal =>
           step[r] \in {"probed", "direct"} /\ leader'[r] = leader[r]
<1>1. ASSUME NEW q \in Reqs, Arrive(q) \/ Check(q) \/ Recheck(q) PROVE Goal
  BY <1>1 DEF Arrive, Check, Recheck, ReadsCache, StepTo, TypeOK
<1>2. ASSUME NEW q \in Reqs, Poll(q) PROVE Goal
  BY <1>2 DEF Poll, ReadsCache, StepTo, Forget, TypeOK
<1>3. ASSUME NEW q \in Reqs, BecomeWaiter(q) PROVE Goal
  BY <1>3 DEF BecomeWaiter, StepTo, TypeOK
<1>4. ASSUME NEW q \in Reqs,
             \/ Acquire(q) \/ LeadReturns(q) \/ LeadFails(q)
             \/ Probe(q) \/ Unprobe(q) \/ Store(q)
      PROVE  Goal
  BY <1>4 DEF Acquire, LeadReturns, LeadFails, Probe, Unprobe, Store, StepTo, TypeOK
<1>5. ASSUME NEW q \in Reqs, DirectReturns(q) \/ DirectFails(q) PROVE Goal
  BY <1>5 DEF DirectReturns, DirectFails, StepTo, Forget, TypeOK
<1>6. ASSUME NEW q \in Reqs, GiveUp(q) PROVE Goal
  BY <1>6 DEF GiveUp, TypeOK
<1>7. CASE Expire \/ UNCHANGED vars
  BY <1>7 DEF Expire, vars
<1> QED BY <1>1, <1>2, <1>3, <1>4, <1>5, <1>6, <1>7 DEF Next, RequestStep

\* Whoever holds a process's lock leads there, or has probed and its leader is done.
LEMMA HolderFollows ==
  ASSUME TypeOK, LockHeldByActor, FollowsALeader, timeouts = 0, NEW r \in Reqs, Lock(r) # None
  PROVE  \E q \in Reqs : /\ q = LeaderBehind(Lock(r)) /\ Same(q, r)
                         /\ step[q] \in Leading \cup Done
<1>1. PICK h \in Reqs : Lock(r) = h
  BY ProcOfAssumption DEF Lock, TypeOK
<1>2. Same(h, r) /\ step[h] \in Leading \cup {"probed"}
  BY <1>1, ProcOfAssumption DEF Lock, LockHeldByActor, Same
<1>3. CASE step[h] \in Leading
  BY <1>1, <1>2, <1>3 DEF LeaderBehind, Leading
<1>4. CASE step[h] = "probed"
  <2>1. PICK q \in Reqs : q = leader[h] /\ Same(q, h) /\ step[q] \in Done
    BY <1>4 DEF FollowsALeader
  <2> QED BY <1>1, <1>2, <1>4, <2>1 DEF Same, LeaderBehind
<1> QED BY <1>2, <1>3, <1>4

\* Duplicate suppression: as long as no waiter times out, a waiter calls the runner
\* only when the leader of its process that it waits for is done with its own call
\* (single_flight.execute leaves its loop by a successful probe, and the leader
\* releases after execute_fn).
THEOREM FallbackCorrect == Spec => []FallbackAfterItsLeader
<1>1. Init => FollowsALeader
  BY DEF Init, FollowsALeader
<1>2. TypeOK /\ LockHeldByActor /\ FollowsALeader /\ [Next]_vars => FollowsALeader'
  <2> SUFFICES ASSUME TypeOK, LockHeldByActor, FollowsALeader, [Next]_vars, timeouts' = 0,
                      NEW r \in Reqs
      PROVE /\ step'[r] \in {"wait", "probe"} =>
                 \E q \in Reqs : q = leader'[r] /\ Same(q, r) /\ step'[q] \in Leading \cup Done
            /\ step'[r] = "probed" \/ (step'[r] = "direct" /\ r \notin Universal) =>
                 \E q \in Reqs : q = leader'[r] /\ Same(q, r) /\ step'[q] \in Done
    BY DEF FollowsALeader, Same
  <2>1. timeouts = 0
    BY TimeoutsGrow
  <2>2. ASSUME step'[r] \in {"wait", "probe"}
        PROVE  \E q \in Reqs : q = leader'[r] /\ Same(q, r) /\ step'[q] \in Leading \cup Done
    <3>1. PICK q \in Reqs : q = leader'[r] /\ Same(q, r) /\ step[q] \in Leading \cup Done
      <4>1. CASE step[r] \in {"wait", "probe"} /\ leader'[r] = leader[r]
        BY <2>1, <4>1 DEF FollowsALeader
      <4>2. CASE Lock(r) # None /\ leader'[r] = LeaderBehind(Lock(r))
        BY <2>1, <4>2, HolderFollows
      <4> QED BY <2>2, <4>1, <4>2, Arrivals
    <3> QED BY <3>1, LeadersMoveOn
  <2>3. ASSUME step'[r] = "probed" \/ (step'[r] = "direct" /\ r \notin Universal)
        PROVE  \E q \in Reqs : q = leader'[r] /\ Same(q, r) /\ step'[q] \in Done
    <3>1. CASE step[r] = "probe" /\ Lock(r) = None /\ leader'[r] = leader[r]
      <4>1. PICK q \in Reqs : q = leader[r] /\ Same(q, r) /\ step[q] \in Leading \cup Done
        BY <2>1, <3>1 DEF FollowsALeader
      <4>2. step[q] \notin Leading
        BY <3>1, <4>1, NoneAssumption, ProcOfAssumption DEF Lock, LockHeldByActor, Same
      <4> QED BY <3>1, <4>1, <4>2, LeadersMoveOn
    <3>2. CASE (step[r] = "probed" \/ (step[r] = "direct" /\ r \notin Universal)) /\ leader'[r] = leader[r]
      <4>1. PICK q \in Reqs : q = leader[r] /\ Same(q, r) /\ step[q] \in Done
        BY <2>1, <3>2 DEF FollowsALeader
      <4> QED BY <3>2, <4>1, LeadersMoveOn
    <3> QED BY <2>3, <3>1, <3>2, Arrivals
  <2> QED BY <2>2, <2>3
<1>3. FollowsALeader => FallbackAfterItsLeader
  BY DEF FollowsALeader, FallbackAfterItsLeader, Done, Same
<1> QED BY <1>1, <1>2, <1>3, TypeCorrect, LockHeldCorrect, PTL DEF Spec
=============================================================================
