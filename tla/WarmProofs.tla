----------------------------- MODULE WarmProofs -----------------------------
(* Proofs about WarmRuntime: for any number of threads, models and processes,  *)
(* what a caller of /predict sees is a ModelServer, and the pool of processes  *)
(* is sound.                                                                   *)
EXTENDS WarmRuntime, FiniteSetTheorems, TLAPS

Pcs == InCall \cup {"want", "evict", "boot", "kill", "clear",
                    "stopped", "answered", "failed", "done"}
Thens == {"forget", "raise", "restart", None}
CallRecords ==
    [kind : {"predict", "teardown"}, model : Models, pc : Pcs,
     rt : Threads \cup {None}, mine : Procs \cup {None},
     then : Thens, got : Threads \cup {None}]
RtRecords ==
    [state : States, proc : Procs \cup {None}, lock : Threads \cup {None},
     restarts : 0..MaxRestarts]
ProcRecords ==
    [alive : BOOLEAN, input : Threads \cup {None}, result : Threads \cup {None}]

\* A thread at work on a runtime has one.
HasRuntime ==
    \A t \in Threads :
        th[t].pc \in {"enter", "boot", "boot_again", "write", "read", "kill", "clear", "stopped"}
            => th[t].rt \in Threads

Shape ==
    /\ pool \in [Models -> Threads \cup {None}]
    /\ rt \in [Threads -> RtRecords]
    /\ proc \in [Procs -> ProcRecords]
    /\ th \in [Threads -> CallRecords]
    /\ HasRuntime

\* The rest of the type
Rest ==
    /\ mlock \in Threads \cup {None}
    /\ deaths \in 0..MaxDeaths /\ disturbed \in BOOLEAN

LEMMA PcNames ==
    {"enter", "boot_again", "write", "read", "want", "evict", "boot", "kill", "clear",
     "stopped", "answered", "failed", "done"} \subseteq Pcs
BY DEF Pcs, InCall

LEMMA ThenNames == {"forget", "raise", "restart", None} \subseteq Thens
BY DEF Thens

LEMMA ProcsAreProcs == \A t \in Threads : <<t, "new">> \in Procs /\ <<t, "again">> \in Procs
BY DEF Procs

LEMMA NoProcessIsOne == NoProcess \in ProcRecords /\ [NoProcess EXCEPT !.alive = TRUE] \in ProcRecords
BY DEF NoProcess, ProcRecords

LEMMA ShapeInit == Init => Shape /\ Rest
<1> SUFFICES ASSUME Init PROVE Shape /\ Rest
  OBVIOUS
<1>1. PICK w \in Workloads : th = [t \in Threads |-> NewThread(w[t])]
  BY DEF Init
<1>2. \A t \in Threads : w[t] \in [kind : {"predict", "teardown"}, model : Models]
  BY WarmAssumption
<1>3. th \in [Threads -> CallRecords]
  BY <1>1, <1>2, PcNames, ThenNames DEF NewThread, CallRecords
<1>4. \A t \in Threads : th[t].pc = "want"
  BY <1>1 DEF NewThread
<1>5. pool \in [Models -> Threads \cup {None}] /\ rt \in [Threads -> RtRecords]
  BY WarmAssumption DEF Init, NoRuntime, RtRecords, States
<1>6. proc \in [Procs -> ProcRecords]
  BY NoProcessIsOne DEF Init
<1>7. mlock \in Threads \cup {None} /\ deaths \in 0..MaxDeaths
  BY WarmAssumption DEF Init
<1>8. disturbed \in BOOLEAN
  BY Zenon DEF Init
<1> QED BY <1>3, <1>4, <1>5, <1>6, <1>7, <1>8 DEF Shape, Rest, HasRuntime

\* The records of a thread that moves on, enters stop() or returns from it
LEMMA CallUpdates ==
    ASSUME NEW c \in CallRecords, NEW pc \in Pcs, NEW r \in Threads \cup {None},
           NEW mine \in Procs \cup {None}, NEW then \in Thens
    PROVE  /\ [c EXCEPT !.pc = pc, !.rt = r] \in CallRecords
           /\ [c EXCEPT !.pc = pc, !.rt = r, !.then = then, !.mine = mine] \in CallRecords
           /\ [c EXCEPT !.pc = pc, !.then = then, !.mine = mine] \in CallRecords
BY DEF CallRecords

LEMMA MoveShape ==
    ASSUME th \in [Threads -> CallRecords], NEW t \in Threads, NEW pc \in Pcs,
           NEW r \in Threads \cup {None}, th' = [th EXCEPT ![t].pc = pc, ![t].rt = r]
    PROVE  th' \in [Threads -> CallRecords]
<1>1. th' = [th EXCEPT ![t] = [th[t] EXCEPT !.pc = pc, !.rt = r]]
  OBVIOUS
<1>2. th[t] \in CallRecords /\ None \in Procs \cup {None} /\ None \in Thens
  BY ThenNames
<1>3. [th[t] EXCEPT !.pc = pc, !.rt = r] \in CallRecords
  BY <1>2, CallUpdates
<1> QED BY <1>1, <1>3

LEMMA StopThenShape ==
    ASSUME Shape, NEW t \in Threads, NEW r \in Threads,
           NEW then \in {"forget", "raise", "restart"}, StopThen(t, r, then)
    PROVE  /\ rt' \in [Threads -> RtRecords] /\ th' \in [Threads -> CallRecords]
           /\ HasRuntime'
<1>1. rt' \in [Threads -> RtRecords]
  BY DEF StopThen, Shape, RtRecords, States
<1>2. th' \in [Threads -> CallRecords]
  <2>1. rt[r].proc \in Procs \cup {None} /\ then \in Thens
    BY ThenNames DEF Shape, RtRecords
  <2>2. th' = [th EXCEPT ![t] = [th[t] EXCEPT !.pc = "kill", !.rt = r, !.then = then,
                                              !.mine = rt[r].proc]]
    BY DEF StopThen, Shape
  <2>3. [th[t] EXCEPT !.pc = "kill", !.rt = r, !.then = then, !.mine = rt[r].proc] \in CallRecords
    BY <2>1, CallUpdates, PcNames DEF Shape
  <2> QED BY <2>2, <2>3 DEF Shape
<1>3. HasRuntime'
  BY DEF StopThen, Shape, HasRuntime, CallRecords
<1> QED BY <1>1, <1>2, <1>3

LEMMA GotoShape ==
    ASSUME Shape, NEW t \in Threads, NEW pc, Goto(t, pc),
           \/ pc \in {"evict", "done", "failed"}
           \/ /\ pc \in {"enter", "write", "read", "clear", "stopped"}
              /\ th[t].rt \in Threads
    PROVE  th' \in [Threads -> CallRecords] /\ HasRuntime'
BY PcNames DEF Goto, Shape, HasRuntime, CallRecords

LEMMA ReturnShape ==
    ASSUME Shape, NEW t \in Threads, NEW pc, Return(t, pc),
           \/ pc \in {"evict", "done", "failed"}
           \/ pc = "boot_again" /\ th[t].rt \in Threads
    PROVE  th' \in [Threads -> CallRecords] /\ HasRuntime'
<1>1. pc \in Pcs /\ None \in Thens
  BY PcNames, ThenNames
<1>2. th' \in [Threads -> CallRecords]
  <2>1. th' = [th EXCEPT ![t] = [th[t] EXCEPT !.pc = pc, !.then = None, !.mine = None]]
    BY DEF Return, Shape
  <2>2. [th[t] EXCEPT !.pc = pc, !.then = None, !.mine = None] \in CallRecords
    BY <1>1, CallUpdates DEF Shape
  <2> QED BY <2>1, <2>2 DEF Shape
<1>3. HasRuntime'
  BY DEF Return, Shape, HasRuntime, CallRecords
<1> QED BY <1>2, <1>3

LEMMA SpawnShape ==
    ASSUME Shape, NEW r \in Threads, NEW p \in Procs, Spawn(r, p)
    PROVE  rt' \in [Threads -> RtRecords] /\ proc' \in [Procs -> ProcRecords]
<1>1. proc' \in [Procs -> ProcRecords]
  BY NoProcessIsOne DEF Spawn, Shape
<1>2. rt' \in [Threads -> RtRecords]
  BY ZenonT(60) DEF Spawn, Shape, RtRecords, States
<1> QED BY <1>1, <1>2

LEMMA ManageShape == ASSUME Shape, NEW t \in Threads, Manage(t) PROVE Shape'
<1>1. th[t].model \in Models /\ pool[th[t].model] \in Threads \cup {None}
  BY DEF Shape, CallRecords
<1>2. CASE Lookup(t)
  <2>1. CASE StopThen(t, pool[th[t].model], "forget") /\ pool[th[t].model] # None
    BY <1>1, <1>2, <2>1, StopThenShape DEF Lookup, Shape
  <2>2. CASE th' = [th EXCEPT ![t].pc = "enter", ![t].rt = pool[th[t].model]]
             /\ pool[th[t].model] # None /\ rt' = rt
    <3>1. pool[th[t].model] \in Threads
      BY <1>1, <2>2
    <3>2. th' \in [Threads -> CallRecords]
      BY <2>2, <3>1, PcNames, MoveShape DEF Shape
    <3>3. HasRuntime'
      BY <2>2, <3>1 DEF Shape, HasRuntime, CallRecords
    <3> QED BY <1>2, <2>2, <3>2, <3>3 DEF Lookup, Shape
  <2>3. CASE rt' = rt /\ (Goto(t, "evict") \/ Goto(t, "done"))
    BY <1>2, <2>3, GotoShape DEF Lookup, Shape
  <2> QED BY <1>2, <2>1, <2>2, <2>3 DEF Lookup
<1>3. CASE Evict(t)
  <2>1. PICK m \in Pooled : StopThen(t, pool[m], "forget")
    BY <1>3 DEF Evict
  <2>2. pool[m] \in Threads
    BY DEF Pooled, Shape
  <2> QED BY <1>3, <2>1, <2>2, StopThenShape DEF Evict, Shape
<1>4. CASE Create(t)
  <2>1. th' \in [Threads -> CallRecords]
    BY <1>4, PcNames, MoveShape DEF Create, Shape
  <2>2. HasRuntime'
    BY <1>4 DEF Create, Shape, HasRuntime, CallRecords
  <2> QED BY <1>4, <2>1, <2>2, SpawnShape, ProcsAreProcs DEF Create, Shape
<1>5. CASE Boot(t)
  <2>1. rt' \in [Threads -> RtRecords]
    BY <1>5 DEF Boot, Shape, RtRecords, States
  <2>2. pool' \in [Models -> Threads \cup {None}]
    BY <1>5 DEF Boot, Shape
  <2>3. th[t].rt \in Threads
    BY <1>5 DEF Boot, At, Shape, HasRuntime
  <2> QED BY <1>5, <2>1, <2>2, <2>3, GotoShape DEF Boot, Shape
<1>6. CASE BootFails(t)
  <2>1. th[t].rt \in Threads
    BY <1>6 DEF BootFails, At, Shape, HasRuntime
  <2> QED BY <1>6, <2>1, StopThenShape DEF BootFails, Shape
<1> QED BY <1>2, <1>3, <1>4, <1>5, <1>6 DEF Manage

LEMMA StoppingShape == ASSUME Shape, NEW t \in Threads, Stopping(t) PROVE Shape'
<1>1. th[t].rt \in Threads
  BY DEF Stopping, StopKill, StopClear, StopForgets, StopRestarts, StopRaises, At, Shape, HasRuntime
<1>2. CASE StopKill(t)
  <2>1. proc' \in [Procs -> ProcRecords]
    BY <1>2, NoProcessIsOne DEF StopKill, Shape
  <2> QED BY <1>1, <1>2, <2>1, GotoShape DEF StopKill, Shape
<1>3. CASE StopClear(t)
  <2>1. rt' \in [Threads -> RtRecords]
    BY ZenonT(60), <1>3 DEF StopClear, Shape, RtRecords
  <2> QED BY <1>1, <1>3, <2>1, GotoShape DEF StopClear, Shape
<1>4. CASE StopForgets(t)
  <2>1. rt' \in [Threads -> RtRecords]
    BY <1>4 DEF StopForgets, Shape, RtRecords, States
  <2>2. pool' \in [Models -> Threads \cup {None}]
    BY <1>4 DEF StopForgets, Shape
  <2>3. Return(t, "done") \/ Return(t, "evict")
    BY <1>4 DEF StopForgets
  <2> QED BY <1>4, <2>1, <2>2, <2>3, ReturnShape DEF StopForgets, Shape
<1>5. CASE StopRestarts(t)
  BY <1>1, <1>5, SpawnShape, ProcsAreProcs, ReturnShape DEF StopRestarts, Shape
<1>6. CASE StopRaises(t)
  <2>1. rt' \in [Threads -> RtRecords]
    BY ZenonT(60), <1>6 DEF StopRaises, Shape, RtRecords, States
  <2> QED BY <1>6, <2>1, ReturnShape DEF StopRaises, Shape
<1> QED BY <1>2, <1>3, <1>4, <1>5, <1>6 DEF Stopping

LEMMA PredictShape == ASSUME Shape, NEW t \in Threads, Predict(t) PROVE Shape'
<1>1. th[t].rt \in Threads
  BY DEF Predict, Enter, EnterStopped, BootAgain, Write, WriteFails, Read, ReadFails, At,
         Shape, HasRuntime
<1>2. CASE Enter(t)
  <2>1. rt' \in [Threads -> RtRecords]
    BY <1>1, <1>2 DEF Enter, Shape, RtRecords, States
  <2>2. Goto(t, "write") \/ Goto(t, "failed")
    BY <1>2 DEF Enter
  <2> QED BY <1>1, <1>2, <2>1, <2>2, GotoShape DEF Enter, Shape
<1>3. CASE EnterStopped(t)
  <2>1. rt' \in [Threads -> RtRecords]
    BY <1>1, <1>3, WarmAssumption DEF EnterStopped, Shape, RtRecords, States
  <2>2. th' \in [Threads -> CallRecords]
    <3>1. rt[th[t].rt].proc \in Procs \cup {None} /\ "restart" \in Thens
      BY <1>1, ThenNames DEF Shape, RtRecords
    <3>2. th' = [th EXCEPT ![t] = [th[t] EXCEPT !.pc = "kill", !.then = "restart",
                                                !.mine = rt[th[t].rt].proc]]
      BY <1>3 DEF EnterStopped, Shape
    <3>3. [th[t] EXCEPT !.pc = "kill", !.then = "restart", !.mine = rt[th[t].rt].proc]
            \in CallRecords
      BY <3>1, CallUpdates, PcNames DEF Shape
    <3> QED BY <3>2, <3>3 DEF Shape
  <2>3. HasRuntime'
    BY <1>1, <1>3 DEF EnterStopped, Shape, HasRuntime, CallRecords
  <2> QED BY <1>3, <2>1, <2>2, <2>3 DEF EnterStopped, Shape
<1>4. CASE BootAgain(t)
  <2>1. rt' \in [Threads -> RtRecords]
    BY <1>4 DEF BootAgain, Shape, RtRecords, States
  <2> QED BY <1>1, <1>4, <2>1, GotoShape DEF BootAgain, Shape
<1>5. CASE Write(t)
  <2>1. proc' \in [Procs -> ProcRecords]
    BY <1>5 DEF Write, Shape, ProcRecords
  <2> QED BY <1>1, <1>5, <2>1, GotoShape DEF Write, Shape
<1>6. CASE WriteFails(t) \/ ReadFails(t)
  BY <1>1, <1>6, StopThenShape DEF WriteFails, ReadFails, Exception, Shape
<1>7. CASE Read(t)
  <2>1. rt' \in [Threads -> RtRecords] /\ proc' \in [Procs -> ProcRecords]
    BY ZenonT(60), <1>7 DEF Read, Shape, RtRecords, ProcRecords
  <2>2. rt[th[t].rt].proc \in Procs
    BY <1>1, <1>7 DEF Read, Alive, Shape, RtRecords
  <2>3. th' \in [Threads -> CallRecords]
    <3>1. proc[rt[th[t].rt].proc].result \in Threads \cup {None}
      BY <2>2 DEF Shape, ProcRecords
    <3> QED BY ZenonT(60), <1>7, <3>1, PcNames DEF Read, Shape, CallRecords
  <2>4. HasRuntime'
    BY <1>7 DEF Read, Shape, HasRuntime, CallRecords
  <2> QED BY <1>7, <2>1, <2>3, <2>4 DEF Read, Shape
<1> QED BY <1>2, <1>3, <1>4, <1>5, <1>6, <1>7 DEF Predict

LEMMA ProcessShape ==
    ASSUME Shape, NEW p \in Procs, Compute(p) \/ Die(p) PROVE Shape'
<1>1. CASE Compute(p)
  <2>1. proc' \in [Procs -> ProcRecords]
    BY <1>1 DEF Compute, Shape, ProcRecords
  <2> QED BY <1>1, <2>1 DEF Compute, Shape, HasRuntime
<1>2. CASE Die(p)
  <2>1. proc' \in [Procs -> ProcRecords]
    BY <1>2, NoProcessIsOne DEF Die, Shape
  <2> QED BY <1>2, <2>1 DEF Die, Shape, HasRuntime
<1> QED BY <1>1, <1>2

LEMMA ShapeNext == Shape /\ [Next]_vars => Shape'
<1> SUFFICES ASSUME Shape, [Next]_vars PROVE Shape'
  OBVIOUS
<1>1. CASE UNCHANGED vars
  BY <1>1 DEF vars, Shape, HasRuntime
<1> QED BY <1>1, ManageShape, StoppingShape, PredictShape, ProcessShape DEF Next, Serve
----------------------------------------------------------------------------
(* What the helpers of the actions do to the fields the invariants speak of.   *)

Stops == {"kill", "clear", "stopped"}

Alone(t)  == \A u \in Threads \ {t} : th'[u] = th[u]
SameProcs == \A r \in Threads : rt'[r].proc = rt[r].proc
SameLocks == \A r \in Threads : rt'[r].lock = rt[r].lock

LEMMA StopThenDoes ==
    ASSUME Shape, NEW t \in Threads, NEW r \in Threads, NEW then, StopThen(t, r, then)
    PROVE  /\ Alone(t) /\ SameProcs /\ SameLocks
           /\ th'[t].pc = "kill" /\ th'[t].rt = r /\ th'[t].then = then
           /\ th'[t].mine = rt[r].proc /\ th'[t].got = th[t].got
BY DEF StopThen, Alone, SameProcs, SameLocks, Shape, CallRecords, RtRecords

LEMMA GotoDoes ==
    ASSUME Shape, NEW t \in Threads, NEW pc, Goto(t, pc)
    PROVE  /\ Alone(t) /\ th'[t].pc = pc /\ th'[t].rt = th[t].rt /\ th'[t].then = th[t].then
           /\ th'[t].mine = th[t].mine /\ th'[t].got = th[t].got
BY DEF Goto, Alone, Shape, CallRecords

LEMMA ReturnDoes ==
    ASSUME Shape, NEW t \in Threads, NEW pc, Return(t, pc)
    PROVE  /\ Alone(t) /\ th'[t].pc = pc /\ th'[t].rt = th[t].rt /\ th'[t].got = th[t].got
BY DEF Return, Alone, Shape, CallRecords

LEMMA SpawnDoes ==
    ASSUME Shape, NEW r \in Threads, NEW p \in Procs, Spawn(r, p)
    PROVE  /\ SameLocks /\ rt'[r].proc = p
           /\ \A s \in Threads \ {r} : rt'[s].proc = rt[s].proc
           /\ proc'[p].input = None /\ proc'[p].result = None
           /\ \A q \in Procs \ {p} : proc'[q] = proc[q]
BY DEF Spawn, NoProcess, SameLocks, Shape, RtRecords

\* The steps one by one.
LEMMA LookupDoes ==
    ASSUME Shape, NEW t \in Threads, Lookup(t)
    PROVE  /\ Alone(t) /\ SameProcs /\ SameLocks /\ UNCHANGED <<proc, ran>>
           /\ th[t].pc = "want" /\ th'[t].got = th[t].got
           /\ \/ th'[t].pc \in {"enter", "evict"}
              \/ th'[t].pc = "done" /\ th[t].kind = "teardown"
              \/ th'[t].pc = "kill" /\ th'[t].then = "forget"
<1>1. pool[th[t].model] \in Threads \cup {None}
  BY DEF Shape, CallRecords
<1>2. CASE pool[th[t].model] # None /\ StopThen(t, pool[th[t].model], "forget")
  BY <1>1, <1>2, StopThenDoes DEF Lookup, At
<1>3. CASE rt' = rt /\ (Goto(t, "evict") \/ (Goto(t, "done") /\ th[t].kind = "teardown"))
  BY <1>3, GotoDoes DEF Lookup, At, SameProcs, SameLocks
<1>4. CASE rt' = rt /\ th' = [th EXCEPT ![t].pc = "enter", ![t].rt = pool[th[t].model]]
  BY <1>4 DEF Lookup, At, SameProcs, SameLocks, Alone, Shape, CallRecords
<1> QED BY <1>2, <1>3, <1>4 DEF Lookup

LEMMA EvictDoes ==
    ASSUME Shape, NEW t \in Threads, Evict(t)
    PROVE  /\ Alone(t) /\ SameProcs /\ SameLocks /\ UNCHANGED <<proc, ran>>
           /\ th[t].pc = "evict" /\ th'[t].got = th[t].got
           /\ th'[t].pc = "kill" /\ th'[t].then = "forget"
<1>1. PICK m \in Pooled : StopThen(t, pool[m], "forget")
  BY DEF Evict
<1>2. pool[m] \in Threads
  BY DEF Pooled, Shape
<1> QED BY <1>1, <1>2, StopThenDoes DEF Evict, At

LEMMA CreateDoes ==
    ASSUME Shape, NEW t \in Threads, Create(t)
    PROVE  /\ Alone(t) /\ Spawn(t, <<t, "new">>) /\ ran' = ran
           /\ th[t].pc = "evict" /\ th'[t].pc = "boot" /\ th'[t].got = th[t].got
BY DEF Create, At, Alone, Shape, CallRecords

LEMMA BootDoes ==
    ASSUME Shape, NEW t \in Threads, Boot(t)
    PROVE  /\ Alone(t) /\ SameProcs /\ SameLocks /\ UNCHANGED <<proc, ran>>
           /\ th[t].pc = "boot" /\ th'[t].pc = "enter" /\ th'[t].got = th[t].got
BY GotoDoes DEF Boot, At, SameProcs, SameLocks, Shape, RtRecords

\* A call that fails at one of these points stops the process it sees there.
LEMMA FailuresDo ==
    ASSUME Shape, NEW t \in Threads, BootFails(t) \/ WriteFails(t) \/ ReadFails(t)
    PROVE  /\ Alone(t) /\ SameProcs /\ SameLocks /\ UNCHANGED <<proc, ran>>
           /\ th[t].pc \in {"boot", "boot_again", "write", "read"}
           /\ th'[t].pc = "kill" /\ th'[t].then = "raise" /\ th'[t].got = th[t].got
           /\ th'[t].rt = th[t].rt /\ th'[t].mine = rt[th[t].rt].proc
<1>1. th[t].rt \in Threads
  BY DEF BootFails, WriteFails, ReadFails, At, Shape, HasRuntime
<1> QED BY <1>1, StopThenDoes DEF BootFails, WriteFails, ReadFails, Exception, At

LEMMA StopKillDoes ==
    ASSUME Shape, NEW t \in Threads, StopKill(t)
    PROVE  /\ Alone(t) /\ SameProcs /\ SameLocks /\ ran' = ran
           /\ th[t].pc = "kill" /\ th'[t].pc = "clear" /\ th'[t].then = th[t].then
           /\ th'[t].rt = th[t].rt /\ th'[t].got = th[t].got
           /\ \A p \in Procs : IF p = th[t].mine
                               THEN proc'[p].input = None /\ proc'[p].result = None
                               ELSE proc'[p] = proc[p]
BY GotoDoes DEF StopKill, At, SameProcs, SameLocks, NoProcess, Shape

LEMMA StopClearDoes ==
    ASSUME Shape, NEW t \in Threads, StopClear(t)
    PROVE  /\ Alone(t) /\ SameLocks /\ UNCHANGED <<proc, ran>>
           /\ th[t].pc = "clear" /\ th'[t].pc = "stopped" /\ th'[t].then = th[t].then
           /\ th'[t].rt = th[t].rt /\ th'[t].got = th[t].got
           /\ \A r \in Threads : rt'[r].proc \in {rt[r].proc, None}
BY GotoDoes DEF StopClear, At, SameLocks, Shape, RtRecords

LEMMA StopForgetsDoes ==
    ASSUME Shape, NEW t \in Threads, StopForgets(t)
    PROVE  /\ Alone(t) /\ SameProcs /\ SameLocks /\ UNCHANGED <<proc, ran>>
           /\ th[t].pc = "stopped" /\ th[t].then = "forget" /\ th'[t].got = th[t].got
           /\ th'[t].pc \in {"done", "evict"}
<1>1. Return(t, "done") \/ Return(t, "evict")
  BY DEF StopForgets
<1>2. SameProcs /\ SameLocks
  BY DEF StopForgets, SameProcs, SameLocks, Shape, RtRecords
<1> QED BY <1>1, <1>2, ReturnDoes DEF StopForgets, At

LEMMA StopRestartsDoes ==
    ASSUME Shape, NEW t \in Threads, StopRestarts(t)
    PROVE  /\ Alone(t) /\ Spawn(th[t].rt, <<t, "again">>) /\ ran' = ran
           /\ th[t].pc = "stopped" /\ th[t].then = "restart" /\ th'[t].got = th[t].got
           /\ th'[t].pc = "boot_again" /\ th'[t].rt = th[t].rt /\ th[t].rt \in Threads
BY ReturnDoes DEF StopRestarts, At, Shape, HasRuntime

LEMMA StopRaisesDoes ==
    ASSUME Shape, NEW t \in Threads, StopRaises(t)
    PROVE  /\ Alone(t) /\ SameProcs /\ UNCHANGED <<proc, ran>>
           /\ th[t].pc = "stopped" /\ th[t].then = "raise" /\ th'[t].got = th[t].got
           /\ th'[t].pc = "failed"
           /\ \A r \in Threads : rt[r].lock # t => rt'[r].lock = rt[r].lock
<1>1. SameProcs /\ \A r \in Threads : rt[r].lock # t => rt'[r].lock = rt[r].lock
  BY DEF StopRaises, SameProcs, Shape, RtRecords
<1> QED BY <1>1, ReturnDoes DEF StopRaises, At

LEMMA EnterDoes ==
    ASSUME Shape, NEW t \in Threads, Enter(t)
    PROVE  /\ Alone(t) /\ SameProcs /\ UNCHANGED <<proc, ran>>
           /\ th[t].pc = "enter" /\ th'[t].rt = th[t].rt /\ th'[t].got = th[t].got
           /\ \/ th'[t].pc = "failed" /\ SameLocks
              \/ /\ th'[t].pc = "write"
                 /\ rt[th[t].rt].lock = None /\ rt'[th[t].rt].lock = t
                 /\ \A r \in Threads \ {th[t].rt} : rt'[r].lock = rt[r].lock
<1>1. th[t].rt \in Threads
  BY DEF Enter, At, Shape, HasRuntime
<1>2. CASE Goto(t, "write") /\ rt' = [rt EXCEPT ![th[t].rt].lock = t]
  BY <1>1, <1>2, GotoDoes DEF Enter, At, SameProcs, Shape, RtRecords
<1>3. CASE Goto(t, "failed") /\ rt' = [rt EXCEPT ![th[t].rt].state = "UNHEALTHY"]
  BY <1>1, <1>3, GotoDoes DEF Enter, At, SameProcs, SameLocks, Shape, RtRecords
<1> QED BY <1>2, <1>3 DEF Enter

LEMMA EnterStoppedDoes ==
    ASSUME Shape, NEW t \in Threads, EnterStopped(t)
    PROVE  /\ Alone(t) /\ SameProcs /\ UNCHANGED <<proc, ran>>
           /\ th[t].pc = "enter" /\ th'[t].rt = th[t].rt /\ th'[t].got = th[t].got
           /\ th'[t].pc = "kill" /\ th'[t].then = "restart"
           /\ rt[th[t].rt].lock = None /\ rt'[th[t].rt].lock = t
           /\ \A r \in Threads \ {th[t].rt} : rt'[r].lock = rt[r].lock
<1>1. th[t].rt \in Threads
  BY DEF EnterStopped, At, Shape, HasRuntime
<1>2. /\ SameProcs /\ rt'[th[t].rt].lock = t
      /\ \A r \in Threads \ {th[t].rt} : rt'[r].lock = rt[r].lock
  BY <1>1 DEF EnterStopped, SameProcs, Shape, RtRecords
<1>3. /\ Alone(t) /\ th'[t].rt = th[t].rt /\ th'[t].got = th[t].got
      /\ th'[t].pc = "kill" /\ th'[t].then = "restart"
  BY DEF EnterStopped, Alone, Shape, CallRecords
<1> QED BY <1>1, <1>2, <1>3 DEF EnterStopped, At

LEMMA BootAgainDoes ==
    ASSUME Shape, NEW t \in Threads, BootAgain(t)
    PROVE  /\ Alone(t) /\ SameProcs /\ SameLocks /\ UNCHANGED <<proc, ran>>
           /\ th[t].pc = "boot_again" /\ th'[t].pc = "write" /\ th'[t].rt = th[t].rt
           /\ th'[t].got = th[t].got
BY GotoDoes DEF BootAgain, At, SameProcs, SameLocks, Shape, RtRecords

LEMMA WriteDoes ==
    ASSUME Shape, NEW t \in Threads, Write(t)
    PROVE  /\ Alone(t) /\ UNCHANGED <<rt, ran>> /\ rt[th[t].rt].proc \in Procs
           /\ th[t].pc = "write" /\ th'[t].pc = "read" /\ th'[t].rt = th[t].rt
           /\ th'[t].got = th[t].got /\ th[t].rt \in Threads
           /\ proc'[rt[th[t].rt].proc].input = t
           /\ proc'[rt[th[t].rt].proc].result = proc[rt[th[t].rt].proc].result
           /\ \A q \in Procs \ {rt[th[t].rt].proc} : proc'[q] = proc[q]
<1>1. th[t].rt \in Threads
  BY DEF Write, At, Shape, HasRuntime
<1>2. rt[th[t].rt].proc \in Procs
  BY <1>1 DEF Write, Alive, Shape, RtRecords
<1> QED BY <1>1, <1>2, GotoDoes DEF Write, At, Shape, ProcRecords

LEMMA ReadDoes ==
    ASSUME Shape, NEW t \in Threads, Read(t)
    PROVE  /\ Alone(t) /\ SameProcs /\ ran' = ran /\ rt[th[t].rt].proc \in Procs
           /\ th[t].pc = "read" /\ th'[t].pc = "answered" /\ th'[t].rt = th[t].rt
           /\ th[t].rt \in Threads
           /\ th'[t].got = proc[rt[th[t].rt].proc].result
           /\ th'[t].got \in Threads
           /\ rt'[th[t].rt].lock = None
           /\ \A r \in Threads \ {th[t].rt} : rt'[r].lock = rt[r].lock
           /\ proc'[rt[th[t].rt].proc].result = None
           /\ proc'[rt[th[t].rt].proc].input = proc[rt[th[t].rt].proc].input
           /\ \A q \in Procs \ {rt[th[t].rt].proc} : proc'[q] = proc[q]
<1>1. th[t].rt \in Threads
  BY DEF Read, At, Shape, HasRuntime
<1>2. rt[th[t].rt].proc \in Procs
  BY <1>1 DEF Read, Alive, Shape, RtRecords
<1>3. proc[rt[th[t].rt].proc].result \in Threads
  BY <1>2 DEF Read, Shape, ProcRecords
<1>4. /\ Alone(t) /\ th'[t].pc = "answered" /\ th'[t].rt = th[t].rt
      /\ th'[t].got = proc[rt[th[t].rt].proc].result
  BY DEF Read, Alone, Shape, CallRecords
<1>5. /\ SameProcs /\ rt'[th[t].rt].lock = None
      /\ \A r \in Threads \ {th[t].rt} : rt'[r].lock = rt[r].lock
  BY <1>1 DEF Read, SameProcs, Shape, RtRecords
<1>6. /\ proc'[rt[th[t].rt].proc].result = None
      /\ proc'[rt[th[t].rt].proc].input = proc[rt[th[t].rt].proc].input
      /\ \A q \in Procs \ {rt[th[t].rt].proc} : proc'[q] = proc[q]
  BY <1>2 DEF Read, Shape, ProcRecords
<1> QED BY <1>1, <1>2, <1>3, <1>4, <1>5, <1>6 DEF Read, At

LEMMA ComputeDoes ==
    ASSUME Shape, NEW p \in Procs, Compute(p)
    PROVE  /\ UNCHANGED <<rt, th>> /\ proc[p].input \in Threads
           /\ proc'[p].result = proc[p].input /\ proc'[p].input = None
           /\ \A q \in Procs \ {p} : proc'[q] = proc[q]
           /\ ran' = [ran EXCEPT ![proc[p].input] = @ + 1]
BY DEF Compute, Shape, ProcRecords

LEMMA DieDoes ==
    ASSUME Shape, NEW p \in Procs, Die(p)
    PROVE  /\ UNCHANGED <<rt, th, ran>>
           /\ proc'[p].result = None /\ proc'[p].input = None
           /\ \A q \in Procs \ {p} : proc'[q] = proc[q]
BY DEF Die, Shape, NoProcess
----------------------------------------------------------------------------
(* Who restarts a runtime, or exchanges with its process, holds its lock.      *)

Holder(t) == \/ th[t].pc \in {"boot_again", "write", "read"}
             \/ th[t].pc \in Stops /\ th[t].then = "restart"
Locked == \A t \in Threads : Holder(t) => rt[th[t].rt].lock = t

LEMMA LockedInit == Init => Locked
<1> SUFFICES ASSUME Init PROVE Locked
  OBVIOUS
<1>1. PICK w \in Workloads : th = [t \in Threads |-> NewThread(w[t])]
  BY DEF Init
<1> QED BY <1>1 DEF Locked, Holder, NewThread, Stops

LEMMA HolderHasRuntime == ASSUME Shape, NEW t \in Threads, Holder(t) PROVE th[t].rt \in Threads
BY DEF Shape, HasRuntime, Holder, Stops

\* A step of t takes no lock that another thread holds.
LEMMA LocksStay ==
    ASSUME Shape, Locked, NEW t \in Threads, Alone(t),
           \A r \in Threads : rt'[r].lock = rt[r].lock \/ rt[r].lock \in {None, t},
           Holder(t)' => rt'[th'[t].rt].lock = t
    PROVE  Locked'
<1>1. ASSUME NEW u \in Threads \ {t}, Holder(u)' PROVE rt'[th'[u].rt].lock = u
  <2>1. th'[u] = th[u] /\ Holder(u)
    BY <1>1 DEF Alone, Holder
  <2>2. rt[th[u].rt].lock = u /\ th[u].rt \in Threads
    BY <2>1, HolderHasRuntime DEF Locked
  <2>3. u # None /\ u # t
    BY WarmAssumption
  <2> QED BY <2>1, <2>2, <2>3
<1> QED BY <1>1 DEF Locked

LEMMA LockedServe == ASSUME Shape, Locked, NEW t \in Threads, Serve(t) PROVE Locked'
<1>1. CASE Lookup(t)
  BY <1>1, LookupDoes, LocksStay DEF SameLocks, Holder, Stops
<1>2. CASE Evict(t)
  BY <1>2, EvictDoes, LocksStay DEF SameLocks, Holder, Stops
<1>3. CASE Create(t)
  BY <1>3, CreateDoes, SpawnDoes, ProcsAreProcs, LocksStay DEF SameLocks, Holder, Stops
<1>4. CASE Boot(t)
  BY <1>4, BootDoes, LocksStay DEF SameLocks, Holder, Stops
<1>5. CASE BootFails(t) \/ WriteFails(t) \/ ReadFails(t)
  BY <1>5, FailuresDo, LocksStay DEF SameLocks, Holder, Stops
<1>6. CASE StopKill(t)
  <2>1. Holder(t)' => rt'[th'[t].rt].lock = t
    BY <1>6, StopKillDoes, HolderHasRuntime DEF SameLocks, Holder, Stops, Locked
  <2> QED BY <1>6, <2>1, StopKillDoes, LocksStay DEF SameLocks
<1>7. CASE StopClear(t)
  <2>1. Holder(t)' => rt'[th'[t].rt].lock = t
    BY <1>7, StopClearDoes, HolderHasRuntime DEF SameLocks, Holder, Stops, Locked
  <2> QED BY <1>7, <2>1, StopClearDoes, LocksStay DEF SameLocks
<1>8. CASE StopForgets(t)
  BY <1>8, StopForgetsDoes, LocksStay DEF SameLocks, Holder, Stops
<1>9. CASE StopRestarts(t)
  <2>1. rt[th[t].rt].lock = t
    BY <1>9, StopRestartsDoes DEF Locked, Holder, Stops
  <2>2. SameLocks
    BY <1>9, StopRestartsDoes, SpawnDoes, ProcsAreProcs
  <2>3. Alone(t) /\ th'[t].rt = th[t].rt /\ th[t].rt \in Threads
    BY <1>9, StopRestartsDoes
  <2>4. rt'[th'[t].rt].lock = t
    BY <2>1, <2>2, <2>3 DEF SameLocks
  <2> QED BY <2>2, <2>3, <2>4, LocksStay DEF SameLocks
<1>10. CASE StopRaises(t)
  BY <1>10, StopRaisesDoes, LocksStay DEF Holder, Stops
<1>11. CASE Enter(t)
  BY <1>11, EnterDoes, LocksStay DEF SameLocks, Holder, Stops
<1>12. CASE EnterStopped(t)
  BY <1>12, EnterStoppedDoes, LocksStay
<1>13. CASE BootAgain(t)
  <2>1. rt[th[t].rt].lock = t /\ th[t].rt \in Threads
    BY <1>13, BootAgainDoes, HolderHasRuntime DEF Locked, Holder
  <2> QED BY <1>13, <2>1, BootAgainDoes, LocksStay DEF SameLocks
<1>14. CASE Write(t)
  <2>1. rt[th[t].rt].lock = t
    BY <1>14, WriteDoes DEF Locked, Holder
  <2> QED BY <1>14, <2>1, WriteDoes, LocksStay
<1>15. CASE Read(t)
  <2>1. rt[th[t].rt].lock = t
    BY <1>15, ReadDoes DEF Locked, Holder
  <2> QED BY <1>15, <2>1, ReadDoes, LocksStay DEF Holder, Stops
<1> QED
  BY <1>1, <1>2, <1>3, <1>4, <1>5, <1>6, <1>7, <1>8, <1>9, <1>10, <1>11, <1>12, <1>13,
     <1>14, <1>15 DEF Serve, Manage, Stopping, Predict

LEMMA LockedNext == Shape /\ Locked /\ [Next]_vars => Locked'
<1> SUFFICES ASSUME Shape, Locked, [Next]_vars PROVE Locked'
  OBVIOUS
<1>1. ASSUME UNCHANGED <<rt, th>> PROVE Locked'
  BY <1>1 DEF Locked, Holder
<1> QED BY <1>1, LockedServe, ComputeDoes, DieDoes DEF Next, vars
----------------------------------------------------------------------------
(* No two runtimes have the same process.                                      *)

\* A thread starts a new process once, and restarts one once.
Fresh(t) ==
    /\ (\/ th[t].pc \in {"want", "evict"}
        \/ th[t].pc \in Stops /\ th[t].then = "forget")
         => \A r \in Threads : rt[r].proc # <<t, "new">>
    /\ (\/ th[t].pc \in {"want", "evict", "boot", "enter"}
        \/ th[t].pc \in Stops /\ th[t].then \in {"forget", "restart"})
         => \A r \in Threads : rt[r].proc # <<t, "again">>

Distinct ==
    \A r, s \in Threads : rt[r].proc = rt[s].proc /\ rt[r].proc # None => r = s

OneProcessEach == Distinct /\ \A t \in Threads : Fresh(t)

LEMMA ProcessInit == Init => OneProcessEach
<1> SUFFICES ASSUME Init PROVE OneProcessEach
  OBVIOUS
<1>1. \A r \in Threads : rt[r].proc = None
  BY DEF Init, NoRuntime
<1>2. \A t \in Threads : None # <<t, "new">> /\ None # <<t, "again">>
  BY WarmAssumption
<1> QED BY <1>1, <1>2 DEF OneProcessEach, Distinct, Fresh

\* Nothing is started: a runtime keeps its process or loses it.
LEMMA FewerProcesses ==
    ASSUME Shape, OneProcessEach, NEW t \in Threads, Alone(t),
           \A r \in Threads : rt'[r].proc \in {rt[r].proc, None}, Fresh(t)'
    PROVE  OneProcessEach'
<1>1. Distinct'
  BY DEF OneProcessEach, Distinct
<1>2. ASSUME NEW u \in Threads \ {t} PROVE Fresh(u)'
  <2>1. th'[u] = th[u] /\ Fresh(u)
    BY DEF Alone, OneProcessEach
  <2>2. None # <<u, "new">> /\ None # <<u, "again">>
    BY WarmAssumption
  <2> QED BY <2>1, <2>2 DEF Fresh
<1> QED BY <1>1, <1>2 DEF OneProcessEach

\* A process is started that no runtime has: it is the starting thread's own.
LEMMA OneMoreProcess ==
    ASSUME Shape, OneProcessEach, NEW t \in Threads, Alone(t), NEW r \in Threads,
           NEW why \in {"new", "again"}, Spawn(r, <<t, why>>),
           \A s \in Threads : rt[s].proc # <<t, why>>, Fresh(t)'
    PROVE  OneProcessEach'
<1>1. /\ rt'[r].proc = <<t, why>> /\ \A s \in Threads \ {r} : rt'[s].proc = rt[s].proc
  BY SpawnDoes, ProcsAreProcs
<1>2. Distinct'
  BY <1>1 DEF OneProcessEach, Distinct
<1>3. ASSUME NEW u \in Threads \ {t} PROVE Fresh(u)'
  <2>1. th'[u] = th[u] /\ Fresh(u)
    BY DEF Alone, OneProcessEach
  <2>2. <<t, why>> # <<u, "new">> /\ <<t, why>> # <<u, "again">>
    OBVIOUS
  <2> QED BY <1>1, <2>1, <2>2 DEF Fresh
<1> QED BY <1>2, <1>3 DEF OneProcessEach

LEMMA ProcessServe ==
    ASSUME Shape, OneProcessEach, NEW t \in Threads, Serve(t) PROVE OneProcessEach'
<1>0. Fresh(t)
  BY DEF OneProcessEach
<1>1. CASE Lookup(t)
  <2>1. Fresh(t)'
    BY <1>0, <1>1, LookupDoes DEF SameProcs, Fresh, Stops
  <2> QED BY <1>1, <2>1, LookupDoes, FewerProcesses DEF SameProcs
<1>2. CASE Evict(t)
  <2>1. Fresh(t)'
    BY <1>0, <1>2, EvictDoes DEF SameProcs, Fresh, Stops
  <2> QED BY <1>2, <2>1, EvictDoes, FewerProcesses DEF SameProcs
<1>3. CASE Create(t)
  <2>1. \A s \in Threads : rt[s].proc # <<t, "new">> /\ rt[s].proc # <<t, "again">>
    BY <1>0, <1>3, CreateDoes DEF Fresh
  <2>3. /\ rt'[t].proc = <<t, "new">> /\ \A s \in Threads \ {t} : rt'[s].proc = rt[s].proc
        /\ th'[t].pc = "boot"
    BY <1>3, CreateDoes, SpawnDoes, ProcsAreProcs
  <2>4. <<t, "new">> # <<t, "again">>
    OBVIOUS
  <2>5. \A s \in Threads : rt'[s].proc # <<t, "again">>
    BY <2>1, <2>3, <2>4
  <2>2. Fresh(t)'
    BY <2>3, <2>5 DEF Fresh, Stops
  <2> QED BY <1>3, <2>1, <2>2, CreateDoes, OneMoreProcess
<1>4. CASE Boot(t)
  <2>1. Fresh(t)'
    BY <1>0, <1>4, BootDoes DEF SameProcs, Fresh, Stops
  <2> QED BY <1>4, <2>1, BootDoes, FewerProcesses DEF SameProcs
<1>5. CASE BootFails(t) \/ WriteFails(t) \/ ReadFails(t)
  <2>1. Fresh(t)'
    BY <1>5, FailuresDo DEF SameProcs, Fresh, Stops
  <2> QED BY <1>5, <2>1, FailuresDo, FewerProcesses DEF SameProcs
<1>6. CASE StopKill(t)
  <2>1. Fresh(t)'
    BY <1>0, <1>6, StopKillDoes DEF SameProcs, Fresh, Stops
  <2> QED BY <1>6, <2>1, StopKillDoes, FewerProcesses DEF SameProcs
<1>7. CASE StopClear(t)
  <2>1. None # <<t, "new">> /\ None # <<t, "again">>
    BY WarmAssumption
  <2>2. Fresh(t)'
    BY <1>0, <1>7, <2>1, StopClearDoes DEF Fresh, Stops
  <2> QED BY <1>7, <2>2, StopClearDoes, FewerProcesses
<1>8. CASE StopForgets(t)
  <2>1. Fresh(t)'
    BY <1>0, <1>8, StopForgetsDoes DEF SameProcs, Fresh, Stops
  <2> QED BY <1>8, <2>1, StopForgetsDoes, FewerProcesses DEF SameProcs
<1>9. CASE StopRestarts(t)
  <2>1. \A s \in Threads : rt[s].proc # <<t, "again">>
    BY <1>0, <1>9, StopRestartsDoes DEF Fresh, Stops
  <2>2. Fresh(t)'
    BY <1>9, StopRestartsDoes DEF Fresh, Stops
  <2> QED BY <1>9, <2>1, <2>2, StopRestartsDoes, OneMoreProcess
<1>10. CASE StopRaises(t)
  <2>1. Fresh(t)'
    BY <1>10, StopRaisesDoes DEF SameProcs, Fresh, Stops
  <2> QED BY <1>10, <2>1, StopRaisesDoes, FewerProcesses DEF SameProcs
<1>11. CASE Enter(t)
  <2>1. Fresh(t)'
    BY <1>11, EnterDoes DEF SameProcs, Fresh, Stops
  <2> QED BY <1>11, <2>1, EnterDoes, FewerProcesses DEF SameProcs
<1>12. CASE EnterStopped(t)
  <2>1. Fresh(t)'
    BY <1>0, <1>12, EnterStoppedDoes DEF SameProcs, Fresh, Stops
  <2> QED BY <1>12, <2>1, EnterStoppedDoes, FewerProcesses DEF SameProcs
<1>13. CASE BootAgain(t)
  <2>1. Fresh(t)'
    BY <1>13, BootAgainDoes DEF SameProcs, Fresh, Stops
  <2> QED BY <1>13, <2>1, BootAgainDoes, FewerProcesses DEF SameProcs
<1>14. CASE Write(t)
  <2>1. Fresh(t)'
    BY <1>14, WriteDoes DEF Fresh, Stops
  <2> QED BY <1>14, <2>1, WriteDoes, FewerProcesses
<1>15. CASE Read(t)
  <2>1. Fresh(t)'
    BY <1>15, ReadDoes DEF SameProcs, Fresh, Stops
  <2> QED BY <1>15, <2>1, ReadDoes, FewerProcesses DEF SameProcs
<1> QED
  BY <1>1, <1>2, <1>3, <1>4, <1>5, <1>6, <1>7, <1>8, <1>9, <1>10, <1>11, <1>12, <1>13,
     <1>14, <1>15 DEF Serve, Manage, Stopping, Predict

LEMMA ProcessNext == Shape /\ OneProcessEach /\ [Next]_vars => OneProcessEach'
<1> SUFFICES ASSUME Shape, OneProcessEach, [Next]_vars PROVE OneProcessEach'
  OBVIOUS
<1>1. ASSUME UNCHANGED <<rt, th>> PROVE OneProcessEach'
  BY <1>1 DEF OneProcessEach, Distinct, Fresh
<1> QED BY <1>1, ProcessServe, ComputeDoes, DieDoes DEF Next, vars
----------------------------------------------------------------------------
(* What is in the pipes of a runtime's process is its lock holder's.           *)

Has(p, u) == proc[p].input = u \/ proc[p].result = u

HasThen(p, u) == proc'[p].input = u \/ proc'[p].result = u

\* The call that waits for process p, or that has given up and is about to kill it
Waits(u, r) ==
    /\ th[u].rt = r /\ rt[r].lock = u
    /\ \/ th[u].pc = "read"
       \/ th[u].pc = "kill" /\ th[u].then = "raise" /\ th[u].mine = rt[r].proc

Paired ==
    \A r, u \in Threads : (rt[r].proc \in Procs /\ Has(rt[r].proc, u)) => Waits(u, r)

LEMMA PairedInit == Init => Paired
<1> SUFFICES ASSUME Init PROVE Paired
  OBVIOUS
<1>1. \A r \in Threads : rt[r].proc = None
  BY DEF Init, NoRuntime
<1> QED BY <1>1, WarmAssumption DEF Paired, Procs

\* Pipes that the step of t does not fill, and a lock that it does not take away
LEMMA OthersStayPaired ==
    ASSUME Shape, Paired, NEW t \in Threads, Alone(t), NEW r \in Threads, NEW u \in Threads,
           u # t, rt'[r].proc = rt[r].proc, rt[r].proc \in Procs, Has(rt[r].proc, u),
           rt'[r].lock = rt[r].lock \/ rt[r].lock \in {None, t}
    PROVE  Waits(u, r)'
<1>1. Waits(u, r)
  BY DEF Paired
<1>2. u # None
  BY WarmAssumption
<1> QED BY <1>1, <1>2 DEF Waits, Alone

\* A step of a thread that waits for nothing, before and after
LEMMA IdlersStayPaired ==
    ASSUME Shape, Paired, NEW t \in Threads, Alone(t),
           th[t].pc # "read", ~(th[t].pc = "kill" /\ th[t].then = "raise"),
           \A r \in Threads : rt'[r].lock = rt[r].lock \/ rt[r].lock \in {None, t},
           \A r, u \in Threads : (rt'[r].proc \in Procs /\ HasThen(rt'[r].proc, u)) =>
               rt'[r].proc = rt[r].proc /\ Has(rt[r].proc, u)
    PROVE  Paired'
<1>1. ASSUME NEW r \in Threads, NEW u \in Threads, rt'[r].proc \in Procs, HasThen(rt'[r].proc, u)
      PROVE  Waits(u, r)'
  <2>1. rt'[r].proc = rt[r].proc /\ Has(rt[r].proc, u) /\ rt[r].proc \in Procs
    BY <1>1
  <2>2. Waits(u, r)
    BY <2>1 DEF Paired
  <2>3. u # t
    BY <2>2 DEF Waits
  <2> QED BY <2>1, <2>3, OthersStayPaired
<1> QED BY <1>1 DEF Paired, Has, HasThen
----------------------------------------------------------------------------
(* How often the model was run on a call's input, and what the call was given. *)

\* The call has not written its input yet.
Unsent(t) == \/ th[t].pc \in {"want", "evict", "boot", "enter", "boot_again", "write"}
             \/ th[t].pc \in Stops /\ th[t].then \in {"forget", "restart"}

CountedFor(u) ==
    /\ ran[u] \in {0, 1} /\ (Unsent(u) => ran[u] = 0)
    /\ \A p \in Procs : /\ proc[p].input = u => ran[u] = 0 /\ ~Unsent(u)
                        /\ proc[p].result = u => ran[u] = 1
    /\ \A p, q \in Procs : proc[p].input = u /\ proc[q].input = u => p = q

GivenFor(u) == IF th[u].pc = "answered" THEN th[u].got = u /\ ran[u] = 1
                                        ELSE th[u].got = None

Counted == ran \in [Threads -> Nat] /\ \A u \in Threads : CountedFor(u)
Given   == \A u \in Threads : GivenFor(u)

LEMMA CountedInit == Init => Counted /\ Given
<1> SUFFICES ASSUME Init PROVE Counted /\ Given
  OBVIOUS
<1>1. PICK w \in Workloads : th = [t \in Threads |-> NewThread(w[t])]
  BY DEF Init
<1>2. \A p \in Procs : proc[p].input = None /\ proc[p].result = None
  BY DEF Init, NoProcess
<1>3. ran = [t \in Threads |-> 0]
  BY DEF Init
<1>4. Counted
  BY <1>2, <1>3, WarmAssumption DEF Counted, CountedFor
<1>5. Given
  BY <1>1 DEF Given, GivenFor, NewThread
<1> QED BY <1>4, <1>5

\* A step of t that puts nothing into a pipe and does not answer it
Quiet(t) ==
    /\ Alone(t) /\ ran' = ran
    /\ \A p \in Procs : /\ proc'[p].input \in {proc[p].input, None}
                        /\ proc'[p].result \in {proc[p].result, None}
    /\ (Unsent(t)' => Unsent(t))
    /\ th[t].pc \notin {"answered", "failed", "done"}
    /\ th'[t].pc # "answered" /\ th'[t].got = th[t].got

LEMMA QuietCounts ==
    ASSUME Shape, Counted, Given, NEW t \in Threads, Quiet(t) PROVE Counted' /\ Given'
<1>1. ASSUME NEW u \in Threads PROVE CountedFor(u)'
  <2>1. Unsent(u)' => Unsent(u)
    BY DEF Quiet, Alone, Unsent
  <2>2. u # None /\ CountedFor(u)
    BY WarmAssumption DEF Counted
  <2> QED BY <2>1, <2>2 DEF Quiet, CountedFor
<1>2. ASSUME NEW u \in Threads PROVE GivenFor(u)'
  BY DEF Quiet, Alone, Given, GivenFor
<1> QED BY <1>1, <1>2 DEF Counted, Given, Quiet

LEMMA SpawnEmpties ==
    ASSUME Shape, NEW r \in Threads, NEW p \in Procs, Spawn(r, p)
    PROVE  \A q \in Procs : /\ proc'[q].input \in {proc[q].input, None}
                            /\ proc'[q].result \in {proc[q].result, None}
BY SpawnDoes

LEMMA MostStepsAreQuiet ==
    ASSUME Shape, NEW t \in Threads,
           \/ Manage(t) \/ Stopping(t) \/ Enter(t) \/ EnterStopped(t) \/ BootAgain(t)
           \/ WriteFails(t) \/ ReadFails(t)
    PROVE  Quiet(t)
<1>1. CASE Lookup(t)
  BY <1>1, LookupDoes DEF Quiet, Unsent, Stops
<1>2. CASE Evict(t)
  BY <1>2, EvictDoes DEF Quiet, Unsent, Stops
<1>3. CASE Create(t)
  <2>1. \A q \in Procs : /\ proc'[q].input \in {proc[q].input, None}
                         /\ proc'[q].result \in {proc[q].result, None}
    BY <1>3, CreateDoes, SpawnEmpties, ProcsAreProcs
  <2> QED BY <1>3, <2>1, CreateDoes DEF Quiet, Unsent, Stops
<1>4. CASE Boot(t)
  BY <1>4, BootDoes DEF Quiet, Unsent, Stops
<1>5. CASE BootFails(t) \/ WriteFails(t) \/ ReadFails(t)
  BY <1>5, FailuresDo DEF Quiet, Unsent, Stops
<1>6. CASE StopKill(t)
  BY <1>6, StopKillDoes DEF Quiet, Unsent, Stops
<1>7. CASE StopClear(t)
  BY <1>7, StopClearDoes DEF Quiet, Unsent, Stops
<1>8. CASE StopForgets(t)
  BY <1>8, StopForgetsDoes DEF Quiet, Unsent, Stops
<1>9. CASE StopRestarts(t)
  <2>1. \A q \in Procs : /\ proc'[q].input \in {proc[q].input, None}
                         /\ proc'[q].result \in {proc[q].result, None}
    BY <1>9, StopRestartsDoes, SpawnEmpties, ProcsAreProcs
  <2> QED BY <1>9, <2>1, StopRestartsDoes DEF Quiet, Unsent, Stops
<1>10. CASE StopRaises(t)
  BY <1>10, StopRaisesDoes DEF Quiet, Unsent, Stops
<1>11. CASE Enter(t)
  BY <1>11, EnterDoes DEF Quiet, Unsent, Stops
<1>12. CASE EnterStopped(t)
  BY <1>12, EnterStoppedDoes DEF Quiet, Unsent, Stops
<1>13. CASE BootAgain(t)
  BY <1>13, BootAgainDoes DEF Quiet, Unsent, Stops
<1> QED
  BY <1>1, <1>2, <1>3, <1>4, <1>5, <1>6, <1>7, <1>8, <1>9, <1>10, <1>11, <1>12, <1>13
     DEF Manage, Stopping

LEMMA WriteCounts ==
    ASSUME Shape, Counted, Given, NEW t \in Threads, Write(t) PROVE Counted' /\ Given'
<1>1. PICK p \in Procs : p = rt[th[t].rt].proc
  BY WriteDoes
<1>2. /\ Alone(t) /\ ran' = ran /\ th[t].pc = "write" /\ th'[t].pc = "read"
      /\ th'[t].got = th[t].got
      /\ proc'[p].input = t /\ proc'[p].result = proc[p].result
      /\ \A q \in Procs \ {p} : proc'[q] = proc[q]
  BY <1>1, WriteDoes
<1>3. ran[t] = 0 /\ \A q \in Procs : proc[q].input # t
  BY <1>2 DEF Counted, CountedFor, Unsent
<1>4. ASSUME NEW u \in Threads PROVE CountedFor(u)'
  <2>1. CountedFor(u)
    BY DEF Counted
  <2>2. CASE u = t
    BY <1>2, <1>3, <2>1, <2>2 DEF CountedFor, Unsent, Stops
  <2>3. CASE u # t
    <3>1. Unsent(u)' <=> Unsent(u)
      BY <1>2, <2>3 DEF Alone, Unsent
    <3> QED BY <1>2, <2>1, <2>3, <3>1 DEF CountedFor
  <2> QED BY <2>2, <2>3
<1>5. ASSUME NEW u \in Threads PROVE GivenFor(u)'
  BY <1>2 DEF Alone, Given, GivenFor
<1> QED BY <1>2, <1>4, <1>5 DEF Counted, Given

\* The result a call reads is its own.
LEMMA ReadsItsOwn ==
    ASSUME Shape, Locked, Paired, NEW t \in Threads, Read(t)
    PROVE  proc[rt[th[t].rt].proc].result = t
<1>1. PICK u \in Threads : u = proc[rt[th[t].rt].proc].result
  BY ReadDoes
<1>2. rt[th[t].rt].lock = t
  BY ReadDoes DEF Locked, Holder
<1>3. Waits(u, th[t].rt)
  BY <1>1, ReadDoes DEF Paired, Has
<1> QED BY <1>1, <1>2, <1>3 DEF Waits

LEMMA ReadCounts ==
    ASSUME Shape, Locked, Paired, Counted, Given, NEW t \in Threads, Read(t)
    PROVE  Counted' /\ Given'
<1>1. PICK p \in Procs : p = rt[th[t].rt].proc
  BY ReadDoes
<1>2. /\ Alone(t) /\ ran' = ran /\ th[t].pc = "read" /\ th'[t].pc = "answered"
      /\ th'[t].got = t /\ proc[p].result = t
      /\ proc'[p].input = proc[p].input /\ proc'[p].result = None
      /\ \A q \in Procs \ {p} : proc'[q] = proc[q]
  BY <1>1, ReadDoes, ReadsItsOwn
<1>3. ran[t] = 1
  BY <1>2 DEF Counted, CountedFor
<1>4. ASSUME NEW u \in Threads PROVE CountedFor(u)'
  <2>1. CountedFor(u) /\ u # None
    BY WarmAssumption DEF Counted
  <2>2. Unsent(u)' => Unsent(u)
    BY <1>2 DEF Alone, Unsent, Stops
  <2> QED BY <1>2, <2>1, <2>2 DEF CountedFor
<1>5. ASSUME NEW u \in Threads PROVE GivenFor(u)'
  BY <1>2, <1>3 DEF Alone, Given, GivenFor
<1> QED BY <1>2, <1>4, <1>5 DEF Counted, Given

LEMMA ComputeCounts ==
    ASSUME Shape, Counted, Given, NEW p \in Procs, Compute(p) PROVE Counted' /\ Given'
<1>1. PICK c \in Threads : c = proc[p].input
  BY ComputeDoes
<1>2. /\ th' = th /\ proc'[p].result = c /\ proc'[p].input = None
      /\ \A q \in Procs \ {p} : proc'[q] = proc[q]
      /\ ran' = [ran EXCEPT ![c] = @ + 1]
  BY <1>1, ComputeDoes
<1>3. ran[c] = 0 /\ ran' = [ran EXCEPT ![c] = 1] /\ ~Unsent(c)
  <2>1. ran[c] = 0 /\ ~Unsent(c)
    BY <1>1 DEF Counted, CountedFor
  <2> QED BY <1>2, <2>1
<1>4. ran' \in [Threads -> Nat]
  BY <1>3 DEF Counted
<1>5. ASSUME NEW u \in Threads PROVE CountedFor(u)'
  <2>1. CountedFor(u) /\ u # None /\ (Unsent(u)' <=> Unsent(u))
    BY <1>2, WarmAssumption DEF Counted, Unsent
  <2>2. ran'[u] = IF u = c THEN 1 ELSE ran[u]
    BY <1>3 DEF Counted
  <2>3. CASE u = c
    <3>1. \A q \in Procs : proc'[q].input # c
      BY <1>1, <1>2, <2>1, <2>3 DEF CountedFor
    <3> QED BY <1>2, <1>3, <2>1, <2>2, <2>3, <3>1 DEF CountedFor
  <2>4. CASE u # c
    BY <1>2, <2>1, <2>2, <2>4 DEF CountedFor
  <2> QED BY <2>3, <2>4
<1>6. ASSUME NEW u \in Threads PROVE GivenFor(u)'
  <2>1. ran'[u] = IF u = c THEN 1 ELSE ran[u]
    BY <1>3 DEF Counted
  <2> QED BY <1>2, <2>1 DEF Given, GivenFor
<1> QED BY <1>4, <1>5, <1>6 DEF Counted, Given

LEMMA DieCounts ==
    ASSUME Shape, Counted, Given, NEW p \in Procs, Die(p) PROVE Counted' /\ Given'
<1>1. ASSUME NEW u \in Threads PROVE CountedFor(u)'
  <2>1. CountedFor(u) /\ u # None
    BY WarmAssumption DEF Counted
  <2>2. Unsent(u)' <=> Unsent(u)
    BY DieDoes DEF Unsent
  <2> QED BY <2>1, <2>2, DieDoes DEF CountedFor
<1>2. ASSUME NEW u \in Threads PROVE GivenFor(u)'
  BY DieDoes DEF Given, GivenFor
<1> QED BY <1>1, <1>2, DieDoes DEF Counted, Given

----------------------------------------------------------------------------
(* The pairing of calls and processes, step by step.                           *)

LEMMA ReadPairs ==
    ASSUME Shape, Locked, OneProcessEach, Paired, Counted, NEW t \in Threads, Read(t)
    PROVE  Paired'
<1>1. PICK o \in Threads, p \in Procs : o = th[t].rt /\ p = rt[o].proc
  BY ReadDoes
<1>2. /\ Alone(t) /\ SameProcs /\ th[t].rt = o /\ proc[p].result = t
      /\ proc'[p].input = proc[p].input /\ proc'[p].result = None
      /\ \A q \in Procs \ {p} : proc'[q] = proc[q]
      /\ \A r \in Threads \ {o} : rt'[r].lock = rt[r].lock
  BY <1>1, ReadDoes, ReadsItsOwn
<1>3. rt[o].lock = t
  BY <1>1, ReadDoes DEF Locked, Holder
<1>4. ASSUME NEW r \in Threads, NEW u \in Threads, rt'[r].proc \in Procs, HasThen(rt'[r].proc, u)
      PROVE  Waits(u, r)'
  <2>1. rt'[r].proc = rt[r].proc /\ u # None
    BY <1>2, WarmAssumption DEF SameProcs
  <2>2. Has(rt[r].proc, u) /\ Waits(u, r)
    BY <1>2, <1>4, <2>1 DEF HasThen, Has, Paired
  <2>3. CASE r = o
    <3>1. u = t
      BY <1>3, <2>2, <2>3 DEF Waits
    <3>2. proc[p].input = t
      BY <1>1, <1>2, <1>4, <2>1, <2>3, <3>1 DEF HasThen
    <3> QED BY <1>2, <3>2 DEF Counted, CountedFor
  <2>4. CASE r # o
    <3>1. u # t
      BY <1>2, <2>2, <2>4 DEF Waits
    <3> QED BY <1>2, <1>4, <2>1, <2>2, <2>4, <3>1, OthersStayPaired
  <2> QED BY <2>3, <2>4
<1> QED BY <1>4 DEF Paired, Has, HasThen

LEMMA WritePairs ==
    ASSUME Shape, Locked, OneProcessEach, Paired, NEW t \in Threads, Write(t)
    PROVE  Paired'
<1>1. PICK o \in Threads, p \in Procs : o = th[t].rt /\ p = rt[o].proc
  BY WriteDoes
<1>2. /\ Alone(t) /\ rt' = rt /\ th[t].pc = "write" /\ th'[t].pc = "read" /\ th'[t].rt = o
      /\ proc'[p].input = t /\ proc'[p].result = proc[p].result
      /\ \A q \in Procs \ {p} : proc'[q] = proc[q]
  BY <1>1, WriteDoes
<1>3. rt[o].lock = t
  BY <1>1, <1>2 DEF Locked, Holder
<1>4. ASSUME NEW r \in Threads, NEW u \in Threads, rt'[r].proc \in Procs, HasThen(rt'[r].proc, u)
      PROVE  Waits(u, r)'
  <2>1. CASE r = o /\ u = t
    BY <1>2, <1>3, <2>1 DEF Waits
  <2>2. CASE ~(r = o /\ u = t)
    <3>1. rt'[r].proc = rt[r].proc /\ rt[r].proc \in Procs
      BY <1>2, <1>4
    <3>2. r # o => rt[r].proc # p
      <4>1. p # None
        BY WarmAssumption DEF Procs
      <4> QED BY <1>1, <3>1, <4>1 DEF OneProcessEach, Distinct
    <3>3. Has(rt[r].proc, u)
      BY <1>1, <1>2, <1>4, <2>2, <3>1, <3>2 DEF HasThen, Has
    <3>4. Waits(u, r)
      BY <3>1, <3>3 DEF Paired
    <3>5. u # t
      BY <1>2, <3>4 DEF Waits
    <3> QED BY <1>2, <3>1, <3>3, <3>5, OthersStayPaired
  <2> QED BY <2>1, <2>2
<1> QED BY <1>4 DEF Paired, Has, HasThen

\* Who gives up, or dies, still names the process it waited for.
LEMMA FailurePairs ==
    ASSUME Shape, Paired, NEW t \in Threads, BootFails(t) \/ WriteFails(t) \/ ReadFails(t)
    PROVE  Paired'
<1>1. ASSUME NEW r \in Threads, NEW u \in Threads, rt'[r].proc \in Procs, HasThen(rt'[r].proc, u)
      PROVE  Waits(u, r)'
  <2>1. rt'[r].proc = rt[r].proc /\ rt'[r].lock = rt[r].lock
    BY FailuresDo DEF SameProcs, SameLocks
  <2>2. Has(rt[r].proc, u)
    BY <1>1, <2>1, FailuresDo DEF Has, HasThen
  <2>3. CASE u = t
    BY <1>1, <2>1, <2>2, <2>3, FailuresDo DEF Paired, Waits
  <2>4. CASE u # t
    BY <1>1, <2>1, <2>2, <2>4, FailuresDo, OthersStayPaired
  <2> QED BY <2>3, <2>4
<1> QED BY <1>1 DEF Paired, Has, HasThen

\* Who gave up leaves nothing in the pipes of the process it kills.
LEMMA KillPairs ==
    ASSUME Shape, Paired, NEW t \in Threads, StopKill(t) PROVE Paired'
<1>1. ASSUME NEW r \in Threads, NEW u \in Threads, rt'[r].proc \in Procs, HasThen(rt'[r].proc, u)
      PROVE  Waits(u, r)'
  <2>1. rt'[r].proc = rt[r].proc /\ rt'[r].lock = rt[r].lock /\ u # None
    BY StopKillDoes, WarmAssumption DEF SameProcs, SameLocks
  <2>2. Has(rt[r].proc, u) /\ rt[r].proc # th[t].mine
    BY <1>1, <2>1, StopKillDoes DEF Has, HasThen
  <2>3. u # t
    BY <1>1, <2>1, <2>2, StopKillDoes DEF Paired, Waits
  <2> QED BY <1>1, <2>1, <2>2, <2>3, StopKillDoes, OthersStayPaired
<1> QED BY <1>1 DEF Paired, Has, HasThen

LEMMA SpawnPairs ==
    ASSUME Shape, Paired, NEW t \in Threads, Alone(t), NEW r \in Threads, NEW p \in Procs,
           Spawn(r, p), th[t].pc # "read", th[t].pc # "kill"
    PROVE  Paired'
<1>1. /\ rt'[r].proc = p /\ proc'[p].input = None /\ proc'[p].result = None
      /\ \A s \in Threads \ {r} : rt'[s].proc = rt[s].proc
      /\ \A q \in Procs \ {p} : proc'[q] = proc[q]
      /\ \A s \in Threads : rt'[s].lock = rt[s].lock
  BY SpawnDoes DEF SameLocks
<1>2. ASSUME NEW s \in Threads, NEW u \in Threads, rt'[s].proc \in Procs, HasThen(rt'[s].proc, u)
      PROVE  rt'[s].proc = rt[s].proc /\ Has(rt[s].proc, u)
  <2>1. u # None
    BY WarmAssumption
  <2> QED BY <1>1, <1>2, <2>1 DEF Has, HasThen
<1> QED BY <1>1, <1>2, IdlersStayPaired

LEMMA PairedServe ==
    ASSUME Shape, Locked, OneProcessEach, Paired, Counted, NEW t \in Threads, Serve(t)
    PROVE  Paired'
<1>0. None \notin Procs
  BY WarmAssumption DEF Procs
<1>1. CASE Lookup(t)
  BY <1>1, LookupDoes, IdlersStayPaired DEF SameProcs, SameLocks, Has, HasThen
<1>2. CASE Evict(t)
  BY <1>2, EvictDoes, IdlersStayPaired DEF SameProcs, SameLocks, Has, HasThen
<1>3. CASE Create(t)
  BY <1>3, CreateDoes, SpawnPairs, ProcsAreProcs
<1>4. CASE Boot(t)
  BY <1>4, BootDoes, IdlersStayPaired DEF SameProcs, SameLocks, Has, HasThen
<1>5. CASE BootFails(t) \/ WriteFails(t) \/ ReadFails(t)
  BY <1>5, FailurePairs
<1>6. CASE StopKill(t)
  BY <1>6, KillPairs
<1>7. CASE StopClear(t)
  BY <1>0, <1>7, StopClearDoes, IdlersStayPaired DEF SameLocks, Has, HasThen
<1>8. CASE StopForgets(t)
  BY <1>8, StopForgetsDoes, IdlersStayPaired DEF SameProcs, SameLocks, Has, HasThen
<1>9. CASE StopRestarts(t)
  BY <1>9, StopRestartsDoes, SpawnPairs, ProcsAreProcs
<1>10. CASE StopRaises(t)
  BY <1>10, StopRaisesDoes, IdlersStayPaired DEF SameProcs, Has, HasThen
<1>11. CASE Enter(t)
  BY <1>11, EnterDoes, IdlersStayPaired DEF SameProcs, SameLocks, Has, HasThen
<1>12. CASE EnterStopped(t)
  BY <1>12, EnterStoppedDoes, IdlersStayPaired DEF SameProcs, Has, HasThen
<1>13. CASE BootAgain(t)
  BY <1>13, BootAgainDoes, IdlersStayPaired DEF SameProcs, SameLocks, Has, HasThen
<1>14. CASE Write(t)
  BY <1>14, WritePairs
<1>15. CASE Read(t)
  BY <1>15, ReadPairs
<1> QED
  BY <1>1, <1>2, <1>3, <1>4, <1>5, <1>6, <1>7, <1>8, <1>9, <1>10, <1>11, <1>12, <1>13,
     <1>14, <1>15 DEF Serve, Manage, Stopping, Predict

LEMMA ProcessPairs ==
    ASSUME Shape, Paired, NEW p \in Procs, Compute(p) \/ Die(p) PROVE Paired'
<1>1. ASSUME NEW r \in Threads, NEW u \in Threads, rt'[r].proc \in Procs, HasThen(rt'[r].proc, u)
      PROVE  Waits(u, r)'
  <2>1. rt' = rt /\ th' = th /\ u # None
    BY ComputeDoes, DieDoes, WarmAssumption
  <2>2. Has(rt[r].proc, u)
    BY <1>1, <2>1, ComputeDoes, DieDoes DEF Has, HasThen
  <2> QED BY <1>1, <2>1, <2>2 DEF Paired, Waits
<1> QED BY <1>1 DEF Paired, Has, HasThen
----------------------------------------------------------------------------
(* The invariant, and the types.                                               *)

Inv == Shape /\ Rest /\ Locked /\ OneProcessEach /\ Paired /\ Counted /\ Given

LEMMA RestNext == Shape /\ Rest /\ [Next]_vars => Rest'
<1> SUFFICES ASSUME Shape, Rest, [Next]_vars PROVE Rest'
  OBVIOUS
<1>1. ASSUME NEW t \in Threads, NEW r, NEW then, StopThen(t, r, then)
      PROVE  disturbed' \in BOOLEAN
  <2>1. (disturbed \/ Users(t, r) # {}) \in BOOLEAN
    OBVIOUS
  <2> QED BY <1>1, <2>1, Zenon DEF StopThen
<1>2. ASSUME NEW t \in Threads, Manage(t) PROVE Rest'
  <2>1. disturbed' \in BOOLEAN
    BY <1>1, <1>2, Zenon DEF Manage, Lookup, Evict, Create, Boot, BootFails, Rest
  <2>2. mlock' \in Threads \cup {None} /\ deaths' \in 0..MaxDeaths
    BY <1>2 DEF Manage, Lookup, Evict, Create, Boot, BootFails, Rest
  <2> QED BY <2>1, <2>2 DEF Rest
<1>3. ASSUME NEW t \in Threads, Stopping(t) PROVE Rest'
  BY <1>3 DEF Stopping, StopKill, StopClear, StopForgets, StopRestarts, StopRaises, Rest
<1>4. ASSUME NEW t \in Threads, Predict(t) PROVE Rest'
  <2>1. CASE EnterStopped(t)
    <3>1. (disturbed \/ Users(t, th[t].rt) # {}) \in BOOLEAN
      OBVIOUS
    <3>2. disturbed' \in BOOLEAN
      BY <2>1, <3>1, Zenon DEF EnterStopped
    <3> QED BY <2>1, <3>2 DEF EnterStopped, Rest
  <2>2. CASE WriteFails(t) \/ ReadFails(t)
    <3>1. disturbed' \in BOOLEAN
      BY <1>1, <2>2, Zenon DEF WriteFails, ReadFails, Exception
    <3> QED BY <2>2, <3>1 DEF WriteFails, ReadFails, Exception, Rest
  <2>3. CASE Enter(t) \/ BootAgain(t) \/ Write(t) \/ Read(t)
    BY <2>3 DEF Enter, BootAgain, Write, Read, Rest
  <2> QED BY <1>4, <2>1, <2>2, <2>3 DEF Predict
<1>5. ASSUME NEW p \in Procs, Compute(p) \/ Die(p) PROVE Rest'
  BY <1>5, WarmAssumption DEF Compute, Die, Rest
<1>6. CASE UNCHANGED vars
  BY <1>6 DEF vars, Rest
<1> QED BY <1>2, <1>3, <1>4, <1>5, <1>6 DEF Next, Serve

LEMMA InvInit == Init => Inv
BY ShapeInit, LockedInit, ProcessInit, PairedInit, CountedInit DEF Inv

LEMMA InvNext == Inv /\ [Next]_vars => Inv'
<1> SUFFICES ASSUME Inv, [Next]_vars PROVE Inv'
  OBVIOUS
<1>1. Shape' /\ Rest' /\ Locked' /\ OneProcessEach'
  BY ShapeNext, RestNext, LockedNext, ProcessNext DEF Inv
<1>2. ASSUME NEW t \in Threads, Serve(t) PROVE Paired' /\ Counted' /\ Given'
  <2>1. Paired'
    BY <1>2, PairedServe DEF Inv
  <2>2. CASE Write(t)
    BY <2>1, <2>2, WriteCounts DEF Inv
  <2>3. CASE Read(t)
    BY <2>1, <2>3, ReadCounts DEF Inv
  <2>4. CASE Quiet(t)
    BY <2>1, <2>4, QuietCounts DEF Inv
  <2> QED BY <1>2, <2>2, <2>3, <2>4, MostStepsAreQuiet DEF Inv, Serve, Predict
<1>3. ASSUME NEW p \in Procs, Compute(p) \/ Die(p) PROVE Paired' /\ Counted' /\ Given'
  BY <1>3, ProcessPairs, ComputeCounts, DieCounts DEF Inv
<1>4. CASE UNCHANGED vars
  <2>1. Paired'
    BY <1>4 DEF vars, Inv, Paired, Has, Waits
  <2>2. Counted' /\ Given'
    BY <1>4 DEF vars, Inv, Counted, CountedFor, Unsent, Given, GivenFor
  <2> QED BY <1>1, <2>1, <2>2 DEF Inv
<1> QED BY <1>1, <1>2, <1>3, <1>4 DEF Inv, Next

\* Every reachable state is well typed; restarts stay within the budget.
THEOREM TypeCorrect == Spec => []WarmTypeOK
<1>1. Inv => WarmTypeOK
  BY DEF Inv, Shape, Rest, Counted, WarmTypeOK, RtRecords, ProcRecords, CallRecords, Pcs, Thens
<1> QED BY <1>1, InvInit, InvNext, PTL DEF Spec
----------------------------------------------------------------------------
(* The refinement.                                                             *)

phases == [t \in Threads |-> Phase(t)]
gots   == [t \in Threads |-> th[t].got]

LEMMA QuietRefines ==
    ASSUME Inv, NEW t \in Threads, Quiet(t)
    PROVE  Server!Fail(t) \/ UNCHANGED <<phases, ran, gots>>
<1>1. ran' = ran /\ gots' = gots
  BY DEF Quiet, Alone, gots
<1>2. Phase(t) = "waiting" /\ \A u \in Threads \ {t} : Phase(u)' = Phase(u)
  BY DEF Quiet, Alone, Phase, At
<1>3. Phase(t)' \in {"waiting", "failed"}
  BY DEF Quiet, Phase, At
<1>4. CASE Phase(t)' = "waiting"
  BY <1>1, <1>2, <1>4 DEF phases
<1>5. CASE Phase(t)' = "failed"
  <2>1. phases[t] = "waiting" /\ phases' = [phases EXCEPT ![t] = "failed"]
    BY <1>2, <1>5 DEF phases
  <2> QED BY <1>1, <2>1 DEF Server!Fail, phases, gots
<1> QED BY <1>3, <1>4, <1>5

LEMMA ReadRefines ==
    ASSUME Inv, NEW t \in Threads, Read(t) PROVE Server!Answer(t)
<1>1. /\ Alone(t) /\ ran' = ran /\ th[t].pc = "read" /\ th'[t].pc = "answered"
      /\ th'[t].got = t
  BY ReadDoes, ReadsItsOwn DEF Inv
<1>2. ran[t] = 1
  BY ReadDoes, ReadsItsOwn DEF Inv, Counted, CountedFor
<1>3. /\ Phase(t) = "waiting" /\ Phase(t)' = "answered"
      /\ \A u \in Threads \ {t} : Phase(u)' = Phase(u)
  BY <1>1 DEF Alone, Phase, At
<1>4. phases[t] = "waiting" /\ phases' = [phases EXCEPT ![t] = "answered"]
  BY <1>3 DEF phases
<1>5. gots' = [gots EXCEPT ![t] = t]
  BY <1>1 DEF gots, Alone
<1> QED BY <1>1, <1>2, <1>4, <1>5 DEF Server!Answer, phases, gots

LEMMA ComputeRefines ==
    ASSUME Inv, NEW p \in Procs, Compute(p) PROVE \E c \in Threads : Server!Run(c)
<1>1. PICK c \in Threads : c = proc[p].input
  BY ComputeDoes DEF Inv
<1>2. th' = th /\ ran' = [ran EXCEPT ![c] = @ + 1]
  BY <1>1, ComputeDoes DEF Inv
<1>3. ran[c] = 0
  BY <1>1 DEF Inv, Counted, CountedFor
<1>4. ran' = [ran EXCEPT ![c] = 1]
  BY <1>2, <1>3
<1>5. phases[c] \in {"waiting", "failed"}
  <2>1. th[c].pc # "answered"
    BY <1>3 DEF Inv, Given, GivenFor
  <2> QED BY <2>1 DEF phases, Phase, At
<1>6. phases' = phases /\ gots' = gots
  BY <1>2 DEF phases, gots, Phase, At
<1>7. Server!Run(c)
  BY <1>3, <1>4, <1>5, <1>6 DEF Server!Run, phases, gots
<1> QED BY <1>7

LEMMA StepRefines ==
    ASSUME Inv, [Next]_vars
    PROVE  Server!Next \/ UNCHANGED <<phases, ran, gots>>
<1>1. ASSUME NEW t \in Threads, Quiet(t) \/ Read(t)
      PROVE  Server!Next \/ UNCHANGED <<phases, ran, gots>>
  BY <1>1, QuietRefines, ReadRefines DEF Server!Next
<1>2. ASSUME NEW t \in Threads, Write(t) PROVE UNCHANGED <<phases, ran, gots>>
  <2>1. /\ Alone(t) /\ ran' = ran /\ th[t].pc = "write" /\ th'[t].pc = "read"
        /\ th'[t].got = th[t].got
    BY <1>2, WriteDoes DEF Inv
  <2>2. \A u \in Threads : Phase(u)' = Phase(u) /\ th'[u].got = th[u].got
    BY <2>1 DEF Alone, Phase, At
  <2> QED BY <2>1, <2>2 DEF phases, gots
<1>3. ASSUME NEW p \in Procs, Compute(p) PROVE Server!Next
  BY <1>3, ComputeRefines DEF Server!Next
<1>4. ASSUME UNCHANGED <<th, ran>> PROVE UNCHANGED <<phases, ran, gots>>
  BY <1>4 DEF phases, gots, Phase, At
<1>5. ASSUME NEW t \in Threads, Serve(t) PROVE Quiet(t) \/ Read(t) \/ Write(t)
  BY <1>5, MostStepsAreQuiet DEF Inv, Serve, Predict
<1> QED BY <1>1, <1>2, <1>3, <1>4, <1>5, DieDoes DEF Next, vars, Inv

LEMMA InitRefines == Init => Server!Init
<1> SUFFICES ASSUME Init PROVE Server!Init
  OBVIOUS
<1>1. PICK w \in Workloads : th = [t \in Threads |-> NewThread(w[t])]
  BY DEF Init
<1>2. \A t \in Threads : Phase(t) = "waiting" /\ th[t].got = None
  BY <1>1 DEF NewThread, Phase, At
<1>3. ran = [t \in Threads |-> 0]
  BY DEF Init
<1> QED BY <1>2, <1>3 DEF Server!Init

\* However processes die, are stopped, evicted or restarted, every call's input
\* is run at most once and the call ends with its own result or with an error.
THEOREM ServerCorrect == Spec => ServerSpec
<1>1. Inv /\ [Next]_vars => [Server!Next]_<<phases, ran, gots>>
  BY StepRefines
<1> QED BY <1>1, InvInit, InvNext, InitRefines, PTL DEF Spec, ServerSpec, Server!Spec, phases, gots
----------------------------------------------------------------------------
(* The pool. What each step does to the threads, the runtimes' processes and   *)
(* states, the living processes, the pool and the manager's lock.              *)

Live(p)  == proc[p].alive
OthersStay(r) == \A s \in Threads \ {r} : /\ rt'[s].state = rt[s].state
                                          /\ rt'[s].proc = rt[s].proc
SameLiving == \A p \in Procs : Live(p)' = Live(p)

\* Thread t goes on with the runtime it has.
Goes(t, from, to) ==
    /\ Alone(t) /\ th[t].pc \in from /\ th'[t].pc \in to
    /\ th'[t].rt = th[t].rt /\ th'[t].then = th[t].then /\ th'[t].mine = th[t].mine

Returns(t, to) ==
    /\ Alone(t) /\ th[t].pc = "stopped" /\ th'[t].pc = to
    /\ th'[t].rt = th[t].rt /\ th'[t].then = None

EntersStop(t, from, r, then) ==
    /\ Alone(t) /\ th[t].pc \in from /\ r \in Threads
    /\ th'[t].pc = "kill" /\ th'[t].rt = r /\ th'[t].then = then
    /\ th'[t].mine = rt[r].proc
    /\ SameProcs /\ OthersStay(r) /\ rt'[r].state = "STOPPING"
    /\ disturbed' = (disturbed \/ Users(t, r) # {})
    /\ UNCHANGED <<pool, proc>>

Starts(r, p) ==
    /\ r \in Threads /\ p \in Procs
    /\ rt'[r].proc = p /\ OthersStay(r)
    /\ \A q \in Procs \ {p} : Live(q)' = Live(q)

HandsOut(t) ==
    /\ Alone(t) /\ th[t].pc = "want" /\ th[t].kind = "predict" /\ th'[t].pc = "enter"
    /\ th'[t].rt = pool[th[t].model] /\ th'[t].rt \in Threads /\ Usable(th'[t].rt)
    /\ th'[t].then = th[t].then /\ UNCHANGED <<mlock, pool, rt, proc, disturbed>>
FindsUnusable(t) ==
    /\ EntersStop(t, {"want"}, pool[th[t].model], "forget") /\ mlock = None /\ mlock' = t
FindsNone(t) ==
    /\ Goes(t, {"want"}, {"evict"}) /\ th[t].kind = "predict" /\ pool[th[t].model] = None
    /\ mlock = None /\ mlock' = t /\ UNCHANGED <<pool, rt, proc, disturbed>>
FindsNothingToStop(t) ==
    /\ Goes(t, {"want"}, {"done"}) /\ UNCHANGED <<mlock, pool, rt, proc, disturbed>>
Evicts(t) ==
    /\ \E m \in Pooled : EntersStop(t, {"evict"}, pool[m], "forget")
    /\ UNCHANGED mlock
Creates(t) ==
    /\ Alone(t) /\ th[t].pc = "evict" /\ th'[t].pc = "boot" /\ th'[t].rt = t
    /\ th'[t].then = th[t].then /\ Cardinality(Pooled) < MaxModels
    /\ Starts(t, <<t, "new">>) /\ UNCHANGED <<mlock, pool, disturbed>>
Pools(t) ==
    /\ Goes(t, {"boot"}, {"enter"})
    /\ pool' = [pool EXCEPT ![th[t].model] = t] /\ mlock' = None
    /\ SameProcs /\ OthersStay(t) /\ UNCHANGED <<proc, disturbed>>
CallFails(t) ==
    /\ EntersStop(t, {"boot", "boot_again", "write", "read"}, th[t].rt, "raise")
    /\ UNCHANGED mlock
Kills(t) ==
    /\ Goes(t, {"kill"}, {"clear"})
    /\ \A p \in Procs : Live(p)' => Live(p) /\ p # th[t].mine
    /\ \A p \in Procs : Live(p) /\ p # th[t].mine => Live(p)'
    /\ UNCHANGED <<mlock, pool, rt, disturbed>>
Clears(t) ==
    /\ Goes(t, {"clear"}, {"stopped"}) /\ OthersStay(th[t].rt)
    /\ rt'[th[t].rt].state = rt[th[t].rt].state
    /\ rt'[th[t].rt].proc = IF th[t].mine = None THEN rt[th[t].rt].proc ELSE None
    /\ UNCHANGED <<mlock, pool, proc, disturbed>>
Forgets(t) ==
    /\ th[t].then = "forget" /\ SameProcs /\ OthersStay(th[t].rt)
    /\ \/ Returns(t, "done") /\ th[t].kind = "teardown" /\ mlock' = None
       \/ Returns(t, "evict") /\ th[t].kind = "predict" /\ mlock' = t
    /\ pool' = [m \in Models |-> IF pool[m] = th[t].rt THEN None ELSE pool[m]]
    /\ UNCHANGED <<proc, disturbed>>
Restarts(t) ==
    /\ th[t].then = "restart" /\ Returns(t, "boot_again")
    /\ Starts(th[t].rt, <<t, "again">>) /\ UNCHANGED <<mlock, pool, disturbed>>
Raises(t) ==
    /\ th[t].then = "raise" /\ Returns(t, "failed") /\ SameProcs /\ OthersStay(th[t].rt)
    /\ mlock' = (IF mlock = t THEN None ELSE mlock) /\ UNCHANGED <<pool, proc, disturbed>>
EntersAgain(t) ==
    /\ EntersStop(t, {"enter"}, th[t].rt, "restart") /\ UNCHANGED mlock
Uses(t) ==
    /\ Goes(t, InCall, {"write", "read", "answered", "failed"})
    /\ SameProcs /\ OthersStay(th[t].rt) /\ SameLiving /\ UNCHANGED <<mlock, pool, disturbed>>

KindsStay == \A u \in Threads : th'[u].kind = th[u].kind /\ th'[u].model = th[u].model

LEMMA StopThenEnters ==
    ASSUME Shape, NEW t \in Threads, NEW r \in Threads, NEW then, NEW from,
           StopThen(t, r, then), th[t].pc \in from, UNCHANGED <<pool, proc>>
    PROVE  EntersStop(t, from, r, then) /\ KindsStay
<1>1. EntersStop(t, from, r, then)
  <2>0. rt' = [rt EXCEPT ![r].state = "STOPPING"]
    BY DEF StopThen
  <2>1. OthersStay(r)
    BY <2>0 DEF OthersStay, Shape
  <2>2. rt'[r].state = "STOPPING"
    BY <2>0 DEF Shape, RtRecords
  <2>3. disturbed' = (disturbed \/ Users(t, r) # {})
    BY DEF StopThen
  <2> QED BY <2>1, <2>2, <2>3, StopThenDoes DEF EntersStop
<1>2. KindsStay
  BY DEF StopThen, KindsStay, Shape, CallRecords
<1> QED BY <1>1, <1>2

LEMMA GotoGoes ==
    ASSUME Shape, NEW t \in Threads, NEW pc, Goto(t, pc), NEW from, th[t].pc \in from
    PROVE  Goes(t, from, {pc}) /\ KindsStay
<1>1. Goes(t, from, {pc})
  BY GotoDoes DEF Goes
<1>2. KindsStay
  BY DEF Goto, KindsStay, Shape, CallRecords
<1> QED BY <1>1, <1>2

LEMMA ReturnReturns ==
    ASSUME Shape, NEW t \in Threads, NEW pc, Return(t, pc), th[t].pc = "stopped"
    PROVE  Returns(t, pc) /\ KindsStay
<1>1. Returns(t, pc)
  <2>1. th'[t].then = None
    BY DEF Return, Shape, CallRecords
  <2> QED BY <2>1, ReturnDoes DEF Returns
<1>2. KindsStay
  BY DEF Return, KindsStay, Shape, CallRecords
<1> QED BY <1>1, <1>2

LEMMA SpawnStarts ==
    ASSUME Shape, NEW r \in Threads, NEW p \in Procs, Spawn(r, p)
    PROVE  Starts(r, p)
<1>1. OthersStay(r)
  BY DEF Spawn, OthersStay, Shape, RtRecords
<1>2. \A q \in Procs \ {p} : Live(q)' = Live(q)
  BY SpawnDoes DEF Live
<1> QED BY <1>1, <1>2, SpawnDoes DEF Starts

LEMMA ManageSteps ==
    ASSUME Shape, NEW t \in Threads, Manage(t)
    PROVE  /\ KindsStay
           /\ \/ HandsOut(t) \/ FindsUnusable(t) \/ FindsNone(t) \/ FindsNothingToStop(t)
              \/ Evicts(t) \/ Creates(t) \/ Pools(t) \/ CallFails(t)
<1>1. th[t].model \in Models /\ pool[th[t].model] \in Threads \cup {None}
  BY DEF Shape, CallRecords
<1>2. CASE Lookup(t)
  <2>0. th[t].pc = "want" /\ UNCHANGED <<pool, proc>>
    BY <1>2 DEF Lookup, At
  <2>1. CASE /\ pool[th[t].model] # None /\ StopThen(t, pool[th[t].model], "forget")
             /\ mlock = None /\ mlock' = t
    BY <1>1, <2>0, <2>1, StopThenEnters DEF FindsUnusable
  <2>2. CASE /\ th[t].kind = "predict" /\ pool[th[t].model] # None /\ Usable(pool[th[t].model])
             /\ th' = [th EXCEPT ![t].pc = "enter", ![t].rt = pool[th[t].model]]
             /\ UNCHANGED <<mlock, rt, disturbed>>
    <3>1. /\ Alone(t) /\ KindsStay /\ th'[t].pc = "enter" /\ th'[t].rt = pool[th[t].model]
          /\ th'[t].then = th[t].then
      BY <2>2 DEF Alone, KindsStay, Shape, CallRecords
    <3> QED BY <1>1, <2>0, <2>2, <3>1 DEF HandsOut
  <2>3. CASE /\ th[t].kind = "predict" /\ pool[th[t].model] = None /\ mlock = None
             /\ Goto(t, "evict") /\ mlock' = t /\ UNCHANGED <<rt, disturbed>>
    BY <2>0, <2>3, GotoGoes DEF FindsNone
  <2>4. CASE Goto(t, "done") /\ UNCHANGED <<mlock, rt, disturbed>>
    BY <2>0, <2>4, GotoGoes DEF FindsNothingToStop
  <2> QED BY <1>2, <2>1, <2>2, <2>3, <2>4 DEF Lookup
<1>3. CASE Evict(t)
  <2>1. PICK m \in Pooled : StopThen(t, pool[m], "forget")
    BY <1>3 DEF Evict
  <2>2. pool[m] \in Threads
    BY DEF Pooled, Shape
  <2>3. th[t].pc \in {"evict"} /\ UNCHANGED <<mlock, pool, proc>>
    BY <1>3 DEF Evict, At
  <2>4. EntersStop(t, {"evict"}, pool[m], "forget") /\ KindsStay
    BY <2>1, <2>2, <2>3, StopThenEnters
  <2> QED BY <2>3, <2>4 DEF Evicts
<1>4. CASE Create(t)
  <2>1. /\ Alone(t) /\ KindsStay /\ th'[t].pc = "boot" /\ th'[t].rt = t
        /\ th'[t].then = th[t].then
    BY <1>4 DEF Create, Alone, KindsStay, Shape, CallRecords
  <2> QED BY <1>4, <2>1, SpawnStarts, ProcsAreProcs DEF Create, Creates, At
<1>5. CASE Boot(t)
  <2>1. SameProcs /\ OthersStay(t)
    BY <1>5 DEF Boot, SameProcs, OthersStay, Shape, RtRecords
  <2> QED BY <1>5, <2>1, GotoGoes DEF Boot, At, Pools
<1>6. CASE BootFails(t)
  <2>1. th[t].rt \in Threads
    BY <1>6 DEF BootFails, At, Shape, HasRuntime
  <2> QED BY <1>6, <2>1, StopThenEnters DEF BootFails, At, CallFails
<1> QED BY <1>2, <1>3, <1>4, <1>5, <1>6 DEF Manage

LEMMA StoppingSteps ==
    ASSUME Shape, NEW t \in Threads, Stopping(t)
    PROVE  /\ KindsStay
           /\ Kills(t) \/ Clears(t) \/ Forgets(t) \/ Restarts(t) \/ Raises(t)
<1>1. th[t].rt \in Threads /\ th[t].kind \in {"predict", "teardown"}
  BY DEF Stopping, StopKill, StopClear, StopForgets, StopRestarts, StopRaises, At, Shape,
         HasRuntime, CallRecords
<1>2. CASE StopKill(t)
  <2>1. /\ \A p \in Procs : Live(p)' => Live(p) /\ p # th[t].mine
        /\ \A p \in Procs : Live(p) /\ p # th[t].mine => Live(p)'
    BY <1>2 DEF StopKill, Live, NoProcess, Shape
  <2> QED BY <1>2, <2>1, GotoGoes DEF StopKill, At, Kills
<1>3. CASE StopClear(t)
  <2>1. /\ OthersStay(th[t].rt) /\ rt'[th[t].rt].state = rt[th[t].rt].state
        /\ rt'[th[t].rt].proc = IF th[t].mine = None THEN rt[th[t].rt].proc ELSE None
    BY <1>1, <1>3 DEF StopClear, OthersStay, Shape, RtRecords
  <2> QED BY <1>3, <2>1, GotoGoes DEF StopClear, At, Clears
<1>4. CASE StopForgets(t)
  <2>1. SameProcs /\ OthersStay(th[t].rt)
    BY <1>4 DEF StopForgets, SameProcs, OthersStay, Shape, RtRecords
  <2>2. CASE th[t].kind = "teardown"
    BY <1>4, <2>1, <2>2, ReturnReturns DEF StopForgets, At, Forgets
  <2>3. CASE th[t].kind = "predict"
    BY <1>4, <2>1, <2>3, ReturnReturns DEF StopForgets, At, Forgets
  <2> QED BY <1>1, <2>2, <2>3
<1>5. CASE StopRestarts(t)
  BY <1>1, <1>5, SpawnStarts, ProcsAreProcs, ReturnReturns DEF StopRestarts, At, Restarts
<1>6. CASE StopRaises(t)
  <2>1. SameProcs /\ OthersStay(th[t].rt)
    BY <1>6 DEF StopRaises, SameProcs, OthersStay, Shape, RtRecords
  <2> QED BY <1>6, <2>1, ReturnReturns DEF StopRaises, At, Raises
<1> QED BY <1>2, <1>3, <1>4, <1>5, <1>6 DEF Stopping

LEMMA PredictSteps ==
    ASSUME Shape, NEW t \in Threads, Predict(t)
    PROVE  KindsStay /\ (EntersAgain(t) \/ CallFails(t) \/ Uses(t))
<1>1. th[t].rt \in Threads
  BY DEF Predict, Enter, EnterStopped, BootAgain, Write, WriteFails, Read, ReadFails, At,
         Shape, HasRuntime
<1>2. CASE Enter(t)
  <2>1. SameProcs /\ OthersStay(th[t].rt)
    BY <1>1, <1>2 DEF Enter, SameProcs, OthersStay, Shape, RtRecords
  <2>2. Goto(t, "write") \/ Goto(t, "failed")
    BY <1>2 DEF Enter
  <2>3. th[t].pc \in InCall /\ SameLiving /\ UNCHANGED <<mlock, pool, disturbed>>
    BY <1>2 DEF Enter, At, InCall, SameLiving, Live
  <2> QED BY <2>1, <2>2, <2>3, GotoGoes DEF Uses, Goes
<1>3. CASE EnterStopped(t)
  <2>1. /\ SameProcs /\ OthersStay(th[t].rt) /\ rt'[th[t].rt].state = "STOPPING"
    BY <1>1, <1>3 DEF EnterStopped, SameProcs, OthersStay, Shape, RtRecords
  <2>2. /\ Alone(t) /\ KindsStay /\ th'[t].pc = "kill" /\ th'[t].rt = th[t].rt
        /\ th'[t].then = "restart" /\ th'[t].mine = rt[th[t].rt].proc
    BY <1>3 DEF EnterStopped, Alone, KindsStay, Shape, CallRecords
  <2> QED BY <1>1, <1>3, <2>1, <2>2 DEF EnterStopped, At, EntersAgain, EntersStop
<1>4. CASE BootAgain(t)
  <2>1. SameProcs /\ OthersStay(th[t].rt)
    BY <1>1, <1>4 DEF BootAgain, SameProcs, OthersStay, Shape, RtRecords
  <2>2. th[t].pc \in InCall /\ SameLiving
    BY <1>4 DEF BootAgain, At, InCall, SameLiving, Live
  <2> QED BY <1>4, <2>1, <2>2, GotoGoes DEF BootAgain, Uses, Goes
<1>5. CASE Write(t)
  <2>1. rt[th[t].rt].proc \in Procs
    BY <1>5, WriteDoes
  <2>2. th[t].pc \in InCall /\ SameLiving
    BY <1>5, <2>1 DEF Write, At, InCall, SameLiving, Live, Shape, ProcRecords
  <2> QED BY <1>5, <2>2, GotoGoes DEF Write, Uses, Goes, SameProcs, OthersStay
<1>6. CASE WriteFails(t) \/ ReadFails(t)
  BY <1>1, <1>6, StopThenEnters DEF WriteFails, ReadFails, Exception, At, CallFails
<1>7. CASE Read(t)
  <2>1. rt[th[t].rt].proc \in Procs
    BY <1>7, ReadDoes
  <2>2. th[t].pc \in InCall /\ SameLiving
    BY <1>7, <2>1 DEF Read, At, InCall, SameLiving, Live, Shape, ProcRecords
  <2>3. SameProcs /\ OthersStay(th[t].rt)
    BY <1>1, <1>7 DEF Read, SameProcs, OthersStay, Shape, RtRecords
  <2>4. /\ Alone(t) /\ KindsStay /\ th'[t].pc = "answered" /\ th'[t].rt = th[t].rt
        /\ th'[t].then = th[t].then /\ th'[t].mine = th[t].mine
    BY <1>7 DEF Read, Alone, KindsStay, Shape, CallRecords
  <2> QED BY <1>7, <2>2, <2>3, <2>4 DEF Read, Uses, Goes
<1> QED BY <1>2, <1>3, <1>4, <1>5, <1>6, <1>7 DEF Predict

LEMMA ProcessesOnly ==
    ASSUME Shape, NEW p \in Procs, Compute(p) \/ Die(p)
    PROVE  /\ UNCHANGED <<th, rt, pool, mlock, disturbed>>
           /\ \A q \in Procs : Live(q)' => Live(q)
<1>1. \A q \in Procs : Live(q)' => Live(q)
  BY DEF Compute, Die, Live, Shape, ProcRecords
<1> QED BY <1>1 DEF Compute, Die

Serves(t) ==
    \/ HandsOut(t) \/ FindsUnusable(t) \/ FindsNone(t) \/ FindsNothingToStop(t)
    \/ Evicts(t) \/ Creates(t) \/ Pools(t) \/ CallFails(t)
    \/ Kills(t) \/ Clears(t) \/ Forgets(t) \/ Restarts(t) \/ Raises(t)
    \/ EntersAgain(t) \/ Uses(t)

LEMMA ServeSteps == ASSUME Shape, NEW t \in Threads, Serve(t) PROVE KindsStay /\ Serves(t)
BY ManageSteps, StoppingSteps, PredictSteps DEF Serve, Serves
LEMMA ServesAlone == ASSUME NEW t \in Threads, Serves(t) PROVE Alone(t)
BY DEF Serves, HandsOut, FindsUnusable, FindsNone, FindsNothingToStop, Evicts, Creates,
       Pools, CallFails, Kills, Clears, Forgets, Restarts, Raises, EntersAgain, Uses,
       EntersStop, Goes, Returns
----------------------------------------------------------------------------
(* Who is where: a thread goes on somewhere after stop() only while it is in   *)
(* stop(), and only a prediction uses a runtime.                               *)

Reason(t) ==
    /\ th[t].then # None <=> th[t].pc \in Stops
    /\ th[t].pc \in InCall \cup {"boot", "evict"} \/ th[t].then \in {"raise", "restart"}
         => th[t].kind = "predict"
Reasons == \A t \in Threads : Reason(t)

LEMMA ReasonsInit == Init => Reasons
<1> SUFFICES ASSUME Init PROVE Reasons
  OBVIOUS
<1>1. PICK w \in Workloads : th = [t \in Threads |-> NewThread(w[t])]
  BY DEF Init
<1> QED BY <1>1, WarmAssumption DEF Reasons, Reason, NewThread, Stops, InCall

LEMMA ReasonsServe ==
    ASSUME Shape, Reasons, NEW t \in Threads, KindsStay, Serves(t) PROVE Reasons'
<1>1. Alone(t)
  BY ServesAlone
<1>2. ASSUME NEW u \in Threads \ {t} PROVE Reason(u)'
  BY <1>1 DEF Alone, Reasons, Reason
<1>3. Reason(t)'
  <2>1. Reason(t) /\ th'[t].kind = th[t].kind
    BY DEF Reasons, KindsStay
  <2>2. CASE HandsOut(t) \/ FindsNone(t) \/ FindsNothingToStop(t) \/ Creates(t) \/ Pools(t)
    BY <2>1, <2>2 DEF HandsOut, FindsNone, FindsNothingToStop, Creates, Pools, Goes,
                      Reason, Stops, InCall
  <2>3. CASE FindsUnusable(t) \/ Evicts(t)
    BY <2>1, <2>3, WarmAssumption DEF FindsUnusable, Evicts, EntersStop, Reason, Stops, InCall
  <2>4. CASE CallFails(t) \/ EntersAgain(t)
    BY <2>1, <2>4, WarmAssumption DEF CallFails, EntersAgain, EntersStop, Reason, Stops, InCall
  <2>5. CASE Kills(t) \/ Clears(t) \/ Uses(t)
    BY <2>1, <2>5 DEF Kills, Clears, Uses, Goes, Reason, Stops, InCall
  <2>6. CASE Forgets(t) \/ Restarts(t) \/ Raises(t)
    BY <2>1, <2>6, WarmAssumption DEF Forgets, Restarts, Raises, Returns, Reason, Stops, InCall
  <2> QED BY <2>2, <2>3, <2>4, <2>5, <2>6 DEF Serves
<1> QED BY <1>2, <1>3 DEF Reasons

----------------------------------------------------------------------------
(* The manager's lock: its holder is the only thread that looks at the pool or *)
(* changes it, and its model is not in the pool when it makes a runtime.       *)

Manages(t) == th[t].pc \in {"evict", "boot"} \/ th[t].then = "forget"

Manager(t) ==
    /\ Manages(t) => mlock = t
    /\ th[t].pc \in {"evict", "boot"} => pool[th[t].model] = None
    /\ th[t].then = "forget" /\ th[t].kind = "predict" => pool[th[t].model] \in {None, th[t].rt}
    /\ th[t].pc = "boot" => th[t].rt = t
Managed == \A t \in Threads : Manager(t)

LEMMA ManagedInit == Init => Managed
<1> SUFFICES ASSUME Init PROVE Managed
  OBVIOUS
<1>1. PICK w \in Workloads : th = [t \in Threads |-> NewThread(w[t])]
  BY DEF Init
<1> QED BY <1>1, WarmAssumption DEF Managed, Manager, Manages, NewThread

LEMMA ManagedServe ==
    ASSUME Shape, Reasons, Managed, NEW t \in Threads, KindsStay, Serves(t) PROVE Managed'
<1>0. Alone(t) /\ Reason(t) /\ Manager(t) /\ th[t].model \in Models /\ t # None
  BY ServesAlone, WarmAssumption DEF Reasons, Managed, Shape, CallRecords
\* The lock changes hands only when it is free or t's own, and only then the pool.
<1>1. /\ mlock' = mlock \/ (mlock \in {t, None} /\ mlock' \in {t, None})
      /\ pool' = pool \/ mlock = t
  BY <1>0 DEF Serves, HandsOut, FindsUnusable, FindsNone, FindsNothingToStop, Evicts, Creates,
              Pools, CallFails, Kills, Clears, Forgets, Restarts, Raises, EntersAgain, Uses,
              EntersStop, Goes, Manager, Manages
<1>2. ASSUME NEW u \in Threads \ {t} PROVE Manager(u)'
  <2>1. Manager(u) /\ th'[u] = th[u] /\ u # t /\ u # None
    BY <1>0, WarmAssumption DEF Managed, Alone
  <2>2. CASE Manages(u)
    BY <1>1, <2>1, <2>2 DEF Manager, Manages
  <2>3. CASE ~Manages(u)
    BY <2>1, <2>3 DEF Manager, Manages
  <2> QED BY <2>2, <2>3
<1>3. Manager(t)'
  <2>0. th'[t].kind = th[t].kind /\ th'[t].model = th[t].model
    BY DEF KindsStay
  <2>1. CASE HandsOut(t) \/ FindsNone(t) \/ FindsNothingToStop(t) \/ Creates(t) \/ Pools(t)
    BY <1>0, <2>0, <2>1, WarmAssumption DEF HandsOut, FindsNone, FindsNothingToStop, Creates, Pools, Goes,
                      Reason, Stops, Manager, Manages
  <2>2. CASE FindsUnusable(t)
    BY <1>0, <2>0, <2>2 DEF FindsUnusable, EntersStop, Manager, Manages
  <2>3. CASE Evicts(t)
    BY <1>0, <2>0, <2>3 DEF Evicts, EntersStop, Manager, Manages
  <2>4. CASE CallFails(t) \/ EntersAgain(t)
    BY <1>0, <2>0, <2>4 DEF CallFails, EntersAgain, EntersStop, Manager, Manages
  <2>5. CASE Kills(t) \/ Clears(t) \/ Uses(t)
    BY <1>0, <2>0, <2>5, WarmAssumption DEF Kills, Clears, Uses, Goes, Reason, Stops, InCall, Manager, Manages
  <2>6. CASE Forgets(t)
    BY <1>0, <2>0, <2>6, WarmAssumption DEF Forgets, Returns, Manager, Manages, Shape
  <2>7. CASE Restarts(t) \/ Raises(t)
    BY <1>0, <2>0, <2>7, WarmAssumption DEF Restarts, Raises, Returns, Manager, Manages
  <2> QED BY <2>1, <2>2, <2>3, <2>4, <2>5, <2>6, <2>7 DEF Serves
<1> QED BY <1>2, <1>3 DEF Managed

\* What every step of thread t leaves alone
LEMMA OneRuntime ==
    ASSUME Managed, NEW t \in Threads, Serves(t)
    PROVE  Alone(t) /\ OthersStay(th'[t].rt)
<1>1. Alone(t)
  BY ServesAlone
<1>2. CASE UNCHANGED rt
  BY <1>1, <1>2 DEF OthersStay
<1>3. CASE FindsUnusable(t) \/ Evicts(t) \/ CallFails(t) \/ EntersAgain(t)
  BY <1>1, <1>3 DEF FindsUnusable, Evicts, CallFails, EntersAgain, EntersStop
<1>4. CASE Creates(t) \/ Pools(t)
  BY <1>1, <1>4 DEF Creates, Pools, Goes, Starts, Managed, Manager
<1>5. CASE Clears(t) \/ Uses(t)
  BY <1>1, <1>5 DEF Clears, Uses, Goes
<1>6. CASE Forgets(t) \/ Restarts(t) \/ Raises(t)
  BY <1>1, <1>6 DEF Forgets, Restarts, Raises, Returns, Starts
<1>7. CASE HandsOut(t) \/ FindsNone(t) \/ FindsNothingToStop(t) \/ Kills(t)
  BY <1>2, <1>7 DEF HandsOut, FindsNone, FindsNothingToStop, Kills
<1> QED BY <1>1, <1>3, <1>4, <1>5, <1>6, <1>7 DEF Serves
----------------------------------------------------------------------------
(* The pool's size: whoever boots a new runtime found room for it.             *)

Within ==
    /\ IsFiniteSet(Pooled) /\ Cardinality(Pooled) <= MaxModels
    /\ \A t \in Threads : th[t].pc = "boot" => Cardinality(Pooled) < MaxModels

LEMMA WithinInit == Init => Within
<1> SUFFICES ASSUME Init PROVE Within
  OBVIOUS
<1>1. Pooled = {}
  BY DEF Init, Pooled
<1>2. IsFiniteSet(Pooled) /\ Cardinality(Pooled) = 0
  BY <1>1, FS_EmptySet
<1>3. \A t \in Threads : th[t].pc = "want"
  BY DEF Init, NewThread
<1> QED BY <1>2, <1>3, WarmAssumption DEF Within

LEMMA WithinServe ==
    ASSUME Shape, Managed, Within, NEW t \in Threads, Serves(t) PROVE Within'
<1>0. Alone(t) /\ th[t].model \in Models /\ t # None
  BY ServesAlone, WarmAssumption DEF Shape, CallRecords
<1>1. ASSUME pool' = pool, th'[t].pc = "boot" => Cardinality(Pooled) < MaxModels PROVE Within'
  <2>1. Pooled' = Pooled
    BY <1>1 DEF Pooled
  <2> QED BY <1>0, <1>1, <2>1 DEF Within, Alone
<1>2. CASE Pools(t)
  <2>1. th[t].pc = "boot" /\ mlock = t /\ pool[th[t].model] = None
    BY <1>2 DEF Pools, Goes, Managed, Manager, Manages
  <2>2. Pooled' = Pooled \cup {th[t].model} /\ th[t].model \notin Pooled
    BY <1>0, <1>2, <2>1 DEF Pools, Pooled, Shape
  <2>3. IsFiniteSet(Pooled') /\ Cardinality(Pooled') = Cardinality(Pooled) + 1
    BY <2>2, FS_AddElement DEF Within
  <2>4. Cardinality(Pooled) \in Nat /\ Cardinality(Pooled) < MaxModels
    BY <2>1, FS_CardinalityType DEF Within
  <2>5. \A u \in Threads : th'[u].pc # "boot"
    BY <1>0, <1>2, <2>1 DEF Pools, Goes, Managed, Manager, Manages, Alone
  <2> QED BY <2>3, <2>4, <2>5, WarmAssumption DEF Within
<1>3. CASE Forgets(t)
  <2>1. Pooled' \subseteq Pooled
    BY <1>3 DEF Forgets, Pooled, Shape
  <2>2. IsFiniteSet(Pooled') /\ Cardinality(Pooled') <= Cardinality(Pooled)
    BY <2>1, FS_Subset DEF Within
  <2>3. Cardinality(Pooled) \in Nat /\ Cardinality(Pooled') \in Nat
    BY <2>2, FS_CardinalityType DEF Within
  <2>4. \A u \in Threads : th'[u].pc = "boot" => th[u].pc = "boot"
    BY <1>0, <1>3 DEF Forgets, Returns, Alone
  <2> QED BY <2>2, <2>3, <2>4, WarmAssumption DEF Within
<1>4. CASE HandsOut(t) \/ FindsUnusable(t) \/ FindsNone(t) \/ FindsNothingToStop(t) \/ Evicts(t)
  BY <1>1, <1>4 DEF HandsOut, FindsUnusable, FindsNone, FindsNothingToStop, Evicts, EntersStop, Goes
<1>5. CASE Creates(t)
  BY <1>1, <1>5 DEF Creates
<1>6. CASE CallFails(t) \/ Kills(t) \/ Clears(t) \/ Restarts(t) \/ Raises(t) \/ EntersAgain(t) \/ Uses(t)
  BY <1>1, <1>6 DEF CallFails, Kills, Clears, Restarts, Raises, EntersAgain, Uses, EntersStop,
                    Goes, Returns
<1> QED BY <1>2, <1>3, <1>4, <1>5, <1>6 DEF Serves
----------------------------------------------------------------------------
(* A runtime that has not been made, or is not pooled yet, is nobody else's.   *)

Uncreated(t) == th[t].pc \in {"want", "evict"} \/ th[t].then = "forget"

Private(t) ==
    /\ Uncreated(t) \/ th[t].pc = "boot" =>
         /\ \A m \in Models : pool[m] # t
         /\ \A u \in Threads \ {t} : th[u].rt # t
    /\ Uncreated(t) => rt[t].proc = None /\ th[t].rt # t
AllPrivate == \A t \in Threads : Private(t)

LEMMA PrivateInit == Init => AllPrivate
<1> SUFFICES ASSUME Init PROVE AllPrivate
  OBVIOUS
<1>1. PICK w \in Workloads : th = [t \in Threads |-> NewThread(w[t])]
  BY DEF Init
<1> QED BY <1>1, WarmAssumption DEF Init, AllPrivate, Private, Uncreated, NewThread, NoRuntime

\* The runtime that a step of t leaves t with is the one it had, one of the pool,
\* or its own.
LEMMA WhichRuntime ==
    ASSUME Shape, NEW t \in Threads, Serves(t)
    PROVE  \/ th'[t].rt = th[t].rt
           \/ \E m \in Models : th'[t].rt = pool[m]
           \/ Creates(t)
<1>1. th[t].model \in Models /\ Pooled \subseteq Models
  BY DEF Shape, CallRecords, Pooled
<1>2. CASE HandsOut(t) \/ FindsUnusable(t)
  BY <1>1, <1>2 DEF HandsOut, FindsUnusable, EntersStop
<1>3. CASE Evicts(t)
  BY <1>1, <1>3 DEF Evicts, EntersStop
<1>4. CASE CallFails(t) \/ EntersAgain(t)
  BY <1>4 DEF CallFails, EntersAgain, EntersStop
<1>5. CASE \/ FindsNone(t) \/ FindsNothingToStop(t) \/ Pools(t) \/ Kills(t) \/ Clears(t)
           \/ Forgets(t) \/ Restarts(t) \/ Raises(t) \/ Uses(t)
  BY <1>5 DEF FindsNone, FindsNothingToStop, Pools, Kills, Clears, Forgets, Restarts, Raises,
              Uses, Goes, Returns
<1> QED BY <1>2, <1>3, <1>4, <1>5 DEF Serves

\* A runtime without a process keeps none unless it is started.
LEMMA NoProcessStays ==
    ASSUME Managed, NEW t \in Threads, Serves(t), NEW r \in Threads, rt[r].proc = None
    PROVE  rt'[r].proc = None \/ (r = t /\ Creates(t)) \/ (r = th[t].rt /\ Restarts(t))
<1>1. CASE Creates(t)
  BY <1>1 DEF Creates, Starts, OthersStay
<1>2. CASE Restarts(t)
  BY <1>2 DEF Restarts, Starts, OthersStay
<1>3. CASE Clears(t)
  BY <1>3 DEF Clears, OthersStay
<1>4. CASE \/ HandsOut(t) \/ FindsNone(t) \/ FindsNothingToStop(t) \/ Kills(t)
  BY <1>4 DEF HandsOut, FindsNone, FindsNothingToStop, Kills
<1>5. CASE \/ FindsUnusable(t) \/ Evicts(t) \/ CallFails(t) \/ EntersAgain(t) \/ Pools(t)
           \/ Forgets(t) \/ Raises(t) \/ Uses(t)
  BY <1>5 DEF FindsUnusable, Evicts, CallFails, EntersAgain, EntersStop, Pools, Forgets,
              Raises, Uses, SameProcs
<1> QED BY <1>1, <1>2, <1>3, <1>4, <1>5 DEF Serves

LEMMA PrivateServe ==
    ASSUME Shape, Reasons, Managed, AllPrivate, NEW t \in Threads, KindsStay, Serves(t)
    PROVE  AllPrivate'
<1>0. Alone(t) /\ Reason(t) /\ Private(t) /\ th[t].model \in Models /\ t # None
  BY ServesAlone, WarmAssumption DEF Reasons, AllPrivate, Shape, CallRecords
<1>1. \A m \in Models : pool'[m] \in {pool[m], None} \/ (pool'[m] = t /\ Pools(t))
  BY DEF Serves, HandsOut, FindsUnusable, FindsNone, FindsNothingToStop, Evicts, Creates,
         Pools, CallFails, Kills, Clears, Forgets, Restarts, Raises, EntersAgain, Uses,
         EntersStop, Goes, Shape
\* The thread itself
<1>2. Uncreated(t)' => Uncreated(t) /\ ~Creates(t) /\ ~Restarts(t) /\ ~Pools(t)
  BY <1>0, WarmAssumption
     DEF Serves, HandsOut, FindsUnusable, FindsNone, FindsNothingToStop, Evicts, Creates,
         Pools, CallFails, Kills, Clears, Forgets, Restarts, Raises, EntersAgain, Uses,
         EntersStop, Goes, Returns, Uncreated, Reason, Stops, InCall
<1>3. th'[t].pc = "boot" => Creates(t) /\ th[t].pc = "evict"
  BY DEF Serves, HandsOut, FindsUnusable, FindsNone, FindsNothingToStop, Evicts, Creates,
         Pools, CallFails, Kills, Clears, Forgets, Restarts, Raises, EntersAgain, Uses,
         EntersStop, Goes, Returns, InCall
<1>4. ~(Creates(t) /\ Pools(t))
  BY DEF Creates, Pools, Goes
<1>5. Private(t)'
  <2>1. CASE Uncreated(t)'
    <3>1. Uncreated(t) /\ ~Creates(t) /\ ~Restarts(t) /\ ~Pools(t)
      BY <1>2, <2>1
    <3>2. \A m \in Models : pool'[m] # t
      BY <1>0, <1>1, <3>1 DEF Private
    <3>3. \A u \in Threads \ {t} : th'[u].rt # t
      BY <1>0, <3>1 DEF Private, Alone
    <3>4. rt'[t].proc = None
      BY <1>0, <3>1, NoProcessStays DEF Private
    <3>5. th'[t].rt # t
      BY <1>0, <3>1, WhichRuntime DEF Private
    <3> QED BY <3>2, <3>3, <3>4, <3>5 DEF Private
  <2>2. CASE ~Uncreated(t)' /\ th'[t].pc = "boot"
    BY <1>0, <1>1, <1>3, <1>4, <2>2 DEF Private, Uncreated, Alone
  <2> QED BY <2>1, <2>2 DEF Private
\* The others
<1>6. ASSUME NEW u \in Threads \ {t} PROVE Private(u)'
  <2>1. Private(u) /\ th'[u] = th[u] /\ u # t /\ u # None
    BY <1>0, WarmAssumption DEF AllPrivate, Alone
  <2>2. ASSUME Uncreated(u) \/ th[u].pc = "boot"
        PROVE  /\ \A m \in Models : pool'[m] # u
               /\ \A v \in Threads \ {u} : th'[v].rt # u
    <3>1. \A m \in Models : pool[m] # u /\ pool'[m] # u
      BY <1>1, <2>1, <2>2 DEF Private
    <3>2. th[t].rt # u
      BY <2>1, <2>2 DEF Private
    <3>4. Creates(t) => th'[t].rt # u
      BY <2>1 DEF Creates
    <3>3. th'[t].rt # u
      BY <3>1, <3>2, <3>4, WhichRuntime
    <3> QED BY <1>0, <2>1, <2>2, <3>1, <3>3 DEF Private, Alone
  <2>3. ASSUME Uncreated(u) PROVE rt'[u].proc = None /\ th'[u].rt # u
    BY <2>1, <2>3, NoProcessStays DEF Private
  <2> QED BY <2>1, <2>2, <2>3 DEF Private, Uncreated
<1> QED BY <1>5, <1>6 DEF AllPrivate
----------------------------------------------------------------------------
(* As long as nobody has stopped a runtime under a call, a runtime that is     *)
(* being stopped is used by nobody, and by no other thread that stops it.      *)

CallOn(t, r) ==
    /\ th[t].kind = "predict" /\ th[t].rt = r
    /\ th[t].pc \in InCall \/ th[t].then \in {"raise", "restart"}

StopsAlone(t) ==
    th[t].pc \in Stops =>
        /\ \A u \in Threads \ {t} : ~CallOn(u, th[t].rt)
        /\ rt[th[t].rt].state = "STOPPING"
AllStopAlone == \A t \in Threads : StopsAlone(t)

Placed == Shape /\ Reasons /\ Managed /\ AllPrivate

LEMMA InStops ==
    ASSUME Shape, Reasons, NEW t \in Threads, th[t].pc \in Stops
    PROVE  /\ th[t].rt \in Threads /\ th[t].then \in {"forget", "raise", "restart"}
           /\ th[t].then # "forget" => CallOn(t, th[t].rt)
<1>1. th[t].rt \in Threads
  BY DEF Shape, HasRuntime, Stops
<1>2. th[t].then # None /\ th[t].then \in Thens
  BY DEF Shape, CallRecords, Reasons, Reason
<1> QED BY <1>1, <1>2 DEF Thens, CallOn, Reasons, Reason

LEMMA TwoStoppers ==
    ASSUME Placed, AllStopAlone, NEW t \in Threads, NEW u \in Threads \ {t},
           th[t].pc \in Stops, th[u].pc \in Stops
    PROVE  th[t].rt # th[u].rt
<1>1. CASE th[t].then = "forget" /\ th[u].then = "forget"
  <2>1. mlock = t /\ mlock = u
    BY <1>1 DEF Placed, Managed, Manager, Manages
  <2> QED BY <2>1
<1>2. CASE th[t].then # "forget"
  BY <1>2, InStops DEF Placed, AllStopAlone, StopsAlone
<1>3. CASE th[u].then # "forget"
  BY <1>3, InStops DEF Placed, AllStopAlone, StopsAlone
<1> QED BY <1>1, <1>2, <1>3

\* What a step that stops nothing under a call finds and does
LEMMA CalmStops ==
    ASSUME NEW t \in Threads, NEW from, NEW r, NEW then, EntersStop(t, from, r, then), ~disturbed'
    PROVE  ~disturbed /\ \A u \in Threads \ {t} : ~CallOn(u, r)
<1>1. ~disturbed /\ Users(t, r) = {}
  BY Zenon DEF EntersStop
<1> QED BY <1>1 DEF Users, CallOn

LEMMA CalmBefore ==
    ASSUME NEW t \in Threads, Serves(t), ~disturbed' PROVE ~disturbed
<1>1. CASE FindsUnusable(t) \/ CallFails(t) \/ EntersAgain(t)
  BY <1>1, CalmStops DEF FindsUnusable, CallFails, EntersAgain
<1>2. CASE Evicts(t)
  BY <1>2, CalmStops DEF Evicts
<1>3. CASE UNCHANGED disturbed
  BY <1>3
<1> QED BY <1>1, <1>2, <1>3
        DEF Serves, HandsOut, FindsNone, FindsNothingToStop, Creates, Pools, Kills, Clears,
            Forgets, Restarts, Raises, Uses

\* A thread on a call uses the runtime it is at work on.
LEMMA OnACall ==
    ASSUME Reasons, NEW t \in Threads, th[t].pc \in InCall PROVE CallOn(t, th[t].rt)
BY DEF Reasons, Reason, CallOn

\* Where a step leaves thread t at work on the runtime another thread is stopping
\* it has only entered stop() for it after that thread, with the manager's lock.
LEMMA StoppedStays ==
    ASSUME Placed, AllStopAlone, NEW t \in Threads, KindsStay, Serves(t), ~disturbed',
           NEW u \in Threads \ {t}, th[u].pc \in Stops
    PROVE  /\ rt'[th[u].rt].proc = rt[th[u].rt].proc
           /\ rt'[th[u].rt].state = "STOPPING"
           /\ ~CallOn(t, th[u].rt)'
<1> DEFINE r == th[u].rt
<1>1. /\ OthersStay(th'[t].rt) /\ r \in Threads /\ rt[r].state = "STOPPING"
      /\ th'[u] = th[u]
  BY OneRuntime, InStops DEF Alone, Placed, AllStopAlone, StopsAlone
<1>2. ~CallOn(t, r)
  BY DEF AllStopAlone, StopsAlone
<1>3. CASE th'[t].rt # r
  BY <1>1, <1>3 DEF OthersStay, CallOn
<1>4. CASE th'[t].rt = r
  <2>1. CASE FindsUnusable(t)
    BY <1>1, <1>4, <2>1, WarmAssumption DEF FindsUnusable, EntersStop, SameProcs, CallOn, InCall
  <2>2. CASE Evicts(t)
    BY <1>1, <1>4, <2>2, WarmAssumption DEF Evicts, EntersStop, SameProcs, CallOn, InCall
  <2>3. CASE HandsOut(t)
    BY <1>1, <1>4, <2>3 DEF HandsOut, Usable
  <2>4. CASE Creates(t) \/ Pools(t)
    <3>1. th[u].rt # t
      BY <2>4 DEF Creates, Pools, Goes, Placed, AllPrivate, Private, Uncreated
    <3>2. th'[t].rt = t
      BY <2>4 DEF Creates, Pools, Goes, Placed, Managed, Manager
    <3> QED BY <1>4, <3>1, <3>2
  <2>5. CASE FindsNone(t) \/ FindsNothingToStop(t)
    <3>1. th[t].then = None /\ th'[t].then = th[t].then /\ th'[t].pc \notin InCall
      BY <2>5 DEF FindsNone, FindsNothingToStop, Goes, Placed, Reasons, Reason, Stops, InCall
    <3> QED BY <1>1, <2>5, <3>1, WarmAssumption DEF FindsNone, FindsNothingToStop, CallOn
  <2>6. CASE CallFails(t)
    <3>0. th'[t].rt = th[t].rt
      BY <2>6 DEF CallFails, EntersStop
    <3>1. CASE th[t].pc = "boot"
      <4>1. th[t].rt = t
        BY <3>1 DEF Placed, Managed, Manager
      <4>2. th[u].rt # t
        BY <3>1 DEF Placed, AllPrivate, Private
      <4> QED BY <1>4, <3>0, <4>1, <4>2
    <3>2. CASE th[t].pc \in InCall
      BY <1>2, <1>4, <2>6, <3>2, OnACall DEF CallFails, EntersStop, Placed
    <3> QED BY <2>6, <3>1, <3>2 DEF CallFails, EntersStop, InCall
  <2>7. CASE EntersAgain(t) \/ Uses(t)
    BY <1>2, <1>4, <2>7, OnACall DEF EntersAgain, Uses, Goes, EntersStop, Placed, InCall
  <2>8. CASE Kills(t) \/ Clears(t) \/ Forgets(t) \/ Restarts(t) \/ Raises(t)
    <3>1. th[t].pc \in Stops /\ th'[t].rt = th[t].rt
      BY <2>8 DEF Kills, Clears, Forgets, Restarts, Raises, Goes, Returns, Stops
    <3> QED BY <1>4, <3>1, TwoStoppers
  <2> QED BY <2>1, <2>2, <2>3, <2>4, <2>5, <2>6, <2>7, <2>8 DEF Serves
<1> QED BY <1>3, <1>4

LEMMA StopsAloneServe ==
    ASSUME Placed, AllStopAlone, NEW t \in Threads, KindsStay, Serves(t), ~disturbed'
    PROVE  AllStopAlone'
<1>1. Alone(t)
  BY ServesAlone
<1>2. \A v \in Threads \ {t} : \A r \in Threads : CallOn(v, r)' = CallOn(v, r)
  BY <1>1 DEF Alone, CallOn
<1>3. ASSUME NEW u \in Threads \ {t} PROVE StopsAlone(u)'
  <2>1. th'[u] = th[u] /\ StopsAlone(u)
    BY <1>1 DEF Alone, AllStopAlone
  <2>2. CASE th[u].pc \in Stops
    <3>1. th[u].rt \in Threads
      BY <2>2, InStops DEF Placed
    <3>2. \A v \in Threads \ {u, t} : ~CallOn(v, th[u].rt)'
      BY <1>2, <2>1, <2>2, <3>1 DEF StopsAlone
    <3> QED BY <2>1, <2>2, <3>2, StoppedStays DEF StopsAlone
  <2> QED BY <2>1, <2>2 DEF StopsAlone
<1>4. StopsAlone(t)'
  <2>1. ASSUME NEW from, NEW r, NEW then, EntersStop(t, from, r, then) PROVE StopsAlone(t)'
    <3>1. r \in Threads /\ th'[t].rt = r /\ rt'[r].state = "STOPPING"
      BY <2>1 DEF EntersStop
    <3> QED BY <1>2, <2>1, <3>1, CalmStops DEF StopsAlone
  <2>2. CASE FindsUnusable(t) \/ CallFails(t) \/ EntersAgain(t) \/ Evicts(t)
    BY <2>1, <2>2 DEF FindsUnusable, CallFails, EntersAgain, Evicts
  <2>3. CASE Kills(t) \/ Clears(t)
    <3>1. th[t].pc \in Stops /\ th'[t].rt = th[t].rt /\ rt'[th[t].rt].state = rt[th[t].rt].state
      BY <2>3 DEF Kills, Clears, Goes, Stops
    <3>2. th[t].rt \in Threads /\ StopsAlone(t)
      BY <3>1, InStops DEF Placed, AllStopAlone
    <3> QED BY <1>2, <3>1, <3>2 DEF StopsAlone
  <2>4. CASE \/ HandsOut(t) \/ FindsNone(t) \/ FindsNothingToStop(t) \/ Creates(t) \/ Pools(t)
             \/ Forgets(t) \/ Restarts(t) \/ Raises(t) \/ Uses(t)
    BY <2>4 DEF HandsOut, FindsNone, FindsNothingToStop, Creates, Pools, Forgets, Restarts,
                Raises, Uses, Goes, Returns, StopsAlone, Stops
  <2> QED BY <2>2, <2>3, <2>4 DEF Serves
<1> QED BY <1>3, <1>4 DEF AllStopAlone
----------------------------------------------------------------------------
(* Where the living processes are, as long as nobody has stopped a runtime     *)
(* under a call.                                                               *)

IsPooled(r) == \E m \in Models : pool[m] = r

\* Calls are made to pooled runtimes only.
Serving(t) == th[t].pc \in InCall \/ th[t].then = "restart" => IsPooled(th[t].rt)
AllServing == \A t \in Threads : Serving(t)

\* stop() kills the process the runtime has, and leaves the runtime without one.
Noted(t) ==
    /\ th[t].pc \in {"kill", "clear"} => th[t].mine = rt[th[t].rt].proc
    /\ th[t].pc = "stopped" => rt[th[t].rt].proc = None
    /\ th[t].pc = "clear" /\ th[t].mine # None => ~Live(th[t].mine)
AllNoted == \A t \in Threads : Noted(t)

Owned == \A p \in Procs : Live(p) => \E r \in Threads : rt[r].proc = p

AtWorkOn(t, r) == th[t].rt = r /\ th[t].pc \in {"boot", "kill", "clear"}
Held == \A r \in Threads :
          rt[r].proc # None => IsPooled(r) \/ \E t \in Threads : AtWorkOn(t, r)

LEMMA PooledStays ==
    ASSUME Placed, NEW t \in Threads, Serves(t), NEW r \in Threads, IsPooled(r)
    PROVE  IsPooled(r)' \/ (Forgets(t) /\ r = th[t].rt)
<1>1. PICK m \in Models : pool[m] = r
  BY DEF IsPooled
<1>2. CASE Pools(t)
  <2>1. pool[th[t].model] = None /\ r # None
    BY <1>2, WarmAssumption DEF Pools, Goes, Placed, Managed, Manager
  <2>2. pool'[m] = r
    BY <1>1, <1>2, <2>1 DEF Pools, Placed, Shape
  <2> QED BY <2>2 DEF IsPooled
<1>3. CASE Forgets(t)
  BY <1>1, <1>3 DEF Forgets, IsPooled
<1>4. CASE pool' = pool
  BY <1>1, <1>4 DEF IsPooled
<1> QED BY <1>2, <1>3, <1>4
        DEF Serves, HandsOut, FindsUnusable, FindsNone, FindsNothingToStop, Evicts, Creates,
            CallFails, Kills, Clears, Restarts, Raises, EntersAgain, Uses, EntersStop

LEMMA ServingServe ==
    ASSUME Placed, AllStopAlone, AllServing, NEW t \in Threads, KindsStay, Serves(t)
    PROVE  AllServing'
<1>0. Alone(t) /\ Reason(t) /\ Serving(t) /\ th[t].model \in Models
  BY ServesAlone DEF Placed, Reasons, AllServing, Shape, CallRecords
<1>1. ASSUME NEW u \in Threads \ {t} PROVE Serving(u)'
  <2>1. th'[u] = th[u] /\ Serving(u)
    BY <1>0 DEF Alone, AllServing
  <2>2. CASE th[u].pc \in InCall \/ th[u].then = "restart"
    <3>1. CallOn(u, th[u].rt) /\ th[u].rt \in Threads
      <4>1. CASE th[u].pc \in InCall
        BY <4>1, OnACall DEF Placed, Shape, HasRuntime, InCall
      <4>2. CASE th[u].then = "restart"
        BY <4>2, InStops, WarmAssumption DEF Placed, Reasons, Reason
      <4> QED BY <2>2, <4>1, <4>2
    <3>2. ~(Forgets(t) /\ th[u].rt = th[t].rt)
      BY <3>1 DEF Forgets, Returns, Stops, AllStopAlone, StopsAlone
    <3>3. IsPooled(th[u].rt)
      BY <2>1, <2>2 DEF Serving
    <3>4. \E m \in Models : pool'[m] = th[u].rt
      BY <3>1, <3>2, <3>3, PooledStays DEF IsPooled
    <3> QED BY <2>1, <3>4 DEF Serving, IsPooled
  <2> QED BY <2>1, <2>2 DEF Serving
<1>2. Serving(t)'
  <2>1. CASE HandsOut(t)
    BY <1>0, <2>1 DEF HandsOut, Serving, IsPooled
  <2>2. CASE Pools(t)
    BY <1>0, <2>2 DEF Pools, Goes, Serving, IsPooled, Placed, Shape, Managed, Manager
  <2>3. CASE FindsUnusable(t) \/ Evicts(t) \/ CallFails(t)
    BY <2>3 DEF FindsUnusable, Evicts, CallFails, EntersStop, Serving, InCall
  <2>4. CASE EntersAgain(t) \/ Uses(t)
    BY <1>0, <2>4 DEF EntersAgain, Uses, EntersStop, Goes, Serving, IsPooled, InCall
  <2>5. CASE FindsNone(t) \/ FindsNothingToStop(t) \/ Creates(t)
    BY <1>0, <2>5, WarmAssumption
       DEF FindsNone, FindsNothingToStop, Creates, Goes, Serving, Reason, Stops, InCall
  <2>6. CASE Kills(t) \/ Clears(t) \/ Restarts(t)
    BY <1>0, <2>6 DEF Kills, Clears, Restarts, Goes, Returns, Serving, IsPooled, InCall
  <2>7. CASE Forgets(t) \/ Raises(t)
    BY <2>7, WarmAssumption DEF Forgets, Raises, Returns, Serving, InCall
  <2> QED BY <2>1, <2>2, <2>3, <2>4, <2>5, <2>6, <2>7 DEF Serves
<1> QED BY <1>1, <1>2 DEF AllServing

\* No step brings the process of a runtime to life.
LEMMA NoneRises ==
    ASSUME OneProcessEach, NEW t \in Threads, Serves(t), NEW p \in Procs,
           NEW s \in Threads, rt[s].proc = p, Live(p)'
    PROVE  Live(p)
<1>1. CASE Creates(t)
  <2>1. p # <<t, "new">>
    BY <1>1 DEF Creates, OneProcessEach, Fresh
  <2> QED BY <1>1, <2>1 DEF Creates, Starts
<1>2. CASE Restarts(t)
  <2>1. p # <<t, "again">>
    BY <1>2 DEF Restarts, Returns, Stops, OneProcessEach, Fresh
  <2> QED BY <1>2, <2>1 DEF Restarts, Starts
<1>3. CASE proc' = proc
  BY <1>3 DEF Live
<1>4. CASE Kills(t)
  BY <1>4 DEF Kills
<1>5. CASE Uses(t)
  BY <1>5 DEF Uses, SameLiving
<1> QED BY <1>1, <1>2, <1>3, <1>4, <1>5
        DEF Serves, HandsOut, FindsUnusable, FindsNone, FindsNothingToStop, Evicts, Pools,
            CallFails, Clears, Forgets, Raises, EntersAgain, EntersStop

LEMMA NotedServe ==
    ASSUME Placed, OneProcessEach, AllStopAlone, AllNoted,
           NEW t \in Threads, KindsStay, Serves(t), ~disturbed'
    PROVE  AllNoted'
<1>1. Alone(t) /\ Noted(t)
  BY ServesAlone DEF AllNoted
<1>2. ASSUME NEW u \in Threads \ {t} PROVE Noted(u)'
  <2>1. th'[u] = th[u] /\ Noted(u)
    BY <1>1 DEF Alone, AllNoted
  <2>2. CASE th[u].pc \in Stops
    <3>1. rt'[th[u].rt].proc = rt[th[u].rt].proc /\ th[u].rt \in Threads
      BY <2>2, StoppedStays, InStops DEF Placed
    <3>2. th[u].mine \in Procs \cup {None}
      BY DEF Placed, Shape, CallRecords
    <3>3. ASSUME th[u].pc = "clear", th[u].mine # None PROVE ~proc'[th[u].mine].alive
      <4>1. rt[th[u].rt].proc = th[u].mine /\ ~Live(th[u].mine)
        BY <2>1, <3>3 DEF Noted
      <4>2. PICK p \in Procs : p = th[u].mine
        BY <3>2, <3>3
      <4>3. ~Live(p)'
        BY <3>1, <4>1, <4>2, NoneRises
      <4> QED BY <4>2, <4>3 DEF Live
    <3> QED BY <2>1, <3>1, <3>3 DEF Noted, Live
  <2> QED BY <2>1, <2>2 DEF Noted, Stops
<1>3. Noted(t)'
  <2>1. CASE FindsUnusable(t) \/ Evicts(t) \/ CallFails(t) \/ EntersAgain(t)
    BY <2>1 DEF FindsUnusable, Evicts, CallFails, EntersAgain, EntersStop, SameProcs, Noted
  <2>2. CASE Kills(t)
    BY <1>1, <2>2 DEF Kills, Goes, Noted, Live, Placed, Shape, CallRecords
  <2>3. CASE Clears(t)
    BY <1>1, <2>3 DEF Clears, Goes, Noted
  <2>4. CASE \/ HandsOut(t) \/ FindsNone(t) \/ FindsNothingToStop(t) \/ Creates(t) \/ Pools(t)
             \/ Forgets(t) \/ Restarts(t) \/ Raises(t) \/ Uses(t)
    BY <2>4 DEF HandsOut, FindsNone, FindsNothingToStop, Creates, Pools, Forgets, Restarts,
                Raises, Uses, Goes, Returns, Noted
  <2> QED BY <2>1, <2>2, <2>3, <2>4 DEF Serves
<1> QED BY <1>2, <1>3 DEF AllNoted

LEMMA OwnedServe ==
    ASSUME Placed, AllStopAlone, AllNoted, Owned,
           NEW t \in Threads, KindsStay, Serves(t)
    PROVE  Owned'
<1>0. Alone(t) /\ Noted(t)
  BY ServesAlone DEF AllNoted
<1>1. ASSUME NEW p \in Procs, Live(p)' PROVE \E r \in Threads : rt'[r].proc = p
  <2>1. ASSUME NEW s \in Threads, NEW q \in Procs, Starts(s, q), rt[s].proc = None
        PROVE  \E r \in Threads : rt'[r].proc = p
    <3>1. CASE p = q
      BY <2>1, <3>1 DEF Starts
    <3>2. CASE p # q
      <4>1. PICK r \in Threads : rt[r].proc = p
        BY <1>1, <2>1, <3>2 DEF Starts, Owned
      <4>2. r # s
        BY <2>1, <4>1, WarmAssumption DEF Procs
      <4> QED BY <2>1, <4>1, <4>2 DEF Starts, OthersStay
    <3> QED BY <3>1, <3>2
  <2>2. CASE Creates(t)
    <3>1. rt[t].proc = None
      BY <2>2 DEF Creates, Placed, AllPrivate, Private, Uncreated
    <3> QED BY <2>1, <2>2, <3>1, ProcsAreProcs DEF Creates
  <2>3. CASE Restarts(t)
    <3>1. rt[th[t].rt].proc = None /\ th[t].rt \in Threads
      BY <1>0, <2>3 DEF Restarts, Returns, Starts, Noted
    <3> QED BY <2>1, <2>3, <3>1, ProcsAreProcs DEF Restarts
  <2>4. CASE Clears(t)
    <3>1. Live(p) /\ th[t].pc = "clear" /\ th[t].mine = rt[th[t].rt].proc
      BY <1>0, <1>1, <2>4 DEF Clears, Goes, Noted, Live
    <3>2. PICK r \in Threads : rt[r].proc = p
      BY <3>1 DEF Owned
    <3>3. p # None
      BY WarmAssumption DEF Procs
    <3>4. CASE r = th[t].rt
      BY <1>0, <3>1, <3>2, <3>3, <3>4 DEF Noted
    <3>5. CASE r # th[t].rt
      BY <2>4, <3>2, <3>5 DEF Clears, OthersStay
    <3> QED BY <3>4, <3>5
  <2>5. ASSUME SameProcs, Live(p) PROVE \E r \in Threads : rt'[r].proc = p
    BY <2>5 DEF SameProcs, Owned
  <2>6. CASE \/ FindsUnusable(t) \/ Evicts(t) \/ CallFails(t) \/ EntersAgain(t) \/ Pools(t)
             \/ Forgets(t) \/ Raises(t)
    BY <1>1, <2>5, <2>6 DEF FindsUnusable, Evicts, CallFails, EntersAgain, EntersStop, Pools,
                            Forgets, Raises, Live
  <2>7. CASE HandsOut(t) \/ FindsNone(t) \/ FindsNothingToStop(t)
    BY <1>1, <2>5, <2>7 DEF HandsOut, FindsNone, FindsNothingToStop, SameProcs, Live
  <2>8. CASE Kills(t) \/ Uses(t)
    BY <1>1, <2>5, <2>8 DEF Kills, Uses, SameProcs, SameLiving
  <2> QED BY <2>2, <2>3, <2>4, <2>6, <2>7, <2>8 DEF Serves
<1> QED BY <1>1 DEF Owned, Live

LEMMA HeldServe ==
    ASSUME Placed, AllStopAlone, AllServing, AllNoted, Held,
           NEW t \in Threads, KindsStay, Serves(t)
    PROVE  Held'
<1>0. Alone(t) /\ Noted(t) /\ Serving(t)
  BY ServesAlone DEF AllNoted, AllServing
<1>1. ASSUME NEW r \in Threads, rt'[r].proc # None
      PROVE  \/ \E m \in Models : pool'[m] = r
             \/ \E u \in Threads : th'[u].rt = r /\ th'[u].pc \in {"boot", "kill", "clear"}
  \* A runtime that had no process has just been started.
  <2>1. CASE rt[r].proc = None
    <3>1. CASE Creates(t) /\ r = t
      BY <3>1 DEF Creates
    <3>2. CASE Restarts(t) /\ r = th[t].rt
      <4>1. IsPooled(r)
        BY <1>0, <3>2 DEF Restarts, Serving
      <4> QED BY <3>2, <4>1 DEF Restarts, IsPooled
    <3> QED BY <1>1, <2>1, <3>1, <3>2, NoProcessStays DEF Placed
  \* One that is forgotten has none left.
  <2>2. CASE rt[r].proc # None /\ IsPooled(r)
    <3>1. CASE Forgets(t) /\ r = th[t].rt
      BY <1>0, <2>2, <3>1 DEF Forgets, Returns, Noted
    <3> QED BY <2>2, <3>1, PooledStays DEF IsPooled
  <2>3. CASE rt[r].proc # None /\ \E u \in Threads : AtWorkOn(u, r)
    <3>1. PICK u \in Threads : AtWorkOn(u, r)
      BY <2>3
    <3>2. CASE u # t
      BY <1>0, <3>1, <3>2 DEF Alone, AtWorkOn
    <3>3. CASE u = t
      <4>1. th[t].rt = r /\ th[t].pc \in {"boot", "kill", "clear"}
        BY <3>1, <3>3 DEF AtWorkOn
      <4>2. CASE Pools(t)
        <5>1. th[t].model \in Models /\ r = t
          BY <4>1, <4>2 DEF Pools, Goes, Placed, Shape, CallRecords, Managed, Manager
        <5> QED BY <4>2, <5>1 DEF Pools, Placed, Shape
      <4>3. CASE CallFails(t)
        BY <4>1, <4>3 DEF CallFails, EntersStop
      <4>4. CASE Kills(t)
        BY <4>1, <4>4 DEF Kills, Goes
      <4>5. CASE Clears(t)
        BY <1>0, <1>1, <4>1, <4>5 DEF Clears, Goes, Noted
      <4> QED BY <4>1, <4>2, <4>3, <4>4, <4>5
              DEF Serves, HandsOut, FindsUnusable, FindsNone, FindsNothingToStop, Evicts,
                  Creates, Forgets, Restarts, Raises, EntersAgain, Uses, Goes, Returns,
                  EntersStop, InCall
    <3> QED BY <3>2, <3>3
  <2> QED BY <2>1, <2>2, <2>3 DEF Held
<1> QED BY <1>1 DEF Held, IsPooled, AtWorkOn
----------------------------------------------------------------------------
Sound == AllStopAlone /\ AllServing /\ AllNoted /\ Owned /\ Held

PoolInv == Reasons /\ Managed /\ Within /\ AllPrivate /\ (~disturbed => Sound)

LEMMA PoolInvInit == Init => PoolInv
<1> SUFFICES ASSUME Init PROVE PoolInv
  OBVIOUS
<1>1. PICK w \in Workloads : th = [t \in Threads |-> NewThread(w[t])]
  BY DEF Init
<1>2. \A t \in Threads : th[t].pc = "want" /\ th[t].then = None
  BY <1>1 DEF NewThread
<1>3. AllStopAlone /\ AllServing /\ AllNoted
  BY <1>2, WarmAssumption
     DEF AllStopAlone, StopsAlone, AllServing, Serving, AllNoted, Noted, Stops, InCall
<1>4. Owned /\ Held
  BY DEF Init, NoProcess, NoRuntime, Owned, Held, Live
<1> QED BY <1>3, <1>4, ReasonsInit, ManagedInit, WithinInit, PrivateInit DEF PoolInv, Sound

LEMMA PoolInvServe ==
    ASSUME Inv, PoolInv, NEW t \in Threads, Serve(t) PROVE PoolInv'
<1>1. Placed /\ Within /\ OneProcessEach /\ KindsStay /\ Serves(t)
  BY ServeSteps DEF Inv, PoolInv, Placed
<1>2. Reasons' /\ Managed' /\ Within' /\ AllPrivate'
  BY <1>1, ReasonsServe, ManagedServe, WithinServe, PrivateServe DEF Placed
<1>3. ASSUME ~disturbed' PROVE Sound'
  <2>1. ~disturbed
    BY <1>1, <1>3, CalmBefore
  <2>2. AllStopAlone /\ AllServing /\ AllNoted /\ Owned /\ Held
    BY <2>1 DEF PoolInv, Sound
  <2>3. AllStopAlone' /\ AllServing'
    BY <1>1, <1>3, <2>2, StopsAloneServe, ServingServe
  <2>4. AllNoted'
    BY <1>1, <1>3, <2>2, NotedServe
  <2>5. Owned' /\ Held'
    BY <1>1, <2>2, OwnedServe, HeldServe
  <2> QED BY <2>3, <2>4, <2>5 DEF Sound
<1> QED BY <1>2, <1>3 DEF PoolInv

\* Processes that compute or die, and steps of the environment
LEMMA PoolInvStays ==
    ASSUME PoolInv, UNCHANGED <<th, rt, pool, mlock, disturbed>>,
           \A p \in Procs : Live(p)' => Live(p), Shape
    PROVE  PoolInv'
<1>1. Reasons' /\ Managed' /\ AllPrivate'
  BY DEF PoolInv, Reasons, Reason, Managed, Manager, Manages, AllPrivate, Private, Uncreated
<1>2. Within'
  BY DEF PoolInv, Within, Pooled
<1>3. ASSUME ~disturbed' PROVE Sound'
  <2>1. Sound
    BY <1>3 DEF PoolInv
  <2>2. AllStopAlone' /\ AllServing' /\ Held'
    BY <2>1 DEF Sound, AllStopAlone, StopsAlone, CallOn, AllServing, Serving, Held, IsPooled,
                AtWorkOn
  <2>3. \A t \in Threads : th[t].mine # None => (Live(th[t].mine)' => Live(th[t].mine))
    BY DEF Shape, CallRecords, Live
  <2>4. AllNoted' /\ Owned'
    BY <2>1, <2>3 DEF Sound, AllNoted, Noted, Owned, Live
  <2> QED BY <2>2, <2>4 DEF Sound
<1> QED BY <1>1, <1>2, <1>3 DEF PoolInv

LEMMA PoolInvNext == Inv /\ PoolInv /\ [Next]_vars => PoolInv'
<1> SUFFICES ASSUME Inv, PoolInv, [Next]_vars PROVE PoolInv'
  OBVIOUS
<1>1. Shape
  BY DEF Inv
<1>2. ASSUME NEW p \in Procs, Compute(p) \/ Die(p) PROVE PoolInv'
  BY <1>1, <1>2, ProcessesOnly, PoolInvStays
<1>3. CASE UNCHANGED vars
  BY <1>1, <1>3, PoolInvStays DEF vars, Live
<1> QED BY <1>2, <1>3, PoolInvServe DEF Next

LEMMA PoolInvIsSound == Inv /\ PoolInv => PoolIsSound
<1> SUFFICES ASSUME Inv, PoolInv PROVE PoolIsSound
  OBVIOUS
<1>1. Cardinality(Pooled) <= MaxModels
  BY DEF PoolInv, Within
<1>2. ASSUME ~disturbed, \A t \in Threads : Ended(t) \/ At(t, "want"),
             NEW p \in Procs, Alive(p)
      PROVE  \E m \in Pooled : rt[pool[m]].proc = p
  <2>1. p # None /\ Owned /\ Held
    BY <1>2 DEF PoolInv, Sound, Alive
  <2>2. PICK r \in Threads : rt[r].proc = p
    BY <1>2, <2>1 DEF Owned, Alive, Live
  <2>3. \A u \in Threads : ~AtWorkOn(u, r)
    BY <1>2 DEF Ended, At, AtWorkOn
  <2>4. PICK m \in Models : pool[m] = r
    BY <2>1, <2>2, <2>3 DEF Held, IsPooled
  <2>5. m \in Pooled
    BY <2>4, WarmAssumption DEF Pooled
  <2> QED BY <2>2, <2>4, <2>5
<1> QED BY <1>1, <1>2 DEF PoolIsSound

\* The pool never outgrows its capacity, and unless somebody stopped a runtime
\* under a call, no process outlives the calls but those of the pool: whatever is
\* evicted, restarted, torn down or fails to start is killed and forgotten.
THEOREM PoolCorrect == Spec => []PoolIsSound
<1>1. Inv /\ PoolInv /\ [Next]_vars => (Inv /\ PoolInv)'
  BY InvNext, PoolInvNext
<1> QED BY <1>1, InvInit, PoolInvInit, PoolInvIsSound, PTL DEF Spec
----------------------------------------------------------------------------
(* The locks. A thread takes one only when it has none, and the manager's      *)
(* never together with a runtime's.                                            *)

\* t works on runtime r under its lock, or stops it there.
UsesLock(t) ==
    \A r \in Threads : rt[r].lock = t =>
      /\ th[t].rt = r
      /\ \/ th[t].pc \in {"boot_again", "write", "read"}
         \/ th[t].pc \in Stops /\ th[t].then \in {"restart", "raise"}

\* t makes or stops a runtime under the manager's lock.
UsesManager(t) ==
    mlock = t =>
      \/ th[t].pc \in {"evict", "boot"}
      \/ th[t].pc \in Stops /\ th[t].then \in {"forget", "raise"}

Careful == \A t \in Threads : UsesLock(t) /\ UsesManager(t)

LEMMA CarefulStays ==
    ASSUME Careful, NEW t \in Threads, Alone(t),
           \A r \in Threads : rt'[r].lock \in {rt[r].lock, None, t},
           mlock' \in {mlock, None, t}, UsesLock(t)', UsesManager(t)'
    PROVE  Careful'
<1>1. ASSUME NEW u \in Threads \ {t} PROVE UsesLock(u)' /\ UsesManager(u)'
  <2>1. th'[u] = th[u] /\ UsesLock(u) /\ UsesManager(u) /\ u # None /\ u # t
    BY WarmAssumption DEF Alone, Careful
  <2>2. UsesLock(u)'
    BY <2>1 DEF UsesLock
  <2>3. UsesManager(u)'
    BY <2>1 DEF UsesManager
  <2> QED BY <2>2, <2>3
<1> QED BY <1>1 DEF Careful

\* A step that changes no runtime's lock
LEMMA CarefulByManager ==
    ASSUME Careful, NEW t \in Threads, Alone(t), SameLocks,
           mlock' \in {mlock, None, t}, UsesManager(t)',
           \/ \A r \in Threads : rt[r].lock # t
           \/ /\ th'[t].rt = th[t].rt
              /\ \/ th'[t].pc \in {"boot_again", "write", "read"}
                 \/ th'[t].pc \in Stops /\ th'[t].then \in {"restart", "raise"}
    PROVE  Careful'
<1>1. UsesLock(t)'
  BY DEF Careful, UsesLock, SameLocks
<1> QED BY <1>1, CarefulStays DEF SameLocks

LEMMA CarefulInit == Init => Careful
BY WarmAssumption DEF Init, NoRuntime, Careful, UsesLock, UsesManager

LEMMA ManageCareful ==
    ASSUME Shape, Careful, NEW t \in Threads, Manage(t)
    PROVE  Careful'
<1>0. UsesLock(t) /\ UsesManager(t) /\ t # None
  BY WarmAssumption DEF Careful
<1>1. CASE Lookup(t)
  <2>1. \A r \in Threads : rt[r].lock # t
    BY <1>0, <1>1, LookupDoes DEF UsesLock, Stops
  <2>2. mlock' \in {mlock, None, t} /\ UsesManager(t)'
    <3>1. CASE mlock' = mlock /\ mlock = None
      BY <1>0, <3>1 DEF UsesManager
    <3>2. CASE mlock' = t /\ th'[t].pc = "evict"
      BY <3>2 DEF UsesManager
    <3>3. CASE mlock' = t /\ StopThen(t, pool[th[t].model], "forget")
                /\ pool[th[t].model] # None
      <4>1. pool[th[t].model] \in Threads
        BY <3>3 DEF Shape, CallRecords
      <4> QED BY <3>3, <4>1, StopThenDoes DEF UsesManager, Stops
    <3> QED BY <1>1, <3>1, <3>2, <3>3, GotoDoes DEF Lookup
  <2> QED BY <1>1, <2>1, <2>2, LookupDoes, CarefulByManager
<1>2. CASE Evict(t)
  <2>1. \A r \in Threads : rt[r].lock # t
    BY <1>0, <1>2, EvictDoes DEF UsesLock, Stops
  <2>2. mlock' = mlock /\ UsesManager(t)'
    BY <1>2, EvictDoes DEF Evict, UsesManager, Stops
  <2> QED BY <1>2, <2>1, <2>2, EvictDoes, CarefulByManager
<1>3. CASE Create(t)
  <2>1. \A r \in Threads : rt[r].lock # t
    BY <1>0, <1>3, CreateDoes DEF UsesLock, Stops
  <2>2. mlock' = mlock /\ UsesManager(t)'
    BY <1>3, CreateDoes DEF Create, UsesManager
  <2>3. SameLocks
    BY <1>3, CreateDoes, SpawnDoes, ProcsAreProcs
  <2> QED BY <1>3, <2>1, <2>2, <2>3, CreateDoes, CarefulByManager
<1>4. CASE Boot(t)
  <2>1. \A r \in Threads : rt[r].lock # t
    BY <1>0, <1>4, BootDoes DEF UsesLock, Stops
  <2>2. mlock' = None /\ UsesManager(t)'
    BY <1>0, <1>4 DEF Boot, UsesManager
  <2> QED BY <1>4, <2>1, <2>2, BootDoes, CarefulByManager
<1>5. CASE BootFails(t)
  <2>1. mlock' = mlock /\ UsesManager(t)'
    BY <1>5, FailuresDo DEF BootFails, UsesManager, Stops
  <2> QED BY <1>5, <2>1, FailuresDo, CarefulByManager DEF Stops
<1> QED BY <1>1, <1>2, <1>3, <1>4, <1>5 DEF Manage

LEMMA StoppingCareful ==
    ASSUME Shape, Careful, NEW t \in Threads, Stopping(t)
    PROVE  Careful'
<1>0. UsesLock(t) /\ UsesManager(t) /\ t # None
  BY WarmAssumption DEF Careful
<1>1. CASE StopKill(t)
  <2>1. mlock' = mlock /\ UsesManager(t)'
    BY <1>0, <1>1, StopKillDoes DEF StopKill, UsesManager, Stops
  <2>2. Alone(t) /\ SameLocks /\ UsesLock(t)'
    BY <1>0, <1>1, StopKillDoes DEF UsesLock, Stops, SameLocks
  <2> QED BY <2>1, <2>2, CarefulStays DEF SameLocks
<1>2. CASE StopClear(t)
  <2>1. mlock' = mlock /\ UsesManager(t)'
    BY <1>0, <1>2, StopClearDoes DEF StopClear, UsesManager, Stops
  <2>2. Alone(t) /\ SameLocks /\ UsesLock(t)'
    BY <1>0, <1>2, StopClearDoes DEF UsesLock, Stops, SameLocks
  <2> QED BY <2>1, <2>2, CarefulStays DEF SameLocks
<1>3. CASE StopForgets(t)
  <2>1. \A r \in Threads : rt[r].lock # t
    BY <1>0, <1>3, StopForgetsDoes, WarmAssumption DEF UsesLock, Stops
  <2>2. mlock' \in {None, t} /\ UsesManager(t)'
    <3>1. CASE mlock' = None
      BY <1>0, <3>1 DEF UsesManager
    <3>2. CASE mlock' = t /\ Return(t, "evict")
      BY <3>2, ReturnDoes DEF UsesManager
    <3> QED BY <1>3, <3>1, <3>2 DEF StopForgets
  <2> QED BY <1>3, <2>1, <2>2, StopForgetsDoes, CarefulByManager
<1>4. CASE StopRestarts(t)
  <2>1. mlock # t
    BY <1>0, <1>4, StopRestartsDoes DEF UsesManager, Stops
  <2>2. mlock' = mlock /\ UsesManager(t)'
    BY <1>4, <2>1 DEF StopRestarts, UsesManager
  <2>3. SameLocks
    BY <1>4, StopRestartsDoes, SpawnDoes, ProcsAreProcs
  <2> QED BY <1>4, <2>2, <2>3, StopRestartsDoes, CarefulByManager
<1>5. CASE StopRaises(t)
  <2>1. mlock' \in {mlock, None} /\ mlock' # t
    BY <1>0, <1>5 DEF StopRaises
  <2>2. \A r \in Threads : rt'[r].lock = IF rt[r].lock = t THEN None ELSE rt[r].lock
    BY <1>5 DEF StopRaises, Shape, RtRecords
  <2>3. UsesLock(t)' /\ UsesManager(t)'
    BY <1>0, <2>1, <2>2 DEF UsesLock, UsesManager
  <2> QED BY <1>5, <2>1, <2>2, <2>3, StopRaisesDoes, CarefulStays
<1> QED BY <1>1, <1>2, <1>3, <1>4, <1>5 DEF Stopping

LEMMA PredictCareful ==
    ASSUME Shape, Careful, NEW t \in Threads, Predict(t)
    PROVE  Careful'
<1>0. UsesLock(t) /\ UsesManager(t) /\ t # None
  BY WarmAssumption DEF Careful
<1>1. mlock' = mlock
  BY DEF Predict, Enter, EnterStopped, BootAgain, Write, WriteFails, Read, ReadFails, Exception
<1>2. CASE Enter(t) \/ EnterStopped(t)
  <2>1. \A r \in Threads : rt[r].lock # t
    BY <1>0, <1>2, EnterDoes, EnterStoppedDoes DEF UsesLock, Stops
  <2>2. UsesManager(t)'
    BY <1>0, <1>1, <1>2, EnterDoes, EnterStoppedDoes DEF UsesManager, Stops
  <2>3. CASE SameLocks
    BY <1>1, <1>2, <2>1, <2>2, <2>3, EnterDoes, EnterStoppedDoes, CarefulByManager
  <2>4. CASE /\ th'[t].pc = "write" \/ (th'[t].pc = "kill" /\ th'[t].then = "restart")
             /\ \A r \in Threads \ {th[t].rt} : rt'[r].lock = rt[r].lock
             /\ rt'[th[t].rt].lock = t /\ th'[t].rt = th[t].rt /\ Alone(t)
    <3>1. UsesLock(t)'
      BY <2>1, <2>4 DEF UsesLock, Stops
    <3> QED BY <1>1, <2>2, <2>4, <3>1, CarefulStays
  <2> QED BY <1>2, <2>3, <2>4, EnterDoes, EnterStoppedDoes
<1>3. CASE BootAgain(t) \/ Write(t)
  <2>1. SameLocks /\ Alone(t) /\ th'[t].rt = th[t].rt /\ th'[t].pc \in {"write", "read"}
    BY <1>3, BootAgainDoes, WriteDoes DEF SameLocks
  <2>2. UsesManager(t)'
    BY <1>0, <1>1, <1>3, BootAgainDoes, WriteDoes DEF UsesManager, Stops
  <2> QED BY <1>1, <2>1, <2>2, CarefulByManager
<1>4. CASE WriteFails(t) \/ ReadFails(t)
  <2>1. UsesManager(t)'
    BY <1>1, <1>4, FailuresDo DEF UsesManager, Stops
  <2> QED BY <1>1, <1>4, <2>1, FailuresDo, CarefulByManager DEF Stops
<1>5. CASE Read(t)
  <2>1. mlock # t
    BY <1>0, <1>5, ReadDoes DEF UsesManager, Stops
  <2>2. UsesLock(t)' /\ UsesManager(t)'
    BY <1>0, <1>1, <1>5, <2>1, ReadDoes DEF UsesLock, UsesManager
  <2>3. \A r \in Threads : rt'[r].lock \in {rt[r].lock, None}
    BY <1>5, ReadDoes
  <2> QED BY <1>1, <1>5, <2>2, <2>3, ReadDoes, CarefulStays
<1> QED BY <1>2, <1>3, <1>4, <1>5 DEF Predict

LEMMA CarefulNext == Shape /\ Careful /\ [Next]_vars => Careful'
<1> SUFFICES ASSUME Shape, Careful, [Next]_vars PROVE Careful'
  OBVIOUS
<1>1. ASSUME UNCHANGED <<rt, th, mlock>> PROVE Careful'
  BY <1>1 DEF Careful, UsesLock, UsesManager
<1>2. ASSUME NEW p \in Procs, Compute(p) \/ Die(p) PROVE Careful'
  BY <1>1, <1>2 DEF Compute, Die
<1>3. CASE UNCHANGED vars
  BY <1>1, <1>3 DEF vars
<1> QED BY <1>2, <1>3, ManageCareful, StoppingCareful, PredictCareful DEF Next, Serve

\* No circle of threads waits for one another: whoever holds the manager's lock or
\* a runtime's waits for neither, and gives it back before its call ends, whatever
\* fails on the way.
THEOREM LocksAreTakenOneAtATime == Spec => []LockHoldersGoOn
<1>1. Shape /\ Careful => LockHoldersGoOn
  BY DEF Careful, UsesLock, UsesManager, LockHoldersGoOn, Holds, Ended, At, Stops
<1> QED BY <1>1, ShapeInit, ShapeNext, CarefulInit, CarefulNext, PTL DEF Spec
=============================================================================
