---------------------------- MODULE RunnerProofs ----------------------------
(* Proofs about Runner: for any number of requests, files and slots, slots are *)
(* neither lost nor freed twice, what is published is one finished download,   *)
(* builds do not disturb each other, and requests only go forward.             *)
EXTENDS Runner, FiniteSetTheorems, TLAPS

Requests == [kind : Kinds \cup {None}, pc : Steps, partial : SUBSET Names,
             todo : SUBSET (Names \cup Parts), torn : BOOLEAN]

Dirs == [present : BOOLEAN, made : [Names -> Downloads \cup {None}]]

\* TypeOK, but for the upper bounds of the semaphores
Shape ==
    /\ dir \in Dirs /\ listed \in [Downloads -> SUBSET Files]
    /\ stale \subseteq Downloads /\ env \subseteq Parts
    /\ builds \in Nat /\ preds \in Nat
    /\ req \in [Reqs -> Requests]
    /\ crashes \in 0..MaxCrashes /\ overlap \in BOOLEAN

LEMMA ShapeInit == Init => Shape
<1> SUFFICES ASSUME Init PROVE Shape
  OBVIOUS
<1>1. dir \in Dirs
  <2>1. Empty \in [Names -> Downloads \cup {None}]
    BY DEF Empty
  <2>2. [n \in Names |-> Old] \in [Names -> Downloads \cup {None}]
    BY DEF Downloads
  <2>3. \A b \in BOOLEAN, f \in [Names -> Downloads \cup {None}] :
          [present |-> b, made |-> f] \in Dirs
    BY DEF Dirs
  <2> QED BY <2>1, <2>2, <2>3, Zenon DEF Init
<1>5. /\ stale \subseteq Downloads /\ env \subseteq Parts
      /\ listed \in [Downloads -> SUBSET Files]
  BY DEF Init, Downloads
<1>2. NoRequest \in Requests
  BY DEF NoRequest, Requests, Steps
<1>3. /\ builds \in Nat /\ preds \in Nat /\ req \in [Reqs -> Requests]
      /\ crashes \in 0..MaxCrashes
  BY <1>2, RunnerAssumption DEF Init
<1>4. overlap \in BOOLEAN
  BY Zenon DEF Init
<1> QED BY <1>1, <1>3, <1>4, <1>5 DEF Shape

LEMMA ArriveShape ==
    ASSUME Shape, NEW r \in Reqs, NEW k \in Kinds, Arrive(r, k) PROVE Shape'
BY DEF Arrive, NoFiles, Keep, Shape, Requests, Steps

LEMMA ReleaseShape ==
    ASSUME Shape, NEW r \in Reqs, Release(r) PROVE builds' \in Nat /\ preds' \in Nat
BY DEF Release, Shape

LEMMA GotoShape ==
    ASSUME Shape, NEW r \in Reqs, NEW pc \in Steps, Goto(r, pc)
    PROVE  req' \in [Reqs -> Requests]
BY DEF Goto, Shape, Requests

LEMMA StepNames ==
    {"new", "start", "tear", "check", "manifest", "venv", "pip", "validate", "run",
     "fetch", "exists", "list", "unlink", "replace", "ok", "failed", "busy", "crashed"}
      \subseteq Steps
BY DEF Steps, Holding, Replacing, Ended

LEMMA DownloadFailsShape ==
    ASSUME Shape, NEW r \in Reqs, DownloadFails(r)
    PROVE  req' \in [Reqs -> Requests] /\ builds' \in Nat /\ preds' \in Nat
<1>1. PICK kept \in SUBSET req[r].partial :
        req' = [req EXCEPT ![r].partial = kept, ![r].todo = {}, ![r].pc = "failed"]
  BY DEF DownloadFails
<1>2. kept \in SUBSET Names
  BY DEF Shape, Requests
<1>3. req' \in [Reqs -> Requests]
  BY <1>1, <1>2, ZenonT(60), StepNames DEF Shape, Requests
<1> QED BY <1>3, ReleaseShape DEF DownloadFails

LEMMA AdmissionShape ==
    ASSUME Shape, NEW r \in Reqs, Acquire(r) \/ Busy(r) PROVE Shape'
<1>1. builds' \in Nat /\ preds' \in Nat
  BY DEF Acquire, Busy, Shape
<1>2. req' \in [Reqs -> Requests]
  BY GotoShape, StepNames DEF Acquire, Busy
<1> QED BY <1>1, <1>2 DEF Acquire, Busy, NoFiles, Keep, Shape

LEMMA CheckMarkShape ==
    ASSUME Shape, NEW r \in Reqs, CheckMark(r) PROVE Shape'
<1>1. req' \in [Reqs -> Requests]
  BY GotoShape, StepNames DEF CheckMark
<1>2. overlap' \in BOOLEAN
  BY Zenon DEF CheckMark, Shape
<1>3. listed' \in [Downloads -> SUBSET Files]
  BY DEF CheckMark, Shape
<1> QED BY <1>1, <1>2, <1>3 DEF CheckMark, Shape

LEMMA DownloadShape ==
    ASSUME Shape, NEW r \in Reqs,
           \/ Fetch(r) \/ StorageFails(r) \/ MarkComplete(r) \/ LookForOld(r)
           \/ ListOld(r) \/ UnlinkOld(r) \/ RemoveOld(r) \/ MoveIn(r)
    PROVE  Shape'
<1>1. CASE Fetch(r) \/ MarkComplete(r)
  <2>1. listed[r] \subseteq Files /\ Files \cup {Mark} = Names
    BY DEF Shape, Downloads, Names
  <2> QED BY <1>1, <2>1, StepNames DEF Fetch, MarkComplete, NoFiles, Keep, Shape, Requests
<1>2. CASE StorageFails(r)
  BY <1>2, DownloadFailsShape DEF StorageFails, NoFiles, Keep, Shape
<1>3. CASE LookForOld(r)
  BY <1>3, GotoShape, StepNames DEF LookForOld, NoFiles, Keep, Shape
<1>4. CASE ListOld(r)
  <2>1. req' \in [Reqs -> Requests] /\ builds' \in Nat /\ preds' \in Nat
    BY <1>4, DownloadFailsShape, GotoShape, StepNames DEF ListOld, Shape, Requests
  <2> QED BY <1>4, <2>1 DEF ListOld, NoFiles, Keep, Shape
<1>5. CASE UnlinkOld(r)
  <2>1. PICK n \in req[r].todo :
          /\ dir' \in {dir, [dir EXCEPT !.made[n] = None]}
          /\ req' = [req EXCEPT ![r].todo = @ \ {n}]
    BY <1>5 DEF UnlinkOld
  <2>2. dir' \in Dirs
    BY <2>1 DEF Shape, Dirs
  <2>3. req' \in [Reqs -> Requests]
    BY <2>1 DEF Shape, Requests
  <2> QED BY <1>5, <2>2, <2>3 DEF UnlinkOld, Keep, Shape
<1>6. CASE RemoveOld(r)
  <2>1. dir' \in Dirs
    BY <1>6 DEF RemoveOld, Shape, Dirs
  <2> QED BY <1>6, <2>1, GotoShape, StepNames DEF RemoveOld, Keep, Shape
<1>7. CASE MoveIn(r)
  <2>1. dir' \in Dirs
    <3>1. [n \in Names |-> IF n \in req[r].partial THEN r ELSE None]
            \in [Names -> Downloads \cup {None}]
      BY DEF Downloads
    <3>2. \A f \in [Names -> Downloads \cup {None}] : [present |-> TRUE, made |-> f] \in Dirs
      BY DEF Dirs
    <3>3. dir \in Dirs
      BY DEF Shape
    <3> QED BY <1>7, <3>1, <3>2, <3>3, Zenon DEF MoveIn
  <2>2. req' \in [Reqs -> Requests] /\ builds' \in Nat /\ preds' \in Nat
    BY <1>7, DownloadFailsShape, StepNames DEF MoveIn, Shape, Requests
  <2> QED BY <1>7, <2>1, <2>2 DEF MoveIn, Keep, Shape
<1> QED BY <1>1, <1>2, <1>3, <1>4, <1>5, <1>6, <1>7

LEMMA BuildShape ==
    ASSUME Shape, NEW r \in Reqs,
           \/ ReadManifest(r) \/ CreateVenv(r) \/ InstallRequirements(r)
           \/ Validate(r) \/ RunBridge(r)
    PROVE  Shape'
<1>1. ASSUME NEW pc \in Steps, Finish(r, pc)
      PROVE  req' \in [Reqs -> Requests] /\ builds' \in Nat /\ preds' \in Nat
  BY <1>1, GotoShape, ReleaseShape DEF Finish
<1>2. CASE ReadManifest(r)
  <2>1. req' \in [Reqs -> Requests] /\ builds' \in Nat /\ preds' \in Nat
    BY <1>1, <1>2, GotoShape, StepNames DEF ReadManifest, Shape
  <2> QED BY <1>2, <2>1 DEF ReadManifest, NoFiles, Keep, Shape
<1>3. CASE CreateVenv(r)
  <2>1. req' \in [Reqs -> Requests] /\ builds' \in Nat /\ preds' \in Nat
    <3>1. CASE \E pc \in Steps : Finish(r, pc)
      BY <1>1, <3>1
    <3>2. CASE /\ UNCHANGED <<builds, preds>>
               /\ req' = [req EXCEPT ![r].pc = "pip",
                                     ![r].torn = \E q \in Reqs : At(q, "tear")]
      <4>1. PICK torn \in BOOLEAN : req' = [req EXCEPT ![r].pc = "pip", ![r].torn = torn]
        <5>1. (\E q \in Reqs : At(q, "tear")) \in BOOLEAN
          OBVIOUS
        <5> QED BY <3>2, <5>1, Zenon
      <4>2. [req[r] EXCEPT !.pc = "pip", !.torn = torn] \in Requests
        <5>1. [req[r] EXCEPT !.pc = "pip"] \in Requests
          BY StepNames DEF Shape, Requests
        <5> QED BY <5>1 DEF Requests
      <4> QED BY <3>2, <4>1, <4>2 DEF Shape
    <3> QED BY <1>3, <3>1, <3>2, StepNames, Zenon DEF CreateVenv
  <2>2. env' \subseteq Parts
    BY <1>3 DEF CreateVenv, Shape, Parts
  <2> QED BY <1>3, <2>1, <2>2 DEF CreateVenv, NoFiles, Keep, Shape
<1>4. CASE InstallRequirements(r)
  <2>1. req' \in [Reqs -> Requests] /\ builds' \in Nat /\ preds' \in Nat
    BY <1>1, <1>4, GotoShape, StepNames DEF InstallRequirements, Shape
  <2> QED BY <1>4, <2>1 DEF InstallRequirements, NoFiles, Keep, Shape, Parts
<1>5. CASE Validate(r) \/ RunBridge(r)
  <2>1. req' \in [Reqs -> Requests] /\ builds' \in Nat /\ preds' \in Nat
    BY <1>1, <1>5, StepNames DEF Validate, RunBridge
  <2> QED BY <1>5, <2>1 DEF Validate, RunBridge, NoFiles, Keep, Shape
<1> QED BY <1>2, <1>3, <1>4, <1>5

LEMMA TeardownShape ==
    ASSUME Shape, NEW r \in Reqs, BeginTeardown(r) \/ RemovePart(r) \/ EndTeardown(r)
    PROVE  Shape'
<1>1. CASE BeginTeardown(r)
  <2>1. req' \in [Reqs -> Requests]
    BY <1>1, StepNames DEF BeginTeardown, Shape, Requests
  <2> QED BY <1>1, <2>1 DEF BeginTeardown, NoFiles, Keep, Shape
<1>2. CASE RemovePart(r)
  BY <1>2 DEF RemovePart, NoFiles, Keep, Shape, Requests
<1>3. CASE EndTeardown(r)
  BY <1>3, GotoShape, StepNames DEF EndTeardown, NoFiles, Keep, Shape
<1> QED BY <1>1, <1>2, <1>3

LEMMA CrashShape == ASSUME Shape, Crash PROVE Shape'
<1>1. req' \in [Reqs -> Requests]
  BY StepNames DEF Crash, Shape, Requests
<1> QED BY <1>1, RunnerAssumption DEF Crash, NoFiles, Shape

LEMMA ShapeNext == Shape /\ [Next]_vars => Shape'
<1>1. ASSUME Shape, UNCHANGED vars PROVE Shape'
  BY <1>1 DEF vars, Shape
<1>2. ASSUME Shape, NEW d \in Downloads, MarkAges(d) PROVE Shape'
  BY <1>2 DEF MarkAges, Keep, Shape
<1>3. ASSUME Shape, NEW r \in Reqs, Serve(r) PROVE Shape'
  BY <1>3, AdmissionShape, CheckMarkShape, DownloadShape, BuildShape, TeardownShape
     DEF Serve, Download
<1> QED BY <1>1, <1>2, <1>3, ArriveShape, CrashShape DEF Next
----------------------------------------------------------------------------
(* Slots: a step of request r changes no other request's place, and frees or   *)
(* takes a slot exactly when r ends or begins to hold one.                     *)

Balance(was, is, free, then) ==
    \/ (was <=> is) /\ then = free
    \/ was /\ ~is /\ then = free + 1
    \/ ~was /\ is /\ then = free - 1

OthersStay(r) ==
    \A q \in Reqs \ {r} : req'[q].kind = req[q].kind /\ req'[q].pc = req[q].pc

Balanced(r) ==
    /\ OthersStay(r)
    /\ Balance(Building(r), Building(r)', builds, builds')
    /\ Balance(Predicting(r), Predicting(r)', preds, preds')

\* A request that goes on holding what it held
LEMMA StaysBalanced ==
    ASSUME Shape, NEW r \in Reqs, OthersStay(r), builds' = builds, preds' = preds,
           req'[r].kind = req[r].kind, req[r].pc \in Holding <=> req'[r].pc \in Holding
    PROVE  Balanced(r)
BY DEF Balanced, Balance, Building, Predicting

\* A request that ends and frees what it held
LEMMA ReleaseBalanced ==
    ASSUME Shape, NEW r \in Reqs, OthersStay(r), Release(r),
           req'[r].kind = req[r].kind, req'[r].pc \in Ended
    PROVE  Balanced(r)
<1>1. req'[r].pc \notin Holding
  BY DEF Ended, Holding, Replacing
<1> QED BY <1>1 DEF Balanced, Balance, Building, Predicting, Release

LEMMA GotoMoves ==
    ASSUME Shape, NEW r \in Reqs, NEW pc, Goto(r, pc)
    PROVE  OthersStay(r) /\ req'[r].kind = req[r].kind /\ req'[r].pc = pc
BY DEF Goto, OthersStay, Shape, Requests

LEMMA FinishBalanced ==
    ASSUME Shape, NEW r \in Reqs, NEW pc \in Ended, Finish(r, pc)
    PROVE  Balanced(r)
BY GotoMoves, ReleaseBalanced DEF Finish

LEMMA DownloadFailsBalanced ==
    ASSUME Shape, NEW r \in Reqs, DownloadFails(r)
    PROVE  Balanced(r)
<1>1. OthersStay(r) /\ req'[r].kind = req[r].kind /\ req'[r].pc = "failed"
  BY DEF DownloadFails, OthersStay, Shape, Requests
<1> QED BY <1>1, ReleaseBalanced DEF DownloadFails, Ended

LEMMA HoldingSteps ==
    /\ {"check", "manifest", "venv", "pip", "validate", "run",
        "fetch", "exists", "list", "unlink", "replace"} \subseteq Holding
    /\ Holding \cap {"new", "start", "tear", "ok", "failed", "busy", "crashed"} = {}
BY DEF Holding, Replacing

LEMMA ArriveBalanced ==
    ASSUME Shape, NEW r \in Reqs, NEW k \in Kinds, Arrive(r, k) PROVE Balanced(r)
<1>1. /\ OthersStay(r) /\ req[r].pc = "new" /\ req'[r].pc = "start"
      /\ builds' = builds /\ preds' = preds
  BY DEF Arrive, At, OthersStay, Shape, Requests
<1> QED BY <1>1, HoldingSteps DEF Balanced, Balance, Building, Predicting

LEMMA AcquireBalanced ==
    ASSUME Shape, NEW r \in Reqs, Acquire(r) PROVE Balanced(r)
<1>1. OthersStay(r) /\ req'[r].kind = req[r].kind /\ req'[r].pc = "check" /\ req[r].pc = "start"
  BY GotoMoves DEF Acquire, At
<1> QED BY <1>1, HoldingSteps DEF Acquire, Balanced, Balance, Building, Predicting

LEMMA GotoBalanced ==
    ASSUME Shape, NEW r \in Reqs, NEW pc, Goto(r, pc), UNCHANGED <<builds, preds>>,
           req[r].pc \in Holding <=> pc \in Holding
    PROVE  Balanced(r)
BY GotoMoves, StaysBalanced

LEMMA WaitBalanced ==
    ASSUME Shape, NEW r \in Reqs, Busy(r) \/ CheckMark(r) \/ LookForOld(r) \/ RemoveOld(r)
                                    \/ EndTeardown(r)
    PROVE  Balanced(r)
BY GotoBalanced, HoldingSteps DEF Busy, CheckMark, LookForOld, RemoveOld, EndTeardown, At

LEMMA DownloadBalanced ==
    ASSUME Shape, NEW r \in Reqs,
           Fetch(r) \/ StorageFails(r) \/ MarkComplete(r) \/ ListOld(r) \/ UnlinkOld(r) \/ MoveIn(r)
    PROVE  Balanced(r)
<1>1. CASE Fetch(r) \/ MarkComplete(r) \/ UnlinkOld(r)
  <2>1. /\ OthersStay(r) /\ builds' = builds /\ preds' = preds
        /\ req'[r].kind = req[r].kind
        /\ req[r].pc \in {"fetch", "unlink"} /\ req'[r].pc \in {"fetch", "exists", "unlink"}
    BY <1>1 DEF Fetch, MarkComplete, UnlinkOld, At, OthersStay, Shape, Requests
  <2> QED BY <2>1, HoldingSteps, StaysBalanced
<1>2. CASE StorageFails(r)
  BY <1>2, DownloadFailsBalanced DEF StorageFails
<1>3. CASE ListOld(r) \/ MoveIn(r)
  <2>1. CASE DownloadFails(r)
    BY <2>1, DownloadFailsBalanced
  <2>2. CASE ~DownloadFails(r)
    <3>1. /\ OthersStay(r) /\ builds' = builds /\ preds' = preds
          /\ req'[r].kind = req[r].kind
          /\ req[r].pc \in {"list", "replace"} /\ req'[r].pc \in {"unlink", "replace", "manifest"}
      BY <1>3, <2>2, GotoMoves DEF ListOld, MoveIn, At, OthersStay, Shape, Requests
    <3> QED BY <3>1, HoldingSteps, StaysBalanced
  <2> QED BY <2>1, <2>2
<1> QED BY <1>1, <1>2, <1>3

LEMMA BuildBalanced ==
    ASSUME Shape, NEW r \in Reqs,
           \/ ReadManifest(r) \/ CreateVenv(r) \/ InstallRequirements(r)
           \/ Validate(r) \/ RunBridge(r)
    PROVE  Balanced(r)
<1>0. "ok" \in Ended /\ "failed" \in Ended
  BY DEF Ended
<1>1. CASE Validate(r) \/ RunBridge(r)
  BY <1>0, <1>1, FinishBalanced DEF Validate, RunBridge
<1>2. CASE ReadManifest(r) \/ InstallRequirements(r)
  BY <1>0, <1>2, FinishBalanced, GotoBalanced, HoldingSteps
     DEF ReadManifest, InstallRequirements, At
<1>3. CASE CreateVenv(r)
  <2>1. CASE Finish(r, "failed")
    BY <1>0, <2>1, FinishBalanced
  <2>2. CASE ~Finish(r, "failed")
    <3>1. /\ OthersStay(r) /\ builds' = builds /\ preds' = preds
          /\ req'[r].kind = req[r].kind
          /\ req[r].pc = "venv" /\ req'[r].pc = "pip"
      BY <1>3, <2>2 DEF CreateVenv, At, OthersStay, Shape, Requests
    <3> QED BY <3>1, HoldingSteps, StaysBalanced
  <2> QED BY <2>1, <2>2
<1> QED BY <1>1, <1>2, <1>3

LEMMA TeardownBalanced ==
    ASSUME Shape, NEW r \in Reqs, BeginTeardown(r) \/ RemovePart(r)
    PROVE  Balanced(r)
<1>1. /\ OthersStay(r) /\ builds' = builds /\ preds' = preds
      /\ req'[r].kind = req[r].kind
      /\ req[r].pc \in {"start", "tear"} /\ req'[r].pc = "tear"
  BY DEF BeginTeardown, RemovePart, At, OthersStay, Shape, Requests
<1> QED BY <1>1, HoldingSteps, StaysBalanced

LEMMA ServeBalanced == ASSUME Shape, NEW r \in Reqs, Serve(r) PROVE Balanced(r)
BY AcquireBalanced, WaitBalanced, DownloadBalanced, BuildBalanced, TeardownBalanced
   DEF Serve, Download
LEMMA Counting ==
    ASSUME NEW S, NEW T, NEW r, IsFiniteSet(S), IsFiniteSet(T), S \ {r} = T \ {r},
           NEW free \in Int, NEW then \in Int, Balance(r \in S, r \in T, free, then)
    PROVE  free + Cardinality(S) = then + Cardinality(T)
<1>0. Cardinality(S) \in Nat /\ Cardinality(T) \in Nat
  BY FS_CardinalityType
<1>1. CASE r \in S /\ r \in T
  <2>1. S = T
    BY <1>1
  <2> QED BY <1>1, <2>1 DEF Balance
<1>2. CASE r \notin S /\ r \notin T
  <2>1. S = T
    BY <1>2
  <2> QED BY <1>2, <2>1 DEF Balance
<1>3. CASE r \in S /\ r \notin T
  <2>1. S = T \cup {r}
    BY <1>3
  <2>2. Cardinality(S) = Cardinality(T) + 1
    BY <1>3, <2>1, FS_AddElement
  <2> QED BY <1>0, <1>3, <2>2 DEF Balance
<1>4. CASE r \notin S /\ r \in T
  <2>1. T = S \cup {r}
    BY <1>4
  <2>2. Cardinality(T) = Cardinality(S) + 1
    BY <1>4, <2>1, FS_AddElement
  <2> QED BY <1>0, <1>4, <2>2 DEF Balance
<1> QED BY <1>1, <1>2, <1>3, <1>4

Builders   == {r \in Reqs : Building(r)}
Predictors == {r \in Reqs : Predicting(r)}

LEMMA BalancedKeepsSlots ==
    ASSUME Shape, Shape', SlotsMatchHolders, NEW r \in Reqs, Balanced(r)
    PROVE  SlotsMatchHolders'
<1>1. Builders \subseteq Reqs /\ Builders' \subseteq Reqs
  BY DEF Builders
<1>2. Predictors \subseteq Reqs /\ Predictors' \subseteq Reqs
  BY DEF Predictors
<1>3. /\ IsFiniteSet(Builders) /\ IsFiniteSet(Builders')
      /\ IsFiniteSet(Predictors) /\ IsFiniteSet(Predictors')
  BY <1>1, <1>2, FS_Subset, RunnerAssumption
<1>4. /\ builds \in Int /\ builds' \in Int /\ preds \in Int /\ preds' \in Int
  BY DEF Shape
<1>5. Builders \ {r} = Builders' \ {r} /\ Predictors \ {r} = Predictors' \ {r}
  BY DEF Builders, Predictors, Balanced, OthersStay, Building, Predicting
<1>6. /\ Balance(r \in Builders, r \in Builders', builds, builds')
      /\ Balance(r \in Predictors, r \in Predictors', preds, preds')
  BY DEF Balanced, Balance, Builders, Predictors
<1>7. builds + Cardinality(Builders) = builds' + Cardinality(Builders')
  <2>1. PICK S, T : S = Builders /\ T = Builders'
    OBVIOUS
  <2>2. PICK free \in Int, then \in Int : free = builds /\ then = builds'
    BY <1>4
  <2>3. /\ IsFiniteSet(S) /\ IsFiniteSet(T) /\ S \ {r} = T \ {r}
        /\ Balance(r \in S, r \in T, free, then)
    BY <1>3, <1>5, <1>6, <2>1, <2>2 DEF Balance
  <2>4. free + Cardinality(S) = then + Cardinality(T)
    BY <2>3, Counting
  <2> QED BY <2>1, <2>2, <2>4
<1>8. preds + Cardinality(Predictors) = preds' + Cardinality(Predictors')
  <2>1. PICK S, T : S = Predictors /\ T = Predictors'
    OBVIOUS
  <2>2. PICK free \in Int, then \in Int : free = preds /\ then = preds'
    BY <1>4
  <2>3. /\ IsFiniteSet(S) /\ IsFiniteSet(T) /\ S \ {r} = T \ {r}
        /\ Balance(r \in S, r \in T, free, then)
    BY <1>3, <1>5, <1>6, <2>1, <2>2 DEF Balance
  <2>4. free + Cardinality(S) = then + Cardinality(T)
    BY <2>3, Counting
  <2> QED BY <2>1, <2>2, <2>4
<1> QED BY <1>7, <1>8 DEF SlotsMatchHolders, Builders, Predictors

LEMMA NobodyHolds ==
    ASSUME \A r \in Reqs : req[r].pc \notin Holding, builds = MaxBuilds, preds = MaxPredictions
    PROVE  SlotsMatchHolders
<1>1. {r \in Reqs : Building(r)} = {} /\ {r \in Reqs : Predicting(r)} = {}
  BY DEF Building, Predicting
<1>2. Cardinality({r \in Reqs : Building(r)}) = 0 /\ Cardinality({r \in Reqs : Predicting(r)}) = 0
  BY <1>1, FS_EmptySet
<1>3. MaxBuilds \in Nat /\ MaxPredictions \in Nat
  BY RunnerAssumption
<1> QED BY <1>2, <1>3 DEF SlotsMatchHolders

LEMMA CrashKeepsSlots == ASSUME Shape, Crash PROVE SlotsMatchHolders'
<1>1. \A r \in Reqs : req'[r].pc \notin Holding
  BY HoldingSteps DEF Crash, InProgress, Shape, Requests, Ended
<1>2. {r \in Reqs : Building(r)'} = {} /\ {r \in Reqs : Predicting(r)'} = {}
  BY <1>1 DEF Building, Predicting
<1>3. builds' = MaxBuilds /\ preds' = MaxPredictions
  BY DEF Crash
<1>4. /\ builds' + Cardinality({r \in Reqs : Building(r)'}) = MaxBuilds
      /\ preds' + Cardinality({r \in Reqs : Predicting(r)'}) = MaxPredictions
  BY <1>2, <1>3, FS_EmptySet, RunnerAssumption
<1> QED BY <1>4 DEF SlotsMatchHolders

LEMMA SlotsInit == Init => SlotsMatchHolders
<1> SUFFICES ASSUME Init PROVE SlotsMatchHolders
  OBVIOUS
<1>1. \A r \in Reqs : req[r].pc \notin Holding
  BY HoldingSteps DEF Init, NoRequest
<1> QED BY <1>1, NobodyHolds DEF Init

LEMMA SlotsNext == Shape /\ SlotsMatchHolders /\ [Next]_vars => SlotsMatchHolders'
<1> SUFFICES ASSUME Shape, SlotsMatchHolders, [Next]_vars PROVE SlotsMatchHolders'
  OBVIOUS
<1>1. Shape'
  BY ShapeNext
<1>2. CASE Crash
  BY <1>2, CrashKeepsSlots
<1>3. ASSUME NEW d \in Downloads, MarkAges(d) PROVE SlotsMatchHolders'
  BY <1>3 DEF MarkAges, SlotsMatchHolders, Building, Predicting
<1>4. CASE UNCHANGED vars
  BY <1>4 DEF vars, SlotsMatchHolders, Building, Predicting
<1> QED
  BY <1>1, <1>2, <1>3, <1>4, ServeBalanced, ArriveBalanced, BalancedKeepsSlots DEF Next

\* However requests end, no slot is lost and none is freed twice.
THEOREM SlotsCorrect == Spec => []SlotsMatchHolders
BY ShapeInit, ShapeNext, SlotsInit, SlotsNext, PTL DEF Spec

\* Every reachable state is well typed; the free slots never exceed their number.
THEOREM TypeCorrect == Spec => []TypeOK
<1>1. Shape /\ SlotsMatchHolders => TypeOK
  <2> SUFFICES ASSUME Shape, SlotsMatchHolders PROVE TypeOK
    OBVIOUS
  <2>1. {r \in Reqs : Building(r)} \subseteq Reqs /\ {r \in Reqs : Predicting(r)} \subseteq Reqs
    OBVIOUS
  <2>2. /\ Cardinality({r \in Reqs : Building(r)}) \in Nat
        /\ Cardinality({r \in Reqs : Predicting(r)}) \in Nat
    BY <2>1, FS_Subset, FS_CardinalityType, RunnerAssumption
  <2>3. builds \in 0..MaxBuilds /\ preds \in 0..MaxPredictions
    BY <2>2, RunnerAssumption DEF Shape, SlotsMatchHolders
  <2> QED BY <2>3 DEF Shape, TypeOK, Dirs, Requests
<1> QED BY <1>1, ShapeInit, ShapeNext, SlotsInit, SlotsNext, PTL DEF Spec
----------------------------------------------------------------------------
(* What a step of request r does to the records of the others, and to its own. *)

Apart(r) ==
    \A q \in Reqs \ {r} : /\ req'[q].kind = req[q].kind /\ req'[q].pc = req[q].pc
                          /\ req'[q].partial = req[q].partial
                          /\ req[q].torn => req'[q].torn

\* The request's next step and what it has of a partial directory then
Goes(r, from, to) == req[r].pc \in from /\ req'[r].pc \in to
Keeping(r) == req'[r].kind = req[r].kind /\ req'[r].partial = req[r].partial
Dropping(r) == req'[r].kind = req[r].kind

LEMMA GotoApart ==
    ASSUME Shape, NEW r \in Reqs, NEW pc, Goto(r, pc)
    PROVE  Apart(r) /\ Keeping(r) /\ req'[r].pc = pc /\ req'[r].torn = req[r].torn
BY DEF Goto, Apart, Keeping, Shape, Requests

LEMMA FailsApart ==
    ASSUME Shape, NEW r \in Reqs, DownloadFails(r)
    PROVE  Apart(r) /\ Dropping(r) /\ req'[r].pc = "failed"
BY DEF DownloadFails, Apart, Dropping, Shape, Requests

LEMMA ArriveApart ==
    ASSUME Shape, NEW r \in Reqs, NEW k \in Kinds, Arrive(r, k)
    PROVE  /\ Apart(r) /\ Goes(r, {"new"}, {"start"}) /\ req'[r].partial = req[r].partial
           /\ UNCHANGED <<dir, listed, stale, env>>
BY DEF Arrive, At, Apart, Goes, Shape, Requests, NoFiles

LEMMA AdmissionApart ==
    ASSUME Shape, NEW r \in Reqs, Acquire(r) \/ Busy(r)
    PROVE  /\ Apart(r) /\ Goes(r, {"start"}, {"check", "busy"}) /\ Keeping(r)
           /\ UNCHANGED <<dir, listed, stale, env, overlap>>
BY GotoApart DEF Acquire, Busy, At, Goes, NoFiles, Keep

LEMMA CheckMarkApart ==
    ASSUME Shape, NEW r \in Reqs, CheckMark(r)
    PROVE  /\ Apart(r) /\ Keeping(r) /\ UNCHANGED <<dir, stale, env>>
           /\ \A q \in Reqs \ {r} : listed'[q] = listed[q]
           /\ \/ Goes(r, {"check"}, {"manifest"}) /\ overlap' = overlap /\ listed' = listed
              \/ /\ Goes(r, {"check"}, {"fetch"}) /\ ~DownloadComplete
                 /\ ~overlap' => ~overlap /\ \A q \in Reqs : req[q].pc \notin Replacing
<1>1. \A q \in Reqs \ {r} : listed'[q] = listed[q]
  BY DEF CheckMark, Shape, Downloads
<1> QED BY <1>1, GotoApart DEF CheckMark, At, Goes

LEMMA FetchApart ==
    ASSUME Shape, NEW r \in Reqs, Fetch(r) \/ MarkComplete(r)
    PROVE  /\ Apart(r) /\ UNCHANGED <<dir, listed, stale, env, overlap>>
           /\ \/ Goes(r, {"fetch"}, {"fetch"})
              \/ /\ Goes(r, {"fetch"}, {"exists"})
                 /\ req'[r].partial = listed[r] \cup {Mark}
BY DEF Fetch, MarkComplete, At, Apart, Goes, Shape, Requests, NoFiles, Keep

LEMMA ReplaceApart ==
    ASSUME Shape, NEW r \in Reqs,
           StorageFails(r) \/ LookForOld(r) \/ ListOld(r) \/ UnlinkOld(r) \/ RemoveOld(r)
    PROVE  /\ Apart(r) /\ UNCHANGED <<listed, stale, env, overlap>>
           /\ \/ /\ Goes(r, {"exists", "list", "unlink"}, {"list", "unlink", "replace"})
                 /\ Keeping(r)
              \/ Goes(r, {"fetch", "list"}, {"failed"}) /\ Dropping(r)
           /\ \/ dir'.made = dir.made
              \/ /\ Goes(r, {"unlink"}, {"unlink"})
                 /\ \E n \in Names \cup Parts : dir'.made = [dir.made EXCEPT ![n] = None]
<1>1. CASE StorageFails(r)
  BY <1>1, FailsApart DEF StorageFails, At, Goes, NoFiles, Keep
<1>2. CASE LookForOld(r)
  BY <1>2, GotoApart DEF LookForOld, At, Goes, NoFiles, Keep
<1>3. CASE ListOld(r)
  <2>1. UNCHANGED <<dir, listed, stale, env, overlap>> /\ req[r].pc = "list"
    BY <1>3 DEF ListOld, At, NoFiles, Keep
  <2>2. CASE DownloadFails(r)
    BY <2>1, <2>2, FailsApart DEF Goes
  <2>3. CASE ~DownloadFails(r)
    <3>1. Apart(r) /\ Keeping(r) /\ req'[r].pc \in {"unlink", "replace"}
      BY <1>3, <2>3, GotoApart DEF ListOld, Apart, Keeping, Shape, Requests
    <3> QED BY <2>1, <3>1 DEF Goes
  <2> QED BY <2>2, <2>3
<1>4. CASE UnlinkOld(r)
  <2>1. PICK n \in req[r].todo :
          /\ dir' \in {dir, [dir EXCEPT !.made[n] = None]}
          /\ req' = [req EXCEPT ![r].todo = @ \ {n}]
    BY <1>4 DEF UnlinkOld
  <2>2. /\ n \in Names \cup Parts
        /\ dir'.made = dir.made \/ dir'.made = [dir.made EXCEPT ![n] = None]
    BY <2>1 DEF Shape, Requests, Dirs
  <2>3. Apart(r) /\ Goes(r, {"unlink"}, {"unlink"}) /\ Keeping(r)
    BY <1>4, <2>1 DEF UnlinkOld, At, Apart, Goes, Keeping, Shape, Requests
  <2> QED BY <1>4, <2>2, <2>3 DEF UnlinkOld, Keep, Goes
<1>5. CASE RemoveOld(r)
  BY <1>5, GotoApart DEF RemoveOld, At, Goes, Keep, Shape, Dirs
<1> QED BY <1>1, <1>2, <1>3, <1>4, <1>5

LEMMA MoveInApart ==
    ASSUME Shape, NEW r \in Reqs, MoveIn(r)
    PROVE  /\ Apart(r) /\ Dropping(r) /\ UNCHANGED <<listed, stale, env, overlap>>
           /\ Goes(r, {"replace"}, {"manifest", "failed"})
           /\ \/ dir' = dir
              \/ dir'.made = [n \in Names |-> IF n \in req[r].partial THEN r ELSE None]
<1>1. CASE DownloadFails(r)
  BY <1>1, FailsApart DEF MoveIn, At, Goes, Keep
<1>2. CASE ~DownloadFails(r)
  <2>1. Apart(r) /\ Dropping(r) /\ Goes(r, {"replace"}, {"manifest"})
    BY <1>2 DEF MoveIn, At, Apart, Dropping, Goes, Shape, Requests
  <2> QED BY <1>2, <2>1 DEF MoveIn, Keep, Goes
<1> QED BY <1>1, <1>2

LEMMA FinishApart ==
    ASSUME Shape, NEW r \in Reqs, NEW pc, Finish(r, pc)
    PROVE  Apart(r) /\ Keeping(r) /\ req'[r].pc = pc
BY GotoApart DEF Finish

LEMMA BuildApart ==
    ASSUME Shape, NEW r \in Reqs,
           \/ ReadManifest(r) \/ CreateVenv(r) \/ InstallRequirements(r)
           \/ Validate(r) \/ RunBridge(r)
    PROVE  /\ Apart(r) /\ Keeping(r) /\ UNCHANGED <<dir, listed, stale, overlap>>
           /\ Goes(r, {"manifest", "venv", "pip", "validate", "run"},
                      {"venv", "pip", "validate", "run", "ok", "failed"})
<1>1. CASE ReadManifest(r) \/ InstallRequirements(r) \/ Validate(r) \/ RunBridge(r)
  BY <1>1, GotoApart, FinishApart
     DEF ReadManifest, InstallRequirements, Validate, RunBridge, At, Goes, NoFiles, Keep
<1>2. CASE CreateVenv(r)
  <2>1. CASE Finish(r, "failed")
    BY <1>2, <2>1, FinishApart DEF CreateVenv, At, Goes, NoFiles, Keep
  <2>2. CASE ~Finish(r, "failed")
    <3>1. Apart(r) /\ Keeping(r) /\ Goes(r, {"venv"}, {"pip"})
      BY <1>2, <2>2 DEF CreateVenv, At, Apart, Keeping, Goes, Shape, Requests
    <3> QED BY <1>2, <3>1 DEF CreateVenv, NoFiles, Keep, Goes
  <2> QED BY <2>1, <2>2
<1> QED BY <1>1, <1>2

LEMMA TeardownApart ==
    ASSUME Shape, NEW r \in Reqs, BeginTeardown(r) \/ RemovePart(r) \/ EndTeardown(r)
    PROVE  /\ Apart(r) /\ Keeping(r) /\ UNCHANGED <<dir, listed, stale, overlap>>
           /\ Goes(r, {"start", "tear"}, {"tear", "ok"})
BY ZenonT(60) DEF BeginTeardown, RemovePart, EndTeardown, Goto, At, Apart, Keeping, Goes,
       Shape, Requests, NoFiles, Keep

LEMMA CrashMoves ==
    ASSUME Shape, Crash
    PROVE  /\ UNCHANGED <<dir, listed, stale, env, overlap>>
           /\ \A r \in Reqs : /\ req'[r].partial = req[r].partial
                              /\ \/ req'[r].pc = "crashed"
                                 \/ /\ req'[r] = req[r]
                                    /\ req[r].pc \in {"ok", "failed", "busy", "crashed", "new"}
BY DEF Crash, NoFiles, InProgress, Ended, Shape, Requests

----------------------------------------------------------------------------
(* Gathered downloads: what a request is about to move in is all it had listed. *)

GatheredFor(r) ==
    req[r].pc \in {"exists", "list", "unlink", "replace"}
        => req[r].partial = listed[r] \cup {Mark}

Gathered == \A r \in Reqs : GatheredFor(r)

\* A step of request r leaves what the others listed.
ListsApart(r) == \A q \in Reqs \ {r} : listed'[q] = listed[q]

LEMMA ServeGathers ==
    ASSUME Shape, Gathered, NEW r \in Reqs, Serve(r)
    PROVE  Apart(r) /\ ListsApart(r) /\ GatheredFor(r)'
<1>0. GatheredFor(r)
  BY DEF Gathered, GatheredFor
<1>1. CASE Acquire(r) \/ Busy(r)
  BY <1>0, <1>1, AdmissionApart DEF ListsApart, GatheredFor, Goes, Keeping, Replacing
<1>2. CASE CheckMark(r)
  BY <1>0, <1>2, CheckMarkApart DEF ListsApart, GatheredFor, Goes, Keeping, Replacing
<1>3. CASE Fetch(r) \/ MarkComplete(r)
  BY <1>0, <1>3, FetchApart DEF ListsApart, GatheredFor, Goes, Replacing
<1>4. CASE StorageFails(r) \/ LookForOld(r) \/ ListOld(r) \/ UnlinkOld(r) \/ RemoveOld(r)
  BY <1>0, <1>4, ReplaceApart DEF ListsApart, GatheredFor, Goes, Keeping, Dropping, Replacing
<1>5. CASE MoveIn(r)
  BY <1>0, <1>5, MoveInApart DEF ListsApart, GatheredFor, Goes, Replacing
<1>6. CASE ReadManifest(r) \/ CreateVenv(r) \/ InstallRequirements(r) \/ Validate(r) \/ RunBridge(r)
  BY <1>0, <1>6, BuildApart DEF ListsApart, GatheredFor, Goes, Keeping, Replacing
<1>7. CASE BeginTeardown(r) \/ RemovePart(r) \/ EndTeardown(r)
  BY <1>0, <1>7, TeardownApart DEF ListsApart, GatheredFor, Goes, Keeping, Replacing
<1> QED BY <1>1, <1>2, <1>3, <1>4, <1>5, <1>6, <1>7 DEF Serve, Download

LEMMA ApartGathers ==
    ASSUME Gathered, NEW r \in Reqs, Apart(r), ListsApart(r), GatheredFor(r)' PROVE Gathered'
BY DEF Gathered, GatheredFor, Apart, ListsApart

LEMMA GatheredInit == Init => Gathered
BY DEF Init, NoRequest, Gathered, GatheredFor, Replacing

LEMMA GatheredNext == Shape /\ Gathered /\ [Next]_vars => Gathered'
<1> SUFFICES ASSUME Shape, Gathered, [Next]_vars PROVE Gathered'
  OBVIOUS
<1>1. ASSUME NEW r \in Reqs, NEW k \in Kinds, Arrive(r, k) PROVE Gathered'
  <2>1. GatheredFor(r)'
    BY <1>1, ArriveApart DEF Gathered, GatheredFor, Goes, Replacing
  <2>2. ListsApart(r)
    BY <1>1, ArriveApart DEF ListsApart
  <2> QED BY <1>1, <2>1, <2>2, ArriveApart, ApartGathers
<1>2. ASSUME NEW r \in Reqs, Serve(r) PROVE Gathered'
  BY <1>2, ServeGathers, ApartGathers
<1>3. ASSUME NEW d \in Downloads, MarkAges(d) PROVE Gathered'
  BY <1>3 DEF MarkAges, Gathered, GatheredFor
<1>4. CASE Crash
  BY <1>4, CrashMoves DEF Gathered, GatheredFor, Replacing
<1>5. CASE UNCHANGED vars
  BY <1>5 DEF vars, Gathered, GatheredFor
<1> QED BY <1>1, <1>2, <1>3, <1>4, <1>5 DEF Next

----------------------------------------------------------------------------
(* What is published.                                                          *)

\* The directory as request r moves it in
Moved(r) == [n \in Names |-> IF n \in listed[r] \cup {Mark} THEN r ELSE None]

\* A file appears in the directory only when a request moves all of them in.
LEMMA OnlyMovesPublish ==
    ASSUME Shape, Gathered, [Next]_vars
    PROVE  \/ dir'.made = dir.made
           \/ \E n \in Names \cup Parts : dir'.made = [dir.made EXCEPT ![n] = None]
           \/ \E r \in Reqs : /\ req[r].pc = "replace" /\ req'[r].pc = "manifest"
                              /\ dir'.made = Moved(r)
<1>1. ASSUME NEW r \in Reqs, MoveIn(r), dir' # dir
      PROVE  /\ req[r].pc = "replace" /\ req'[r].pc = "manifest"
             /\ dir'.made = Moved(r)
  <2>1. req[r].partial = listed[r] \cup {Mark}
    BY <1>1, MoveInApart DEF Gathered, GatheredFor, Goes
  <2>2. dir'.made = [n \in Names |-> IF n \in req[r].partial THEN r ELSE None]
    BY <1>1, MoveInApart
  <2>3. req[r].pc = "replace" /\ req'[r].pc = "manifest"
    BY <1>1 DEF MoveIn, At, Shape, Requests
  <2> QED BY <2>1, <2>2, <2>3 DEF Moved
<1>2. ASSUME NEW r \in Reqs, Serve(r), ~MoveIn(r)
      PROVE  \/ dir'.made = dir.made
             \/ \E n \in Names \cup Parts : dir'.made = [dir.made EXCEPT ![n] = None]
  BY <1>2, AdmissionApart, CheckMarkApart, FetchApart, ReplaceApart, BuildApart, TeardownApart
     DEF Serve, Download
<1>3. ASSUME NEW r \in Reqs, NEW k \in Kinds, Arrive(r, k) PROVE dir' = dir
  BY <1>3, ArriveApart
<1>4. ASSUME NEW d \in Downloads, MarkAges(d) PROVE dir' = dir
  BY <1>4 DEF MarkAges
<1>5. CASE Crash
  BY <1>5, CrashMoves
<1>6. CASE UNCHANGED vars
  BY <1>6 DEF vars
<1> QED BY <1>1, <1>2, <1>3, <1>4, <1>5, <1>6 DEF Next

\* Files appear at the final path only as one finished download: its mark, and
\* every file it had listed.
THEOREM PublishedCorrect == Spec => PublishedWhole
<1>1. ASSUME Shape, Gathered, [Next]_vars,
             NEW n \in Names, dir.made[n] = None, dir'.made[n] # None
      PROVE  /\ dir'.made[Mark] # None
             /\ \A f \in listed[dir'.made[Mark]] : dir'.made[f] = dir'.made[Mark]
  <2>1. CASE \E k \in Names \cup Parts : dir'.made = [dir.made EXCEPT ![k] = None]
    BY <1>1, <2>1 DEF Shape, Dirs
  <2>2. CASE \E r \in Reqs : dir'.made = Moved(r)
    <3>1. PICK r \in Reqs : dir'.made = Moved(r)
      BY <2>2
    <3>2. listed[r] \subseteq Names /\ Mark \in Names
      BY <1>1 DEF Shape, Downloads, Names
    <3>3. dir'.made[Mark] = r /\ \A f \in listed[r] : dir'.made[f] = r
      BY <3>1, <3>2 DEF Moved
    <3> QED BY <3>3, RunnerAssumption
  <2> QED BY <1>1, <2>1, <2>2, OnlyMovesPublish
<1>2. Shape /\ Gathered /\ [Next]_vars =>
        [(\E n \in Names : dir.made[n] = None /\ dir'.made[n] # None)
           => /\ dir'.made[Mark] # None
              /\ \A f \in listed[dir'.made[Mark]] : dir'.made[f] = dir'.made[Mark]]_vars
  BY <1>1
<1> QED BY <1>2, ShapeInit, ShapeNext, GatheredInit, GatheredNext, PTL DEF Spec, PublishedWhole

----------------------------------------------------------------------------
(* Downloads one at a time.                                                    *)

\* Who replaces the directory is alone, and has found it incomplete or too old.
Alone ==
    /\ \A q, r \in Reqs : req[q].pc \in Replacing /\ req[r].pc \in Replacing => q = r
    /\ \A r \in Reqs : req[r].pc \in Replacing => ~DownloadComplete

Whole == \A f \in listed[dir.made[Mark]] : dir.made[f] = dir.made[Mark]

Solo == ~overlap => Alone /\ (DownloadComplete => Whole)

LEMMA SoloInit == Init => Solo
<1> SUFFICES ASSUME Init PROVE Solo
  OBVIOUS
<1>1. Alone
  BY DEF Init, NoRequest, Alone, Replacing
<1>2. DownloadComplete => Whole
  BY RunnerAssumption DEF Init, Empty, DownloadComplete, Names, Downloads, Whole
<1> QED BY <1>1, <1>2 DEF Solo

\* A step that leaves the directory as it is and begins no replacement
LEMMA QuietKeepsSolo ==
    ASSUME Solo, UNCHANGED <<dir, listed, overlap>>, stale \subseteq stale',
           \A q \in Reqs : req'[q].pc \in Replacing => req[q].pc \in Replacing
    PROVE  Solo'
BY DEF Solo, Alone, Whole, DownloadComplete

LEMMA SoloNext == Shape /\ Gathered /\ Solo /\ [Next]_vars => Solo'
<1> SUFFICES ASSUME Shape, Gathered, Solo, [Next]_vars PROVE Solo'
  OBVIOUS
<1>1. ASSUME NEW r \in Reqs, NEW k \in Kinds, Arrive(r, k) PROVE Solo'
  BY <1>1, ArriveApart, QuietKeepsSolo DEF Apart, Goes, Replacing, Arrive, NoFiles, Keep
<1>2. ASSUME NEW r \in Reqs, Acquire(r) \/ Busy(r) PROVE Solo'
  BY <1>2, AdmissionApart, QuietKeepsSolo DEF Apart, Goes, Replacing
<1>3. ASSUME NEW r \in Reqs, CheckMark(r) PROVE Solo'
  <2>1. CASE Goes(r, {"check"}, {"manifest"}) /\ overlap' = overlap
    BY <1>3, <2>1, CheckMarkApart, QuietKeepsSolo DEF Apart, Goes, Replacing
  <2>2. CASE /\ Goes(r, {"check"}, {"fetch"}) /\ ~DownloadComplete
             /\ ~overlap' => ~overlap /\ \A q \in Reqs : req[q].pc \notin Replacing
    <3>1. ~overlap' => \A q \in Reqs : req'[q].pc \in Replacing => q = r
      BY <1>3, <2>2, CheckMarkApart DEF Apart
    <3>2. ~DownloadComplete'
      BY <1>3, <2>2, CheckMarkApart DEF DownloadComplete
    <3> QED BY <3>1, <3>2 DEF Solo, Alone
  <2> QED BY <1>3, <2>1, <2>2, CheckMarkApart
<1>4. ASSUME NEW r \in Reqs, Fetch(r) \/ MarkComplete(r) PROVE Solo'
  BY <1>4, FetchApart, QuietKeepsSolo DEF Apart, Goes, Replacing
<1>5. ASSUME NEW r \in Reqs,
             StorageFails(r) \/ LookForOld(r) \/ ListOld(r) \/ UnlinkOld(r) \/ RemoveOld(r)
      PROVE  Solo'
  <2>1. req[r].pc \in Replacing
    BY <1>5, ReplaceApart DEF Goes, Replacing
  <2>2. \A q \in Reqs : req'[q].pc \in Replacing => req[q].pc \in Replacing
    BY <1>5, <2>1, ReplaceApart DEF Apart
  <2>3. ~overlap => ~DownloadComplete
    BY <2>1 DEF Solo, Alone
  <2>4. ~DownloadComplete => ~DownloadComplete'
    <3>1. dir.made \in [Names -> Downloads \cup {None}] /\ Mark \in Names /\ stale' = stale
      BY <1>5, ReplaceApart DEF Shape, Dirs, Names
    <3>2. CASE dir'.made = dir.made
      BY <3>1, <3>2 DEF DownloadComplete
    <3>3. CASE \E n \in Names \cup Parts : dir'.made = [dir.made EXCEPT ![n] = None]
      <4>1. dir'.made[Mark] = dir.made[Mark] \/ dir'.made[Mark] = None
        BY <3>1, <3>3
      <4> QED BY <3>1, <4>1 DEF DownloadComplete
    <3> QED BY <1>5, <3>2, <3>3, ReplaceApart
  <2>5. overlap' = overlap
    BY <1>5, ReplaceApart
  <2> QED BY <2>2, <2>3, <2>4, <2>5 DEF Solo, Alone
<1>6. ASSUME NEW r \in Reqs, MoveIn(r) PROVE Solo'
  <2>1. /\ req[r].pc \in Replacing /\ req'[r].pc \notin Replacing
        /\ UNCHANGED <<listed, overlap, stale>>
    BY <1>6, MoveInApart DEF Goes, Replacing
  <2>2. ~overlap => \A q \in Reqs : req'[q].pc \notin Replacing
    BY <1>6, <2>1, MoveInApart DEF Apart, Solo, Alone
  <2>3. CASE dir' = dir
    BY <2>1, <2>2, <2>3 DEF Solo, Alone, Whole, DownloadComplete
  <2>4. CASE dir' # dir
    <3>1. dir'.made = Moved(r)
      BY <1>6, <2>4, MoveInApart DEF Gathered, GatheredFor, Goes, Moved
    <3>2. listed[r] \subseteq Names /\ Mark \in Names
      BY DEF Shape, Downloads, Names
    <3>3. dir'.made[Mark] = r /\ \A f \in listed[r] : dir'.made[f] = r
      BY <3>1, <3>2 DEF Moved
    <3>4. Whole'
      BY <2>1, <3>3 DEF Whole
    <3> QED BY <2>1, <2>2, <3>4 DEF Solo, Alone
  <2> QED BY <2>3, <2>4
<1>7. ASSUME NEW r \in Reqs,
             \/ ReadManifest(r) \/ CreateVenv(r) \/ InstallRequirements(r)
             \/ Validate(r) \/ RunBridge(r)
      PROVE  Solo'
  BY <1>7, BuildApart, QuietKeepsSolo DEF Apart, Goes, Replacing
<1>8. ASSUME NEW r \in Reqs, BeginTeardown(r) \/ RemovePart(r) \/ EndTeardown(r) PROVE Solo'
  BY <1>8, TeardownApart, QuietKeepsSolo DEF Apart, Goes, Replacing
<1>9. ASSUME NEW d \in Downloads, MarkAges(d) PROVE Solo'
  BY <1>9, QuietKeepsSolo DEF MarkAges, Keep
<1>10. CASE Crash
  BY <1>10, CrashMoves, QuietKeepsSolo DEF Replacing
<1>11. CASE UNCHANGED vars
  BY <1>11, QuietKeepsSolo DEF vars
<1> QED
  BY <1>1, <1>2, <1>3, <1>4, <1>5, <1>6, <1>7, <1>8, <1>9, <1>10, <1>11
     DEF Next, Serve, Download

\* As long as no two downloads ran at the same time, a directory that passes for
\* a complete download holds every file that download had listed, whatever failed,
\* crashed or could not be removed.
THEOREM SoloCorrect == Spec => []SoloDownloadsAreWhole
<1>1. Solo => SoloDownloadsAreWhole
  BY DEF Solo, Whole, SoloDownloadsAreWhole
<1> QED
  BY <1>1, ShapeInit, ShapeNext, GatheredInit, GatheredNext, SoloInit, SoloNext, PTL DEF Spec
----------------------------------------------------------------------------
(* One build at a time.                                                        *)

Tearing == \E q \in Reqs : At(q, "tear")

\* The environment a build relies on is the one it made, unless a teardown is
\* or was there meanwhile.
BuildFor(r) ==
    /\ req[r].pc \in {"venv", "pip", "validate"} => req[r].kind = "init"
    /\ (req[r].pc \in {"pip", "validate"} /\ Tearing) => req[r].torn
    /\ (req[r].pc = "pip" /\ ~req[r].torn) => "python" \in env
    /\ (req[r].pc = "validate" /\ ~req[r].torn) => env = Parts

Built == \A r \in Reqs : BuildFor(r)

LEMMA BuiltInit == Init => Built
BY DEF Init, NoRequest, Built, BuildFor

\* With one slot there is one builder.
LEMMA OneBuilder ==
    ASSUME MaxBuilds = 1, Shape, SlotsMatchHolders,
           NEW q \in Reqs, NEW r \in Reqs, Building(q), Building(r)
    PROVE  q = r
<1> SUFFICES ASSUME q # r PROVE FALSE
  OBVIOUS
<1>1. PICK S : S = {s \in Reqs : Building(s)}
  OBVIOUS
<1>2. IsFiniteSet(S) /\ Cardinality(S) \in Nat
  BY <1>1, FS_Subset, FS_CardinalityType, RunnerAssumption
<1>3. Cardinality(S) <= 1
  BY <1>1, <1>2 DEF SlotsMatchHolders, Shape
<1>4. {q, r} \subseteq S
  BY <1>1
<1>5. IsFiniteSet({q}) /\ Cardinality({q}) = 1
  BY FS_Singleton
<1>6. {q} \cup {r} = {q, r} /\ r \notin {q}
  OBVIOUS
<1>7. Cardinality({q, r}) = 2
  BY <1>5, <1>6, FS_AddElement
<1>8. Cardinality({q, r}) <= Cardinality(S)
  BY <1>2, <1>4, FS_Subset
<1> QED BY <1>2, <1>3, <1>7, <1>8

\* A step elsewhere that leaves the environment as it is and begins no teardown
LEMMA UndisturbedBuild ==
    ASSUME NEW q \in Reqs, BuildFor(q), env' = env, Tearing' => Tearing,
           req'[q].kind = req[q].kind, req'[q].pc = req[q].pc,
           req[q].torn => req'[q].torn
    PROVE  BuildFor(q)'
BY DEF BuildFor

\* A step of r itself that leaves it outside the build
LEMMA NoBuildOfItsOwn ==
    ASSUME NEW r \in Reqs, req'[r].pc \notin {"venv", "pip", "validate"}
    PROVE  BuildFor(r)'
BY DEF BuildFor

LEMMA NoTearingBegins ==
    ASSUME NEW r \in Reqs, Apart(r), req'[r].pc # "tear"
    PROVE  Tearing' => Tearing
BY DEF Tearing, At, Apart

\* A step of r that keeps the environment, begins no teardown and leaves r
\* outside the build
LEMMA StepBesideBuilds ==
    ASSUME Built, NEW r \in Reqs, Apart(r), env' = env,
           req'[r].pc \notin {"venv", "pip", "validate", "tear"}
    PROVE  Built'
<1>1. Tearing' => Tearing
  BY NoTearingBegins
<1>2. ASSUME NEW q \in Reqs PROVE BuildFor(q)'
  BY <1>1, UndisturbedBuild, NoBuildOfItsOwn DEF Built, Apart
<1> QED BY <1>2 DEF Built

\* The steps of the build: nobody else is in one.
LEMMA BuildKeepsBuilt ==
    ASSUME MaxBuilds = 1, Shape, SlotsMatchHolders, Built, NEW r \in Reqs,
           \/ ReadManifest(r) \/ CreateVenv(r) \/ InstallRequirements(r)
           \/ Validate(r) \/ RunBridge(r)
    PROVE  Built'
<1>1. Apart(r) /\ Keeping(r) /\ (Tearing' => Tearing)
  BY BuildApart, NoTearingBegins DEF Goes
<1>2. CASE ReadManifest(r) \/ Validate(r) \/ RunBridge(r)
  <2>1. env' = env
    BY <1>2 DEF ReadManifest, Validate, RunBridge
  <2>2. ASSUME NEW q \in Reqs \ {r} PROVE BuildFor(q)'
    BY <1>1, <2>1, UndisturbedBuild DEF Built, Apart
  <2>3. req'[r].pc = "venv" => req'[r].kind = "init"
    BY <1>1, <1>2, FinishApart, GotoApart DEF ReadManifest, Validate, RunBridge, Keeping
  <2>4. req'[r].pc \notin {"pip", "validate"}
    BY <1>2, FinishApart, GotoApart DEF ReadManifest, Validate, RunBridge
  <2>5. BuildFor(r)'
    BY <2>3, <2>4 DEF BuildFor
  <2> QED BY <2>2, <2>5 DEF Built
<1>3. CASE CreateVenv(r) \/ InstallRequirements(r)
  <2>1. req[r].pc \in {"venv", "pip"} /\ Building(r)
    BY <1>3, HoldingSteps DEF CreateVenv, InstallRequirements, At, Built, BuildFor, Building
  <2>2. ASSUME NEW q \in Reqs \ {r} PROVE BuildFor(q)'
    <3>1. req[q].pc \notin {"venv", "pip", "validate"}
      BY <2>1, OneBuilder, HoldingSteps DEF Built, BuildFor, Building
    <3>2. req'[q].pc = req[q].pc
      BY <1>1 DEF Apart
    <3> QED BY <3>1, <3>2, NoBuildOfItsOwn
  <2>3. BuildFor(r)'
    <3>1. CASE Finish(r, "failed")
      BY <3>1, FinishApart, NoBuildOfItsOwn
    <3>2. CASE CreateVenv(r) /\ ~Finish(r, "failed")
      <4>1. /\ env' = {"python"} /\ req'[r].pc = "pip"
            /\ req'[r].torn = \E q \in Reqs : At(q, "tear")
        BY <3>2 DEF CreateVenv, Shape, Requests
      <4>2. Tearing => req'[r].torn
        BY <4>1, Zenon DEF Tearing
      <4>3. req'[r].kind = "init"
        BY <1>1, <2>1 DEF Keeping, Building
      <4> QED BY <1>1, <4>1, <4>2, <4>3 DEF BuildFor
    <3>3. CASE InstallRequirements(r) /\ ~Finish(r, "failed")
      <4>1. /\ "python" \in env /\ env' = env \cup {"packages"}
            /\ Goto(r, "validate") /\ req[r].pc = "pip"
        BY <3>3 DEF InstallRequirements, At
      <4>2. env' = Parts
        BY <4>1 DEF Shape, Parts
      <4>3. req'[r].pc = "validate" /\ req'[r].torn = req[r].torn
        BY <4>1, GotoApart
      <4>4. req'[r].kind = "init"
        BY <1>1, <2>1 DEF Keeping, Building
      <4>5. Tearing => req[r].torn
        BY <4>1 DEF Built, BuildFor
      <4> QED BY <1>1, <4>2, <4>3, <4>4, <4>5 DEF BuildFor
    <3> QED BY <1>3, <3>1, <3>2, <3>3
  <2> QED BY <2>2, <2>3 DEF Built
<1> QED BY <1>2, <1>3

\* A teardown marks every build there is.
LEMMA TeardownKeepsBuilt ==
    ASSUME Shape, Built, NEW r \in Reqs, BeginTeardown(r) \/ RemovePart(r) \/ EndTeardown(r)
    PROVE  Built'
<1>1. Apart(r) /\ req'[r].pc \in {"tear", "ok"}
  BY TeardownApart DEF Goes
<1>2. BuildFor(r)'
  BY <1>1, NoBuildOfItsOwn
<1>3. CASE BeginTeardown(r)
  <2>1. ASSUME NEW q \in Reqs \ {r}
        PROVE req'[q].torn /\ req'[q].pc = req[q].pc /\ req'[q].kind = req[q].kind
    BY <1>3 DEF BeginTeardown, Shape, Requests
  <2>2. ASSUME NEW q \in Reqs \ {r} PROVE BuildFor(q)'
    BY <2>1 DEF Built, BuildFor
  <2> QED BY <1>2, <2>2 DEF Built
<1>4. CASE RemovePart(r)
  <2>1. Tearing
    BY <1>4 DEF RemovePart, Tearing
  <2>2. ASSUME NEW q \in Reqs \ {r} PROVE BuildFor(q)'
    BY <1>1, <2>1 DEF Built, BuildFor, Apart
  <2> QED BY <1>2, <2>2 DEF Built
<1>5. CASE EndTeardown(r)
  <2>1. env' = env /\ req'[r].pc = "ok"
    BY <1>5, GotoApart DEF EndTeardown
  <2> QED BY <1>1, <2>1, StepBesideBuilds
<1> QED BY <1>3, <1>4, <1>5

LEMMA BuiltNext ==
    MaxBuilds = 1 /\ Shape /\ SlotsMatchHolders /\ Built /\ [Next]_vars => Built'
<1> SUFFICES ASSUME MaxBuilds = 1, Shape, SlotsMatchHolders, Built, [Next]_vars PROVE Built'
  OBVIOUS
<1>1. ASSUME NEW r \in Reqs, NEW k \in Kinds, Arrive(r, k) PROVE Built'
  BY <1>1, ArriveApart, StepBesideBuilds DEF Goes
<1>2. ASSUME NEW r \in Reqs, Acquire(r) \/ Busy(r) PROVE Built'
  BY <1>2, AdmissionApart, StepBesideBuilds DEF Goes
<1>3. ASSUME NEW r \in Reqs, CheckMark(r) PROVE Built'
  BY <1>3, CheckMarkApart, StepBesideBuilds DEF Goes
<1>4. ASSUME NEW r \in Reqs, Fetch(r) \/ MarkComplete(r) PROVE Built'
  BY <1>4, FetchApart, StepBesideBuilds DEF Goes
<1>5. ASSUME NEW r \in Reqs,
             StorageFails(r) \/ LookForOld(r) \/ ListOld(r) \/ UnlinkOld(r) \/ RemoveOld(r)
      PROVE  Built'
  BY <1>5, ReplaceApart, StepBesideBuilds DEF Goes
<1>6. ASSUME NEW r \in Reqs, MoveIn(r) PROVE Built'
  BY <1>6, MoveInApart, StepBesideBuilds DEF Goes
<1>7. CASE Crash
  <2>1. ASSUME NEW q \in Reqs PROVE BuildFor(q)'
    BY <1>7, CrashMoves, NoBuildOfItsOwn
  <2> QED BY <2>1 DEF Built
<1>8. ASSUME NEW d \in Downloads, MarkAges(d) PROVE Built'
  BY <1>8 DEF MarkAges, Keep, Built, BuildFor, Tearing, At
<1>9. CASE UNCHANGED vars
  BY <1>9 DEF vars, Built, BuildFor, Tearing, At
<1> QED
  BY <1>1, <1>2, <1>3, <1>4, <1>5, <1>6, <1>7, <1>8, <1>9, BuildKeepsBuilt, TeardownKeepsBuilt
     DEF Next, Serve, Download

\* When the runner builds one environment at a time (the default of
\* RUNNER_MAX_CONCURRENT_BUILDS), an init that reaches the validation finds the
\* whole environment it made, unless a teardown overlapped.
THEOREM BuildsCorrect == ASSUME MaxBuilds = 1 PROVE Spec => []BuildsDontInterfere
<1>1. Built => BuildsDontInterfere
  BY DEF Built, BuildFor, BuildsDontInterfere, At
<1>2. Shape /\ SlotsMatchHolders /\ Built /\ [Next]_vars => Built'
  BY BuiltNext
<1> QED
  BY <1>1, <1>2, ShapeInit, ShapeNext, SlotsInit, SlotsNext, BuiltInit, PTL DEF Spec
----------------------------------------------------------------------------
(* Requests move on.                                                           *)

\* The requests other than r stay where they are.
Aside(r) ==
    \A q \in Reqs \ {r} : /\ req'[q].pc = req[q].pc
                          /\ req'[q].partial = req[q].partial
                          /\ req'[q].todo = req[q].todo

\* r goes to the step `to`.
Reaches(r, to) == Aside(r) /\ req'[r].pc = to

LEMMA GotoReaches ==
    ASSUME Shape, NEW r \in Reqs, NEW pc, Goto(r, pc) PROVE Reaches(r, pc)
BY DEF Goto, Reaches, Aside, Shape, Requests

LEMMA FailsReaches ==
    ASSUME Shape, NEW r \in Reqs, DownloadFails(r) PROVE Reaches(r, "failed")
<1>1. PICK kept \in SUBSET req[r].partial :
        req' = [req EXCEPT ![r].partial = kept, ![r].todo = {}, ![r].pc = "failed"]
  BY DEF DownloadFails
<1> QED BY <1>1 DEF Reaches, Aside, Shape, Requests

\* The steps that go on to a later stage, and the stages they go to.
Onward ==
    {<<"new", "start">>, <<"start", "check">>, <<"start", "busy">>, <<"start", "tear">>,
     <<"check", "manifest">>, <<"check", "fetch">>, <<"fetch", "exists">>,
     <<"fetch", "failed">>, <<"exists", "list">>, <<"exists", "replace">>,
     <<"list", "unlink">>, <<"list", "replace">>, <<"list", "failed">>,
     <<"unlink", "replace">>, <<"replace", "manifest">>, <<"replace", "failed">>,
     <<"manifest", "failed">>, <<"manifest", "venv">>, <<"manifest", "run">>,
     <<"venv", "pip">>, <<"venv", "failed">>, <<"pip", "validate">>, <<"pip", "failed">>,
     <<"validate", "ok">>, <<"validate", "failed">>, <<"run", "ok">>, <<"run", "failed">>,
     <<"tear", "ok">>}

LEMMA OnwardIsLater ==
    ASSUME NEW from, NEW to, <<from, to>> \in Onward PROVE Stage(from) < Stage(to)
<1>1. CASE from \in {"new", "start", "check", "fetch"}
  BY <1>1 DEF Onward, Stage
<1>2. CASE from \in {"exists", "list", "unlink", "replace"}
  BY <1>2 DEF Onward, Stage
<1>3. CASE from \in {"manifest", "venv", "pip", "validate", "run", "tear"}
  BY <1>3 DEF Onward, Stage
<1> QED BY <1>1, <1>2, <1>3 DEF Onward

\* r goes onward, or through a part of the loop it is in.
GoesOn(r) == Aside(r) /\ (<<req[r].pc, req'[r].pc>> \in Onward \/ MovesOn(r))

LEMMA OnwardMovesOn ==
    ASSUME NEW r \in Reqs, GoesOn(r) PROVE MovesOn(r)
BY OnwardIsLater DEF GoesOn, MovesOn

LEMMA ReachesOnward ==
    ASSUME NEW r \in Reqs, NEW to, Reaches(r, to), <<req[r].pc, to>> \in Onward
    PROVE  GoesOn(r)
BY DEF Reaches, GoesOn

LEMMA AdmissionGoes ==
    ASSUME Shape, NEW r \in Reqs, Acquire(r) \/ Busy(r) \/ CheckMark(r)
    PROVE  GoesOn(r)
<1>1. CASE Acquire(r)
  BY <1>1, GotoReaches, ReachesOnward DEF Acquire, At, Onward
<1>2. CASE Busy(r)
  BY <1>2, GotoReaches, ReachesOnward DEF Busy, At, Onward
<1>3. CASE CheckMark(r)
  BY <1>3, GotoReaches, ReachesOnward DEF CheckMark, At, Onward
<1> QED BY <1>1, <1>2, <1>3

LEMMA FetchGoes ==
    ASSUME Shape, NEW r \in Reqs, Fetch(r) \/ StorageFails(r) \/ MarkComplete(r)
    PROVE  GoesOn(r)
<1>1. CASE Fetch(r)
  <2>1. PICK f \in listed[r] \ req[r].partial : req' = [req EXCEPT ![r].partial = @ \cup {f}]
    BY <1>1 DEF Fetch
  <2>2. Aside(r) /\ req'[r].pc = req[r].pc /\ req'[r].partial = req[r].partial \cup {f}
    BY <2>1 DEF Aside, Shape, Requests
  <2>3. Left(r) = listed[r] \ req[r].partial /\ Left(r)' = listed[r] \ (req[r].partial \cup {f})
    BY <1>1, <2>2 DEF Fetch, NoFiles, Left, At
  <2> QED BY <2>1, <2>2, <2>3 DEF GoesOn, MovesOn
<1>2. CASE StorageFails(r)
  BY <1>2, FailsReaches, ReachesOnward DEF StorageFails, At, Onward
<1>3. CASE MarkComplete(r)
  <2>1. req[r].pc = "fetch" /\ Reaches(r, "exists")
    BY <1>3 DEF MarkComplete, At, Reaches, Aside, Shape, Requests
  <2> QED BY <2>1, ReachesOnward DEF Onward
<1> QED BY <1>1, <1>2, <1>3

LEMMA ReplaceGoes ==
    ASSUME Shape, NEW r \in Reqs,
           LookForOld(r) \/ ListOld(r) \/ UnlinkOld(r) \/ RemoveOld(r) \/ MoveIn(r)
    PROVE  GoesOn(r)
<1>1. CASE LookForOld(r)
  BY <1>1, GotoReaches, ReachesOnward DEF LookForOld, At, Onward
<1>2. CASE ListOld(r)
  <2>1. req[r].pc = "list"
    BY <1>2 DEF ListOld, At
  <2>2. Reaches(r, "unlink") \/ Reaches(r, "replace") \/ Reaches(r, "failed")
    <3>1. CASE DownloadFails(r)
      BY <3>1, FailsReaches
    <3>2. CASE Goto(r, "replace")
      BY <3>2, GotoReaches
    <3>3. CASE req' = [req EXCEPT ![r].pc = "unlink",
                                  ![r].todo = {n \in Names : dir.made[n] # None}]
      BY <3>3 DEF Reaches, Aside, Shape, Requests
    <3> QED BY <1>2, <3>1, <3>2, <3>3 DEF ListOld
  <2> QED BY <2>1, <2>2, ReachesOnward DEF Onward
<1>3. CASE UnlinkOld(r)
  <2>1. PICK n \in req[r].todo : req' = [req EXCEPT ![r].todo = @ \ {n}]
    BY <1>3 DEF UnlinkOld
  <2>2. Aside(r) /\ req'[r].pc = req[r].pc /\ req'[r].todo = req[r].todo \ {n}
    BY <2>1 DEF Aside, Shape, Requests
  <2>3. Left(r) = req[r].todo /\ Left(r)' = req[r].todo \ {n}
    BY <1>3, <2>2 DEF UnlinkOld, Left, At
  <2> QED BY <2>1, <2>2, <2>3 DEF GoesOn, MovesOn
<1>4. CASE RemoveOld(r)
  BY <1>4, GotoReaches, ReachesOnward DEF RemoveOld, At, Onward
<1>5. CASE MoveIn(r)
  <2>1. req[r].pc = "replace"
    BY <1>5 DEF MoveIn, At
  <2>2. CASE DownloadFails(r)
    BY <2>1, <2>2, FailsReaches, ReachesOnward DEF Onward
  <2>3. CASE ~DownloadFails(r)
    <3>1. Reaches(r, "manifest")
      BY <1>5, <2>3 DEF MoveIn, Reaches, Aside, Shape, Requests
    <3> QED BY <2>1, <3>1, ReachesOnward DEF Onward
  <2> QED BY <2>2, <2>3
<1> QED BY <1>1, <1>2, <1>3, <1>4, <1>5

LEMMA BuildGoes ==
    ASSUME Shape, NEW r \in Reqs,
           \/ ReadManifest(r) \/ CreateVenv(r) \/ InstallRequirements(r)
           \/ Validate(r) \/ RunBridge(r)
    PROVE  GoesOn(r)
<1>0. \A pc : Finish(r, pc) => Reaches(r, pc)
  BY GotoReaches DEF Finish
<1>1. CASE ReadManifest(r)
  BY <1>0, <1>1, GotoReaches, ReachesOnward DEF ReadManifest, At, Onward
<1>2. CASE CreateVenv(r)
  <2>1. req[r].pc = "venv"
    BY <1>2 DEF CreateVenv, At
  <2>2. CASE Finish(r, "failed")
    BY <1>0, <2>1, <2>2, ReachesOnward DEF Onward
  <2>3. CASE ~Finish(r, "failed")
    <3>1. Reaches(r, "pip")
      BY <1>2, <2>3 DEF CreateVenv, Reaches, Aside, Shape, Requests
    <3> QED BY <2>1, <3>1, ReachesOnward DEF Onward
  <2> QED BY <2>2, <2>3
<1>3. CASE InstallRequirements(r)
  BY <1>0, <1>3, GotoReaches, ReachesOnward DEF InstallRequirements, At, Onward
<1>4. CASE Validate(r) \/ RunBridge(r)
  BY <1>0, <1>4, ReachesOnward DEF Validate, RunBridge, At, Onward
<1> QED BY <1>1, <1>2, <1>3, <1>4

LEMMA TeardownGoes ==
    ASSUME Shape, NEW r \in Reqs, BeginTeardown(r) \/ RemovePart(r) \/ EndTeardown(r)
    PROVE  GoesOn(r)
<1>1. CASE BeginTeardown(r)
  <2>1. req[r].pc = "start" /\ req'[r].pc = "tear"
    BY <1>1 DEF BeginTeardown, At, Shape, Requests
  <2>2. Aside(r)
    BY <1>1 DEF BeginTeardown, Aside, Shape, Requests
  <2> QED BY <2>1, <2>2, ReachesOnward DEF Reaches, Onward
<1>2. CASE RemovePart(r)
  <2>1. PICK p \in req[r].todo : req' = [req EXCEPT ![r].todo = @ \ {p}]
    BY <1>2 DEF RemovePart
  <2>2. Aside(r) /\ req'[r].pc = req[r].pc /\ req'[r].todo = req[r].todo \ {p}
    BY <2>1 DEF Aside, Shape, Requests
  <2>3. Left(r) = req[r].todo /\ Left(r)' = req[r].todo \ {p}
    BY <1>2, <2>2 DEF RemovePart, Left, At
  <2> QED BY <2>1, <2>2, <2>3 DEF GoesOn, MovesOn
<1>3. CASE EndTeardown(r)
  BY <1>3, GotoReaches, ReachesOnward DEF EndTeardown, At, Onward
<1> QED BY <1>1, <1>2, <1>3

LEMMA ServeGoes ==
    ASSUME Shape, NEW r \in Reqs, Serve(r) PROVE Aside(r) /\ ListsApart(r) /\ MovesOn(r)
<1>1. GoesOn(r)
  BY AdmissionGoes, FetchGoes, ReplaceGoes, BuildGoes, TeardownGoes DEF Serve, Download
<1>2. ListsApart(r)
  BY AdmissionApart, CheckMarkApart, FetchApart, ReplaceApart, MoveInApart, BuildApart,
     TeardownApart DEF Serve, Download, ListsApart
<1> QED BY <1>1, <1>2, OnwardMovesOn DEF GoesOn

LEMMA AsideStays ==
    ASSUME NEW r \in Reqs, NEW q \in Reqs \ {r}, Aside(r), ListsApart(r)
    PROVE  UNCHANGED <<req[q].pc, Left(q)>>
BY DEF Aside, ListsApart, Left, At

LEMMA MovesNext ==
    ASSUME Shape, [Next]_vars, NEW q \in Reqs
    PROVE  MovesOn(q) \/ (UNCHANGED <<req[q].pc, Left(q)>>)
<1>1. ASSUME NEW r \in Reqs, NEW k \in Kinds, Arrive(r, k)
      PROVE  MovesOn(q) \/ (UNCHANGED <<req[q].pc, Left(q)>>)
  <2>1. req[r].pc = "new" /\ Reaches(r, "start")
    BY <1>1 DEF Arrive, At, Reaches, Aside, Shape, Requests
  <2>2. GoesOn(r)
    BY <2>1, ReachesOnward DEF Onward
  <2>3. ListsApart(r)
    BY <1>1, ArriveApart DEF ListsApart
  <2> QED BY <2>1, <2>2, <2>3, OnwardMovesOn, AsideStays DEF Reaches
<1>2. ASSUME NEW r \in Reqs, Serve(r)
      PROVE  MovesOn(q) \/ (UNCHANGED <<req[q].pc, Left(q)>>)
  BY <1>2, ServeGoes, AsideStays
<1>3. CASE \E d \in Downloads : MarkAges(d)
  BY <1>3 DEF MarkAges, Left, At
<1>4. CASE Crash
  <2>1. CASE InProgress(q)
    <3>1. req'[q].pc = "crashed"
      BY <1>4, <2>1 DEF Crash, Shape, Requests
    <3>2. Stage(req[q].pc) < Stage("crashed")
      <4>1. req[q].pc \in Steps \ {"ok", "failed", "busy", "crashed"}
        BY <2>1 DEF InProgress, Ended, Shape, Requests
      <4> QED BY <4>1 DEF Stage, Steps, Holding, Replacing, Ended
    <3> QED BY <3>1, <3>2 DEF MovesOn
  <2>2. CASE ~InProgress(q)
    BY <1>4, <2>2 DEF Crash, NoFiles, Left, At
  <2> QED BY <2>1, <2>2
<1>5. CASE UNCHANGED vars
  BY <1>5 DEF vars, Left, At
<1> QED BY <1>1, <1>2, <1>3, <1>4, <1>5 DEF Next

\* Every step of a request leads to a later stage, or through a loop over a
\* finite set of which less is left, and no other step sends it back: together
\* with NobodyWaitsForever, every request is answered.
THEOREM MovesCorrect == Spec => RequestsMoveOn
<1>1. ASSUME Shape, [Next]_vars
      PROVE  \A r \in Reqs : /\ Serve(r) => MovesOn(r)
                             /\ MovesOn(r) \/ (UNCHANGED <<req[r].pc, Left(r)>>)
  BY <1>1, ServeGoes, MovesNext
<1> QED BY <1>1, ShapeInit, ShapeNext, PTL DEF Spec, RequestsMoveOn
=============================================================================
