--------------------------- MODULE RegistryProofs ---------------------------
(* Proofs about Registry: for any number of models, requests, files and        *)
(* deployments, no two uploads store files under one version number; every     *)
(* committed version keeps the complete bundle of its own upload, and every    *)
(* stored file a row that names it, but for the exceptions the properties list.*)
(*                                                                             *)
(* The last two theorems rest on step classes (Keeps ... Takes): what a step   *)
(* of a request does to its record, to the rows and to the bucket, with the    *)
(* rest of the action forgotten.                                               *)
EXTENDS Registry, FiniteSetTheorems, WellFoundedInduction, TLAPS

\* Of finitely many numbers there is a largest: the one above which there are the
\* fewest.
LEMMA MaxOfFinite ==
    ASSUME NEW S, S \subseteq Nat, IsFiniteSet(S), S # {}
    PROVE  Max(S) \in S /\ \A y \in S : y <= Max(S)
<1>1. PICK above : above = [x \in S |-> {y \in S : y > x}]
  OBVIOUS
<1>2. PICK tops : tops = {above[x] : x \in S}
  OBVIOUS
<1>3. tops \subseteq FiniteSubsetsOf(S)
  <2>1. \A x \in S : above[x] \subseteq S
    BY <1>1
  <2>2. \A T \in SUBSET S : IsFiniteSet(T)
    BY FS_Subset
  <2> QED BY <1>2, <2>1, <2>2 DEF FiniteSubsetsOf
<1>4. tops # {}
  BY <1>2
<1>5. PICK T \in tops : \A U \in tops : ~(<<U, T>> \in StrictSubsetOrdering(S))
  BY <1>3, <1>4, FS_StrictSubsetOrderingWellFounded, WFMin
<1>6. PICK x \in S : T = above[x]
  BY <1>2, <1>5
<1>7. ASSUME NEW y \in S, y > x PROVE FALSE
  <2>1. above[y] \subseteq above[x] /\ y \in above[x] /\ y \notin above[y]
    <3>1. above[x] = {z \in S : z > x} /\ above[y] = {z \in S : z > y}
      BY <1>1
    <3>2. x \in Int /\ y \in Int /\ \A z \in S : z \in Int
      OBVIOUS
    <3>3. \A z \in S : z > y => z > x
      BY <1>7, <3>2
    <3>4. ~(y > y)
      BY <3>2
    <3> QED BY <1>7, <3>1, <3>3, <3>4
  <2>2. above[y] \in tops /\ above[x] \subseteq S
    BY <1>1, <1>2
  <2>3. <<above[y], above[x]>> \in StrictSubsetOrdering(S)
    BY <2>1, <2>2 DEF StrictSubsetOrdering
  <2> QED BY <1>5, <1>6, <2>2, <2>3
<1>8. \E z \in S : \A y \in S : z >= y
  BY <1>7
<1>9. Max(S) = CHOOSE z \in S : \A y \in S : z >= y
  BY DEF Max
<1> QED BY <1>8, <1>9

\* The number of a new version is free, and positive.
LEMMA NextNumberIsFree ==
    ASSUME versions \subseteq Versions, NEW m \in Models
    PROVE  NextNumber(m) \in Nat \ {0} /\ \A v \in RowsOf(m) : v.number # NextNumber(m)
<1>1. PICK S : S = {v.number : v \in RowsOf(m)} \cup {0}
  OBVIOUS
<1>2. S \subseteq Nat /\ S # {} /\ \A y \in S : y <= MaxNumber
  BY <1>1, BoundsAssumption DEF RowsOf, Versions, Numbers
<1>3. IsFiniteSet(S)
  BY <1>2, BoundsAssumption, FS_BoundedSetOfNaturals
<1>4. Max(S) \in S /\ \A y \in S : y <= Max(S)
  BY <1>2, <1>3, MaxOfFinite
<1>5. PICK n \in Nat : n = Max(S)
  BY <1>2, <1>4
<1>6. NextNumber(m) = 1 + n
  BY <1>1, <1>5 DEF NextNumber
<1>7. ASSUME NEW v \in RowsOf(m) PROVE v.number # NextNumber(m)
  <2>1. v.number \in S /\ v.number \in Nat /\ v.number <= n
    BY <1>1, <1>2, <1>4, <1>5
  <2> QED BY <1>6, <2>1
<1> QED BY <1>6, <1>7
----------------------------------------------------------------------------
(* Types.                                                                      *)

DepRecords == [row : Versions \cup {None}, state : {"unused", "active", "stopped", "gone"}]

\* A request that has begun knows what it is about.
Filled(r) ==
    /\ req[r].pc # "idle" => req[r].kind \in Kinds
    /\ req[r].pc \in {"lock", "put"} => req[r].model \in Models
    /\ req[r].pc = "lock" => req[r].kind = "version"
    /\ req[r].pc = "put" => req[r].kind \in {"upload", "version"}
    /\ req[r].pc = "put" => req[r].number \in Numbers
    /\ req[r].pc \in {"check", "next"} => req[r].kind = "reconcile"
    /\ (req[r].pc # "idle" /\ req[r].kind = "delete") => Row(r) \in Versions

\* TypeOK without the counters
Shape ==
    /\ models \subseteq Models /\ versions \subseteq Versions /\ objects \subseteq Objects
    /\ lock \in [Models -> Reqs \cup {None}]
    /\ dep \in [Deps -> DepRecords]
    /\ req \in [Reqs -> Requests]
    /\ \A r \in Reqs : Filled(r)

Counters ==
    /\ spared \subseteq Objects
    /\ failures \in 0 .. MaxFailures /\ outages \in 0 .. MaxOutages /\ crashes \in 0 .. MaxCrashes

LEMMA StepNames ==
    {"idle", "lock", "put", "stop", "list", "sweep", "collect", "drop", "check", "next",
     "done", "refused", "failed", "crashed"} \subseteq Steps
BY DEF Steps, Ended

LEMMA ShapeInit == Init => Shape /\ Counters
<1> SUFFICES ASSUME Init PROVE Shape /\ Counters
  OBVIOUS
<1>1. models \subseteq Models
  BY SeedAssumption DEF Init
<1>2. versions \subseteq Versions
  BY SeedAssumption, BoundsAssumption DEF Init, Versions, Numbers, Makers
<1>3. objects \subseteq Objects
  BY SeedAssumption, BoundsAssumption DEF Init, Objects, Numbers, Makers
<1>4. lock \in [Models -> Reqs \cup {None}] /\ dep \in [Deps -> DepRecords]
  BY DEF Init, Unused, DepRecords
<1>5. Idle \in Requests
  BY StepNames DEF Idle, Requests
<1>6. req \in [Reqs -> Requests]
  BY <1>5 DEF Init
<1>7. Counters
  BY BoundsAssumption DEF Init, Counters
<1>8. \A r \in Reqs : Filled(r)
  BY DEF Init, Idle, Filled
<1> QED BY <1>1, <1>2, <1>3, <1>4, <1>6, <1>7, <1>8 DEF Shape

\* The updates of a request's record
LEMMA Updates ==
    ASSUME NEW q \in Requests, NEW pc \in Steps
    PROVE  /\ [q EXCEPT !.pc = pc] \in Requests
           /\ [q EXCEPT !.pc = pc, !.left = {}, !.keys = {}, !.rows = {}, !.deps = {}, !.todo = {}]
                \in Requests
           /\ \A k \in Kinds, m \in Models :
                [q EXCEPT !.kind = k, !.pc = pc, !.model = m] \in Requests
           /\ \A k \in Kinds, m \in Models, n \in Numbers :
                [q EXCEPT !.kind = k, !.pc = pc, !.model = m, !.number = n, !.left = Files]
                  \in Requests
           /\ \A n \in Numbers : [q EXCEPT !.pc = pc, !.number = n, !.left = Files] \in Requests
           /\ \A k \in Kinds, v \in Versions :
                [q EXCEPT !.kind = k, !.pc = pc, !.model = v.model, !.number = v.number,
                          !.maker = v.maker] \in Requests
           /\ \A k \in Kinds, m \in Models, D \in SUBSET Deps :
                [q EXCEPT !.kind = k, !.pc = pc, !.model = m, !.deps = D] \in Requests
           /\ \A k \in Kinds, M \in SUBSET Models :
                [q EXCEPT !.kind = k, !.pc = pc, !.orphans = M] \in Requests
<1>1. [q EXCEPT !.pc = pc] \in Requests
  BY DEF Requests
<1>2. [q EXCEPT !.pc = pc, !.left = {}, !.keys = {}, !.rows = {}, !.deps = {}, !.todo = {}]
        \in Requests
  BY DEF Requests
<1>3. ASSUME NEW k \in Kinds, NEW m \in Models
      PROVE  [q EXCEPT !.kind = k, !.pc = pc, !.model = m] \in Requests
  BY DEF Requests
<1>4. ASSUME NEW k \in Kinds, NEW m \in Models, NEW n \in Numbers
      PROVE  [q EXCEPT !.kind = k, !.pc = pc, !.model = m, !.number = n, !.left = Files]
               \in Requests
  BY DEF Requests
<1>5. ASSUME NEW n \in Numbers
      PROVE  [q EXCEPT !.pc = pc, !.number = n, !.left = Files] \in Requests
  BY DEF Requests
<1>6. ASSUME NEW k \in Kinds, NEW v \in Versions
      PROVE  [q EXCEPT !.kind = k, !.pc = pc, !.model = v.model, !.number = v.number,
                       !.maker = v.maker] \in Requests
  BY DEF Requests, Versions
<1>7. ASSUME NEW k \in Kinds, NEW m \in Models, NEW D \in SUBSET Deps
      PROVE  [q EXCEPT !.kind = k, !.pc = pc, !.model = m, !.deps = D] \in Requests
  BY DEF Requests
<1>8. ASSUME NEW k \in Kinds, NEW M \in SUBSET Models
      PROVE  [q EXCEPT !.kind = k, !.pc = pc, !.orphans = M] \in Requests
  BY DEF Requests
<1> QED BY <1>1, <1>2, <1>3, <1>4, <1>5, <1>6, <1>7, <1>8

LEMMA GoShape ==
    ASSUME Shape, NEW r \in Reqs, NEW pc \in Steps, Go(r, pc) \/ End(r, pc)
    PROVE  /\ req' \in [Reqs -> Requests] /\ req'[r].pc = pc
           /\ req'[r].kind = req[r].kind /\ req'[r].model = req[r].model
           /\ req'[r].number = req[r].number /\ req'[r].maker = req[r].maker
           /\ \A q \in Reqs \ {r} : req'[q] = req[q]
<1>1. CASE Go(r, pc)
  BY <1>1 DEF Go, Shape, Requests
<1>2. CASE End(r, pc)
  <2>1. req' \in [Reqs -> Requests]
    BY <1>2, Updates DEF End, Shape
  <2> QED BY <1>2, <2>1 DEF End, Shape, Requests
<1> QED BY <1>1, <1>2

\* Only the record of r changes, and it stays filled.
Others(r) == \A q \in Reqs \ {r} : req'[q] = req[q]

LEMMA FilledStays ==
    ASSUME Shape, NEW r \in Reqs, Others(r), Filled(r)' PROVE \A q \in Reqs : Filled(q)'
BY DEF Others, Shape, Filled, Row

LEMMA FilledOnward ==
    ASSUME Shape, NEW r \in Reqs, req'[r].pc \notin {"lock", "put"}, req[r].pc # "idle",
           req'[r].pc \in {"check", "next"} => req[r].kind = "reconcile",
           req'[r].kind = req[r].kind, req'[r].model = req[r].model \/ req[r].kind # "delete",
           req'[r].number = req[r].number, req'[r].maker = req[r].maker
    PROVE  Filled(r)'
BY DEF Shape, Filled, Row

LEMMA GoShapes ==
    ASSUME Shape, NEW r \in Reqs, NEW pc \in Steps, Go(r, pc) \/ End(r, pc),
           pc \notin {"lock", "put", "check", "next"}, req[r].pc # "idle"
    PROVE  req' \in [Reqs -> Requests] /\ \A q \in Reqs : Filled(q)'
BY GoShape, FilledOnward, FilledStays DEF Others

LEMMA UnlockShape ==
    ASSUME Shape, NEW r \in Reqs, Unlock(r) PROVE lock' \in [Models -> Reqs \cup {None}]
BY DEF Unlock, Shape

LEMMA StartShape ==
    ASSUME Shape, NEW r \in Reqs,
           \/ \E m \in Models : StartUpload(r, m) \/ StartVersion(r, m) \/ StartPurge(r, m)
           \/ \E v \in versions : StartDelete(r, v)
           \/ StartReconcile(r)
    PROVE  Shape'
<1>0. req[r] \in Requests /\ req = [q \in Reqs |-> req[q]]
  BY DEF Shape
<1>1. ASSUME NEW m \in Models, StartUpload(r, m) PROVE Shape'
  <2>1. 1 \in Numbers /\ "upload" \in Kinds /\ "put" \in Steps
    BY BoundsAssumption, StepNames DEF Numbers, Kinds
  <2>2. req' = [req EXCEPT ![r] = [req[r] EXCEPT !.kind = "upload", !.pc = "put", !.model = m,
                                                 !.number = 1, !.left = Files]]
    BY <1>1 DEF StartUpload, Shape
  <2>3. req' \in [Reqs -> Requests]
    BY <1>0, <2>1, <2>2, Updates DEF Shape
  <2>4. Others(r) /\ Filled(r)'
    BY <1>0, <2>1, <2>2 DEF Others, Filled, Requests, Row
  <2> QED BY <1>1, <2>3, <2>4, FilledStays DEF StartUpload, Shape
<1>2. ASSUME NEW m \in Models, StartVersion(r, m) PROVE Shape'
  <2>1. "version" \in Kinds /\ "lock" \in Steps
    BY StepNames DEF Kinds
  <2>2. req' = [req EXCEPT ![r] = [req[r] EXCEPT !.kind = "version", !.pc = "lock", !.model = m]]
    BY <1>2 DEF StartVersion, Shape
  <2>3. req' \in [Reqs -> Requests]
    BY <1>0, <2>1, <2>2, Updates DEF Shape
  <2>4. Others(r) /\ Filled(r)'
    BY <1>0, <2>1, <2>2 DEF Others, Filled, Requests, Row
  <2> QED BY <1>2, <2>3, <2>4, FilledStays DEF StartVersion, Shape
<1>3. ASSUME NEW m \in Models, StartPurge(r, m) PROVE Shape'
  <2>1. ActiveOf(RowsOf(m)) \subseteq Deps
    BY DEF ActiveOf, DepsOf
  <2>2. req' \in [Reqs -> Requests]
    <3>1. "purge" \in Kinds /\ "stop" \in Steps
      BY StepNames DEF Kinds
    <3>2. req' = [req EXCEPT ![r] = [req[r] EXCEPT !.kind = "purge", !.pc = "stop", !.model = m,
                                                   !.deps = ActiveOf(RowsOf(m))]]
      BY <1>3 DEF StartPurge, Shape
    <3> QED BY <1>0, <2>1, <3>1, <3>2, Updates DEF Shape
  <2>3. Others(r) /\ Filled(r)'
    BY <1>0, <1>3 DEF StartPurge, Others, Filled, Requests, Row, Kinds
  <2> QED BY <1>3, <2>2, <2>3, FilledStays DEF StartPurge, Shape
<1>4. ASSUME NEW v \in versions, StartDelete(r, v) PROVE Shape'
  <2>1. PICK pc \in Steps : pc = IF ActiveOf({v}) = {} THEN "list" ELSE "refused"
    BY StepNames
  <2>2. "delete" \in Kinds /\ v \in Versions
    BY DEF Kinds, Shape
  <2>3. req' = [req EXCEPT ![r] = [req[r] EXCEPT !.kind = "delete", !.pc = pc, !.model = v.model,
                                                 !.number = v.number, !.maker = v.maker]]
    BY <1>4, <2>1 DEF StartDelete, Shape
  <2>4. req' \in [Reqs -> Requests]
    BY <1>0, <2>1, <2>2, <2>3, Updates DEF Shape
  <2>5. Others(r) /\ req'[r].kind = "delete" /\ req'[r].pc \in {"list", "refused"}
        /\ req'[r].model = v.model /\ req'[r].number = v.number /\ req'[r].maker = v.maker
    BY <1>0, <2>1, <2>3 DEF Others, Requests
  <2>6. Filled(r)'
    BY <2>2, <2>5 DEF Filled, Row, Versions
  <2> QED BY <1>4, <2>4, <2>5, <2>6, FilledStays DEF StartDelete, Shape
<1>5. CASE StartReconcile(r)
  <2>1. {o.model : o \in objects} \subseteq Models
    BY DEF Shape, Objects
  <2>2. req' \in [Reqs -> Requests]
    <3>1. "reconcile" \in Kinds /\ "check" \in Steps
      BY StepNames DEF Kinds
    <3>2. req' = [req EXCEPT ![r] = [req[r] EXCEPT !.kind = "reconcile", !.pc = "check",
                                                   !.orphans = {o.model : o \in objects}]]
      BY <1>5 DEF StartReconcile, Shape
    <3> QED BY <1>0, <2>1, <3>1, <3>2, Updates DEF Shape
  <2>3. Others(r) /\ Filled(r)'
    BY <1>0, <1>5 DEF StartReconcile, Others, Filled, Requests, Row, Kinds
  <2> QED BY <1>5, <2>2, <2>3, FilledStays DEF StartReconcile, Shape
<1> QED BY <1>1, <1>2, <1>3, <1>4, <1>5

LEMMA UploadShape == ASSUME Shape, NEW r \in Reqs, UploadStep(r) PROVE Shape'
<1>0. req[r] \in Requests /\ Filled(r)
  BY DEF Shape
<1>1. ASSUME NEW f \in Files, Put(r, f) PROVE Shape'
  <2>1. req[r].model \in Models /\ req[r].number \in Numbers
    BY <1>0, <1>1 DEF Put, Filled
  <2>2. [model |-> req[r].model, number |-> req[r].number, file |-> f, by |-> r] \in Objects
    BY <2>1 DEF Objects, Makers
  <2>3. objects' \subseteq Objects
    BY <1>1, <2>2 DEF Put, Shape
  <2>4. req' \in [Reqs -> Requests]
    BY <1>1 DEF Put, Shape, Requests
  <2>5. Others(r) /\ Filled(r)'
    BY <1>0, <1>1 DEF Put, Others, Shape, Filled, Row, Requests
  <2> QED BY <1>1, <2>3, <2>4, <2>5, FilledStays DEF Put, Shape
<1>2. CASE LockModel(r)
  <2>1. PICK m \in Models : m = req[r].model
    BY <1>0, <1>2 DEF LockModel, Filled
  <2>2. PICK n : n = NextNumber(m)
    OBVIOUS
  <2>3. n \in Numbers
    BY <1>2, <2>1, <2>2, NextNumberIsFree, BoundsAssumption DEF LockModel, Shape, Numbers
  <2>4. req' = [req EXCEPT ![r] = [req[r] EXCEPT !.pc = "put", !.number = n, !.left = Files]]
    BY <1>2, <2>1, <2>2 DEF LockModel, Shape
  <2>5. req' \in [Reqs -> Requests]
    BY <1>0, <2>3, <2>4, StepNames, Updates DEF Shape
  <2>6. lock' \in [Models -> Reqs \cup {None}]
    BY <1>2 DEF LockModel, Shape
  <2>7. /\ Others(r) /\ req'[r].kind = req[r].kind /\ req'[r].model = m
        /\ req'[r].number = n /\ req'[r].pc = "put"
    BY <1>0, <2>1, <2>4 DEF Others, Requests, Shape
  <2>8. req[r].kind = "version" /\ req[r].pc = "lock"
    BY <1>0, <1>2 DEF LockModel, Filled
  <2>9. Filled(r)'
    BY <2>3, <2>7, <2>8 DEF Filled, Kinds
  <2> QED BY <1>2, <2>5, <2>6, <2>7, <2>9, FilledStays DEF LockModel, Shape
<1>3. CASE LockModelGone(r)
  BY <1>3, GoShapes, StepNames DEF LockModelGone, Shape
<1>4. CASE FailUpload(r)
  <2>1. Go(r, "list") \/ End(r, "failed")
    BY <1>4 DEF FailUpload
  <2> QED BY <1>4, <2>1, GoShapes, StepNames, UnlockShape DEF FailUpload, Shape
<1>5. CASE CreateModel(r)
  <2>1. req[r].model \in Models
    BY <1>0, <1>5 DEF CreateModel, Filled
  <2>2. [model |-> req[r].model, number |-> 1, maker |-> r] \in Versions
    BY <2>1, BoundsAssumption DEF Versions, Numbers, Makers
  <2> QED BY <1>5, <2>1, <2>2, GoShapes, StepNames DEF CreateModel, Shape
<1>6. CASE CreateModelRefused(r)
  BY <1>6, GoShapes, StepNames DEF CreateModelRefused, Shape
<1>7. CASE CreateVersion(r)
  <2>1. req[r].model \in Models /\ req[r].number \in Numbers
    BY <1>0, <1>7 DEF CreateVersion, Filled
  <2>2. [model |-> req[r].model, number |-> req[r].number, maker |-> r] \in Versions
    BY <2>1 DEF Versions, Makers
  <2>3. Go(r, "list") \/ End(r, "done")
    BY <1>7 DEF CreateVersion
  <2>4. versions' \subseteq Versions
    BY <1>7, <2>2 DEF CreateVersion, Shape
  <2> QED BY <1>7, <2>3, <2>4, GoShapes, StepNames, UnlockShape DEF CreateVersion, Shape
<1> QED BY <1>1, <1>2, <1>3, <1>4, <1>5, <1>6, <1>7, StartShape DEF UploadStep

\* The steps that touch the record of r in fields of its work only
LEMMA WorkShape ==
    ASSUME Shape, NEW r \in Reqs, NEW pc \in Steps, pc \notin {"lock", "put"},
           pc \in {"check", "next"} => req[r].kind = "reconcile",
           req[r].pc # "idle", NEW c \in Requests, req' = [req EXCEPT ![r] = c],
           c.pc = pc, c.kind = req[r].kind, c.number = req[r].number, c.maker = req[r].maker,
           c.model = req[r].model \/ req[r].kind # "delete"
    PROVE  req' \in [Reqs -> Requests] /\ \A q \in Reqs : Filled(q)'
<1>1. req' \in [Reqs -> Requests] /\ Others(r) /\ req'[r] = c
  BY DEF Shape, Others
<1> QED BY <1>1, FilledOnward, FilledStays

LEMMA WorkUpdates ==
    ASSUME NEW q \in Requests, NEW pc \in Steps
    PROVE  /\ \A D \in SUBSET Deps : [q EXCEPT !.deps = D] \in Requests
           /\ \A K \in SUBSET Keys : [q EXCEPT !.pc = pc, !.keys = K] \in Requests
           /\ \A R \in SUBSET Versions, D \in SUBSET Deps :
                [q EXCEPT !.pc = pc, !.rows = R, !.deps = D] \in Requests
           /\ \A M, N \in SUBSET Models :
                [q EXCEPT !.pc = pc, !.orphans = M, !.todo = N] \in Requests
           /\ \A m \in Models, N \in SUBSET Models :
                [q EXCEPT !.pc = pc, !.model = m, !.todo = N] \in Requests
<1>1. ASSUME NEW D \in SUBSET Deps PROVE [q EXCEPT !.deps = D] \in Requests
  BY DEF Requests
<1>2. ASSUME NEW K \in SUBSET Keys PROVE [q EXCEPT !.pc = pc, !.keys = K] \in Requests
  BY DEF Requests
<1>3. ASSUME NEW R \in SUBSET Versions, NEW D \in SUBSET Deps
      PROVE  [q EXCEPT !.pc = pc, !.rows = R, !.deps = D] \in Requests
  BY DEF Requests
<1>4. ASSUME NEW M \in SUBSET Models, NEW N \in SUBSET Models
      PROVE  [q EXCEPT !.pc = pc, !.orphans = M, !.todo = N] \in Requests
  BY DEF Requests
<1>5. ASSUME NEW m \in Models, NEW N \in SUBSET Models
      PROVE  [q EXCEPT !.pc = pc, !.model = m, !.todo = N] \in Requests
  BY DEF Requests
<1> QED BY <1>1, <1>2, <1>3, <1>4, <1>5

LEMMA AfterSweepIs ==
    ASSUME Shape, NEW r \in Reqs, req[r].pc # "idle"
    PROVE  /\ AfterSweep(r) \in {"failed", "collect", "next"}
           /\ AfterSweep(r) = "next" => req[r].kind = "reconcile"
<1>1. req[r].kind \in Kinds
  BY DEF Shape, Filled
<1>2. CASE req[r].kind \in {"upload", "version"}
  BY <1>2 DEF AfterSweep
<1>3. CASE req[r].kind \in {"delete", "purge"}
  BY <1>3 DEF AfterSweep
<1>4. CASE req[r].kind = "reconcile"
  BY <1>4 DEF AfterSweep
<1> QED BY <1>1, <1>2, <1>3, <1>4 DEF Kinds

\* Both ways to delete what was listed
Sweeping(r) == req[r].pc = "sweep" /\ \E gone \in SUBSET req[r].keys : Remove(r, gone)

LEMMA BothSweep == ASSUME NEW r \in Reqs, Sweep(r) \/ SweepPartly(r) PROVE Sweeping(r)
BY DEF Sweep, SweepPartly, Sweeping

LEMMA DeletionShape == ASSUME Shape, NEW r \in Reqs, DeletionStep(r) PROVE Shape'
<1>0. req[r] \in Requests /\ Filled(r)
  BY DEF Shape
<1>1. CASE StopNext(r)
  <2>1. CASE End(r, "failed") /\ dep' = dep
    BY <1>1, <2>1, GoShapes, StepNames DEF StopNext, Shape
  <2>2. CASE Go(r, "list") /\ dep' = dep
    BY <1>1, <2>2, GoShapes, StepNames DEF StopNext, Shape
  <2>3. CASE \E d \in req[r].deps : /\ dep' = [dep EXCEPT ![d].state = "stopped"]
                                    /\ req' = [req EXCEPT ![r].deps = @ \ {d}]
    <3>1. PICK d \in req[r].deps : /\ dep' = [dep EXCEPT ![d].state = "stopped"]
                                   /\ req' = [req EXCEPT ![r].deps = @ \ {d}]
      BY <2>3
    <3>2. d \in Deps /\ req[r].deps \ {d} \in SUBSET Deps
      BY <1>0 DEF Requests
    <3>3. dep' \in [Deps -> DepRecords]
      BY <3>1, <3>2 DEF Shape, DepRecords
    <3>4. PICK c : c = [req[r] EXCEPT !.deps = req[r].deps \ {d}]
      OBVIOUS
    <3>5. /\ c \in Requests /\ c.pc = "stop" /\ c.kind = req[r].kind /\ c.model = req[r].model
          /\ c.number = req[r].number /\ c.maker = req[r].maker
      <4>1. c \in Requests
        BY <1>0, <3>2, <3>4, WorkUpdates, StepNames
      <4> QED BY <1>0, <1>1, <3>4, <4>1 DEF StopNext, Requests
    <3>6. req' = [req EXCEPT ![r] = c]
      BY <3>1, <3>4 DEF Shape
    <3>7. req' \in [Reqs -> Requests] /\ \A q \in Reqs : Filled(q)'
      BY <1>1, <3>5, <3>6, WorkShape, StepNames DEF StopNext
    <3> QED BY <1>1, <3>3, <3>7 DEF StopNext, Shape
  <2> QED BY <1>1, <2>1, <2>2, <2>3 DEF StopNext
<1>2. CASE List(r)
  <2>1. Prefix(r) \subseteq Keys
    BY DEF Prefix, KeyOf, Shape, Objects, Keys
  <2>2. PICK c : c = [req[r] EXCEPT !.pc = "sweep", !.keys = Prefix(r)]
    OBVIOUS
  <2>3. c \in Requests
    BY <1>0, <2>1, <2>2, WorkUpdates, StepNames
  <2>4. /\ c.pc = "sweep" /\ c.kind = req[r].kind /\ c.model = req[r].model
        /\ c.number = req[r].number /\ c.maker = req[r].maker
    BY <1>0, <2>2 DEF Requests
  <2>5. req' = [req EXCEPT ![r] = c]
    BY <1>2, <2>2 DEF List, Shape
  <2>6. req' \in [Reqs -> Requests] /\ \A q \in Reqs : Filled(q)'
    BY ZenonT(60), <1>2, <2>3, <2>4, <2>5, WorkShape, StepNames DEF List
  <2> QED BY <1>2, <2>6 DEF List, Shape
<1>3. CASE Sweeping(r)
  <2>1. PICK pc \in {"failed", "collect", "next"} : pc = AfterSweep(r)
    BY <1>3, AfterSweepIs DEF Sweeping, Remove
  <2>0. /\ pc \in Steps /\ pc \notin {"lock", "put", "check"}
        /\ pc = "next" => req[r].kind = "reconcile"
    BY <1>3, <2>1, AfterSweepIs, StepNames DEF Sweeping, Remove
  <2>2. PICK c : c = [req[r] EXCEPT !.pc = pc, !.keys = {}]
    OBVIOUS
  <2>3. c \in Requests
    BY <1>0, <2>0, <2>2, WorkUpdates
  <2>4. /\ c.pc = pc /\ c.kind = req[r].kind /\ c.model = req[r].model
        /\ c.number = req[r].number /\ c.maker = req[r].maker
    BY <1>0, <2>2 DEF Requests
  <2>5. req' = [req EXCEPT ![r] = c]
    BY <1>3, <2>1, <2>2 DEF Sweeping, Remove, Shape
  <2>6. req' \in [Reqs -> Requests] /\ \A q \in Reqs : Filled(q)'
    BY <1>3, <2>0, <2>3, <2>4, <2>5, WorkShape DEF Sweeping, Remove
  <2> QED BY <1>3, <2>6 DEF Sweeping, Remove, Shape
<1>4. CASE SweepFails(r)
  BY <1>4, GoShapes, StepNames DEF SweepFails, Shape
<1>5. CASE Collect(r)
  <2>1. PICK R \in SUBSET Versions :
          R = IF req[r].kind = "delete" THEN {Row(r)} ELSE RowsOf(req[r].model)
    BY <1>0, <1>5 DEF Collect, Filled, RowsOf, Shape
  <2>2. DepsOf(R) \subseteq Deps
    BY DEF DepsOf
  <2>3. PICK c : c = [req[r] EXCEPT !.pc = "drop", !.rows = R, !.deps = DepsOf(R)]
    OBVIOUS
  <2>4. c \in Requests
    BY <1>0, <2>2, <2>3, WorkUpdates, StepNames
  <2>5. /\ c.pc = "drop" /\ c.kind = req[r].kind /\ c.model = req[r].model
        /\ c.number = req[r].number /\ c.maker = req[r].maker
    BY <1>0, <2>3 DEF Requests
  <2>6. req' = [req EXCEPT ![r] = c]
    BY <1>5, <2>1, <2>3 DEF Collect, Shape
  <2>7. req' \in [Reqs -> Requests] /\ \A q \in Reqs : Filled(q)'
    BY ZenonT(60), <1>5, <2>4, <2>5, <2>6, WorkShape, StepNames DEF Collect
  <2> QED BY <1>5, <2>7 DEF Collect, Shape
<1>6. CASE Drop(r)
  <2>1. dep' \in [Deps -> DepRecords]
    BY <1>6 DEF Drop, Shape, DepRecords
  <2>2. versions' \subseteq Versions /\ models' \subseteq Models
    BY <1>6 DEF Drop, Shape
  <2> QED BY <1>6, <2>1, <2>2, GoShapes, StepNames DEF Drop, Shape
<1>7. CASE DropFails(r)
  BY <1>7, GoShapes, StepNames DEF DropFails, Shape
<1> QED BY <1>1, <1>2, <1>3, <1>4, <1>5, <1>6, <1>7, StartShape, BothSweep DEF DeletionStep

LEMMA ReconcileShape == ASSUME Shape, NEW r \in Reqs, ReconcileStep(r) PROVE Shape'
<1>0. req[r] \in Requests /\ Filled(r)
  BY DEF Shape
<1>1. CASE Check(r)
  <2>1. PICK M \in SUBSET Models : M = req[r].orphans \ models
    BY <1>0 DEF Requests
  <2>2. PICK c : c = [req[r] EXCEPT !.pc = "next", !.orphans = M, !.todo = M]
    OBVIOUS
  <2>3. c \in Requests
    BY <1>0, <2>1, <2>2, WorkUpdates, StepNames
  <2>4. /\ c.pc = "next" /\ c.kind = req[r].kind /\ c.model = req[r].model
        /\ c.number = req[r].number /\ c.maker = req[r].maker
    BY <1>0, <2>2 DEF Requests
  <2>5. req' = [req EXCEPT ![r] = c]
    BY <1>1, <2>1, <2>2 DEF Check, Shape
  <2>6. req' \in [Reqs -> Requests] /\ \A q \in Reqs : Filled(q)'
    BY ZenonT(60), <1>0, <1>1, <2>3, <2>4, <2>5, WorkShape, StepNames DEF Check, Filled
  <2> QED BY <1>1, <2>6 DEF Check, Shape
<1>2. CASE NextOrphan(r)
  <2>1. CASE End(r, "done")
    BY <1>2, <2>1, GoShapes, StepNames DEF NextOrphan, Shape
  <2>2. CASE \E m \in req[r].todo :
               req' = [req EXCEPT ![r].pc = "list", ![r].model = m, ![r].todo = @ \ {m}]
    <3>1. PICK m \in req[r].todo :
            req' = [req EXCEPT ![r].pc = "list", ![r].model = m, ![r].todo = @ \ {m}]
      BY <2>2
    <3>2. m \in Models /\ req[r].todo \ {m} \in SUBSET Models
      BY <1>0 DEF Requests
    <3>3. PICK c : c = [req[r] EXCEPT !.pc = "list", !.model = m, !.todo = req[r].todo \ {m}]
      OBVIOUS
    <3>4. c \in Requests
      BY <1>0, <3>2, <3>3, WorkUpdates, StepNames
    <3>5. /\ c.pc = "list" /\ c.kind = req[r].kind
          /\ c.number = req[r].number /\ c.maker = req[r].maker
      BY <1>0, <3>3 DEF Requests
    <3>6. req' = [req EXCEPT ![r] = c]
      BY <3>1, <3>3 DEF Shape
    <3>7. req[r].pc = "next" /\ req[r].kind = "reconcile"
      BY <1>0, <1>2 DEF NextOrphan, Filled
    <3>8. req' \in [Reqs -> Requests] /\ \A q \in Reqs : Filled(q)'
      BY <3>4, <3>5, <3>6, <3>7, WorkShape, StepNames
    <3> QED BY <1>2, <3>8 DEF NextOrphan, Shape
  <2> QED BY <1>2, <2>1, <2>2 DEF NextOrphan
<1> QED BY <1>1, <1>2, StartShape DEF ReconcileStep

LEMMA ElseShape ==
    ASSUME Shape
    PROVE  /\ \A r \in Reqs : Crash(r) => Shape'
           /\ \A d \in Deps : StopDeployment(d) => Shape'
           /\ \A d \in Deps : \A v \in versions : Deploy(d, v) => Shape'
<1>1. ASSUME NEW r \in Reqs, Crash(r) PROVE Shape'
  BY <1>1, GoShapes, StepNames, UnlockShape DEF Crash, Shape
<1>2. ASSUME NEW d \in Deps, StopDeployment(d) PROVE Shape'
  <2>1. dep' \in [Deps -> DepRecords]
    BY <1>2 DEF StopDeployment, Shape, DepRecords
  <2> QED BY <1>2, <2>1 DEF StopDeployment, Shape, Filled, Row
<1>3. ASSUME NEW d \in Deps, NEW v \in versions, Deploy(d, v) PROVE Shape'
  <2>1. [row |-> v, state |-> "active"] \in DepRecords
    BY DEF DepRecords, Shape
  <2>2. dep' \in [Deps -> DepRecords]
    BY <1>3, <2>1 DEF Deploy, Shape
  <2> QED BY <1>3, <2>2 DEF Deploy, Shape, Filled, Row
<1> QED BY <1>1, <1>2, <1>3

LEMMA ShapeNext == Shape /\ [Next]_vars => Shape'
<1> SUFFICES ASSUME Shape, [Next]_vars PROVE Shape'
  OBVIOUS
<1>1. CASE UNCHANGED vars
  BY <1>1 DEF vars, Shape, Filled, Row
<1> QED BY <1>1, UploadShape, DeletionShape, ReconcileShape, ElseShape DEF Next

LEMMA CountersNext == Shape /\ Counters /\ [Next]_vars => Counters'
<1> SUFFICES ASSUME Shape, Counters, [Next]_vars PROVE Counters'
  OBVIOUS
<1>1. ASSUME NEW r \in Reqs, UploadStep(r) PROVE Counters'
  <2>1. CASE FailUpload(r)
    BY <2>1, BoundsAssumption DEF FailUpload, Counters
  <2>2. CASE ~FailUpload(r)
    <3>1. ASSUME NEW m \in Models, StartUpload(r, m) \/ StartVersion(r, m)
          PROVE UNCHANGED counters
      BY <3>1 DEF StartUpload, StartVersion
    <3>2. ASSUME NEW f \in Files, Put(r, f) PROVE UNCHANGED counters
      BY <3>2 DEF Put
    <3>3. CASE LockModel(r) \/ LockModelGone(r)
      BY <3>3 DEF LockModel, LockModelGone, Counters, counters
    <3>4. CASE CreateModel(r) \/ CreateModelRefused(r) \/ CreateVersion(r)
      BY <3>4 DEF CreateModel, CreateModelRefused, CreateVersion, Counters, counters
    <3> QED BY <1>1, <2>2, <3>1, <3>2, <3>3, <3>4 DEF UploadStep, Counters, counters
  <2> QED BY <2>1, <2>2
<1>2. ASSUME NEW r \in Reqs, DeletionStep(r) PROVE Counters'
  <2>1. CASE SweepFails(r)
    BY <2>1, BoundsAssumption DEF SweepFails, Counters, Shape
  <2>2. CASE StopNext(r) \/ List(r)
    BY <2>2 DEF StopNext, List, Counters, counters
  <2>6. CASE Sweep(r) \/ SweepPartly(r)
    <3>1. spared' \subseteq Objects /\ UNCHANGED <<failures, crashes>>
      BY <2>6, BothSweep DEF Sweeping, Remove, Counters, Shape
    <3>2. outages' \in 0 .. MaxOutages
      BY <2>6, BoundsAssumption DEF Sweep, SweepPartly, Counters
    <3> QED BY <3>1, <3>2 DEF Counters
  <2>3. CASE Collect(r) \/ Drop(r) \/ DropFails(r)
    BY <2>3 DEF Collect, Drop, DropFails, Counters, counters
  <2>4. ASSUME NEW v \in versions, StartDelete(r, v) PROVE UNCHANGED counters
    BY <2>4 DEF StartDelete
  <2>5. ASSUME NEW m \in Models, StartPurge(r, m) PROVE UNCHANGED counters
    BY <2>5 DEF StartPurge
  <2> QED BY <1>2, <2>1, <2>2, <2>3, <2>4, <2>5, <2>6 DEF DeletionStep, Counters, counters
<1>3. ASSUME NEW r \in Reqs, ReconcileStep(r) \/ Crash(r) PROVE Counters'
  <2>1. CASE Crash(r)
    BY <2>1, BoundsAssumption DEF Crash, Counters
  <2>2. CASE StartReconcile(r) \/ Check(r) \/ NextOrphan(r)
    BY <2>2 DEF StartReconcile, Check, NextOrphan, Counters, counters
  <2> QED BY <1>3, <2>1, <2>2 DEF ReconcileStep
<1>4. ASSUME NEW d \in Deps, StopDeployment(d) \/ \E v \in versions : Deploy(d, v)
      PROVE  Counters'
  BY <1>4 DEF StopDeployment, Deploy, Counters, counters
<1>5. CASE UNCHANGED vars
  BY <1>5 DEF vars, Counters
<1> QED BY <1>1, <1>2, <1>3, <1>4, <1>5 DEF Next

\* Every reachable state is well typed; version numbers stay in their range.
THEOREM TypeCorrect == Spec => []TypeOK
<1>1. Shape /\ Counters => TypeOK
  BY DEF Shape, Counters, TypeOK, DepRecords
<1> QED BY <1>1, ShapeInit, ShapeNext, CountersNext, PTL DEF Spec
----------------------------------------------------------------------------
(* Exclusive uploads.                                                          *)

Uploading(r)  == req[r].kind = "upload" /\ req[r].pc = "put"
Versioning(r) == req[r].kind = "version" /\ req[r].pc = "put"

\* A new version is stored under the model's lock and a number no row has.
LockedFor(r) == Versioning(r) => lock[req[r].model] = r /\ ~NumberTaken(r)

\* The id of a model being uploaded is nobody else's.
FreshFor(r) ==
    Uploading(r) =>
        /\ req[r].number = 1
        /\ req[r].model \notin Seeded \cup models
        /\ \A q \in Reqs \ {r} : req[q].kind # "reconcile" => req[q].model # req[r].model

\* Rows come from uploads that are over.
Made(v) ==
    \/ v.maker = Seed /\ v.model \in Seeded
    \/ /\ v.maker \in Reqs /\ req[v.maker].kind \in {"upload", "version"}
       /\ req[v.maker].pc = "done" /\ req[v.maker].model = v.model
MadeModel(m) ==
    \/ m \in Seeded
    \/ \E q \in Reqs : req[q].kind = "upload" /\ req[q].pc = "done" /\ req[q].model = m

Exclusive ==
    /\ \A r \in Reqs : LockedFor(r) /\ FreshFor(r)
    /\ \A v \in versions : Made(v)
    /\ \A m \in models : MadeModel(m)

LEMMA ExclusiveInit == Init => Exclusive
<1> SUFFICES ASSUME Init PROVE Exclusive
  OBVIOUS
<1>1. \A r \in Reqs : req[r].pc = "idle"
  BY DEF Init, Idle
<1>2. \A v \in versions : Made(v)
  BY DEF Init, Made
<1>3. \A m \in models : MadeModel(m)
  BY DEF Init, MadeModel
<1> QED BY <1>1, <1>2, <1>3 DEF Exclusive, LockedFor, FreshFor, Versioning, Uploading

\* A step of r that makes no row and begins no storing
LEMMA QuietKeepsExclusive ==
    ASSUME Shape, Exclusive, NEW r \in Reqs, Others(r),
           \A m \in Models : lock[m] \in Reqs \ {r} => lock'[m] = lock[m],
           versions' \subseteq versions, models' \subseteq models, req[r].pc \notin Ended,
           \A q \in Reqs \ {r} :
               Uploading(q) /\ req'[r].kind # "reconcile" => req'[r].model # req[q].model,
           req'[r].pc = "put" =>
               /\ req[r].pc = "put" /\ lock' = lock /\ req'[r].kind = req[r].kind
               /\ req'[r].model = req[r].model /\ req'[r].number = req[r].number
    PROVE  Exclusive'
<1>1. ASSUME NEW q \in Reqs \ {r} PROVE LockedFor(q)' /\ FreshFor(q)'
  <2>1. req'[q] = req[q] /\ LockedFor(q) /\ FreshFor(q) /\ Filled(q)
    BY DEF Others, Exclusive, Shape
  <2>2. LockedFor(q)'
    BY <2>1 DEF LockedFor, Versioning, NumberTaken, Filled
  <2>3. FreshFor(q)'
    BY <2>1 DEF FreshFor, Uploading, Others
  <2> QED BY <2>2, <2>3
<1>2. LockedFor(r)'
  BY DEF Exclusive, LockedFor, Versioning, NumberTaken
<1>3. FreshFor(r)'
  BY DEF Exclusive, FreshFor, Uploading, Others
<1>4. ASSUME NEW v \in versions' PROVE Made(v)'
  <2>1. Made(v)
    BY DEF Exclusive
  <2> QED BY <2>1 DEF Made, Others, Ended
<1>5. ASSUME NEW m \in models' PROVE MadeModel(m)'
  <2>1. MadeModel(m)
    BY DEF Exclusive
  <2> QED BY <2>1 DEF MadeModel, Others, Ended
<1> QED BY <1>1, <1>2, <1>3, <1>4, <1>5 DEF Exclusive

\* The same, when r keeps to its kind and model
LEMMA SteadyKeepsExclusive ==
    ASSUME Shape, Exclusive, NEW r \in Reqs, Others(r),
           \A m \in Models : lock[m] \in Reqs \ {r} => lock'[m] = lock[m],
           versions' \subseteq versions, models' \subseteq models,
           req[r].pc \notin Ended \cup {"idle"}, req'[r].pc # "put",
           req'[r].kind = req[r].kind,
           req'[r].model = req[r].model \/ req[r].kind = "reconcile"
    PROVE  Exclusive'
<1>1. ASSUME NEW q \in Reqs \ {r}, Uploading(q), req'[r].kind # "reconcile"
      PROVE  req'[r].model # req[q].model
  BY <1>1 DEF Exclusive, FreshFor
<1> QED BY <1>1, QuietKeepsExclusive

LEMMA UnlockKeeps ==
    ASSUME Shape, NEW r \in Reqs, Unlock(r)
    PROVE  \A m \in Models : lock[m] \in Reqs \ {r} => lock'[m] = lock[m]
BY DEF Unlock

LEMMA GoKeepsExclusive ==
    ASSUME Shape, Exclusive, NEW r \in Reqs, NEW pc \in Steps, Go(r, pc) \/ End(r, pc),
           pc # "put", req[r].pc \notin Ended \cup {"idle"},
           \A m \in Models : lock[m] \in Reqs \ {r} => lock'[m] = lock[m],
           versions' \subseteq versions, models' \subseteq models
    PROVE  Exclusive'
BY GoShape, SteadyKeepsExclusive DEF Others

LEMMA StartKeepsExclusive ==
    ASSUME Shape, Exclusive, NEW r \in Reqs,
           \/ \E m \in Models : StartUpload(r, m) \/ StartVersion(r, m) \/ StartPurge(r, m)
           \/ \E v \in versions : StartDelete(r, v)
           \/ StartReconcile(r)
    PROVE  Exclusive'
<1>r. req[r] \in Requests /\ req = [q \in Reqs |-> req[q]]
  BY DEF Shape
<1>0. ASSUME NEW q \in Reqs, Uploading(q)
      PROVE  req[q].model \notin models /\ \A v \in versions : v.model # req[q].model
  <2>1. req[q].model \notin Seeded \cup models
    BY <1>0 DEF Exclusive, FreshFor
  <2>2. ASSUME NEW v \in versions, v.model = req[q].model PROVE FALSE
    <3>1. v.maker \in Reqs /\ req[v.maker].kind \in {"upload", "version"}
          /\ req[v.maker].pc = "done" /\ req[v.maker].model = v.model
      BY <2>1, <2>2 DEF Exclusive, Made
    <3>2. v.maker # q
      BY <1>0, <3>1 DEF Uploading
    <3> QED BY <1>0, <2>2, <3>1, <3>2 DEF Exclusive, FreshFor
  <2> QED BY <2>1, <2>2
<1>1. ASSUME NEW m \in Models, StartUpload(r, m) PROVE Exclusive'
  <2>1. /\ Others(r) /\ req'[r].kind = "upload" /\ req'[r].pc = "put" /\ req'[r].model = m
        /\ req'[r].number = 1 /\ req[r].pc = "idle" /\ UNCHANGED <<models, versions, lock>>
    BY ZenonT(60), <1>1 DEF StartUpload, Others, Shape, Requests
  <2>2. m \notin Seeded /\ \A q \in Reqs : req[q].model # m
    BY <1>1 DEF StartUpload
  <2>3. m \notin models
    BY <2>2 DEF Exclusive, MadeModel
  <2>4. ASSUME NEW q \in Reqs \ {r} PROVE LockedFor(q)' /\ FreshFor(q)'
    <3>1. req'[q] = req[q] /\ LockedFor(q) /\ FreshFor(q)
      BY <2>1 DEF Others, Exclusive
    <3>2. LockedFor(q)'
      BY <2>1, <3>1 DEF LockedFor, Versioning, NumberTaken
    <3>3. FreshFor(q)'
      BY <2>1, <2>2, <3>1 DEF FreshFor, Uploading, Others
    <3> QED BY <3>2, <3>3
  <2>5. LockedFor(r)' /\ FreshFor(r)'
    BY <2>1, <2>2, <2>3 DEF LockedFor, Versioning, FreshFor, Uploading, Others
  <2>6. (\A v \in versions : Made(v)') /\ (\A n \in models : MadeModel(n)')
    BY <2>1 DEF Exclusive, Made, MadeModel, Others
  <2> QED BY <2>1, <2>4, <2>5, <2>6 DEF Exclusive
<1>2. ASSUME NEW m \in Models, StartVersion(r, m) \/ StartPurge(r, m) PROVE Exclusive'
  <2>1. Others(r) /\ req'[r].pc # "put" /\ req'[r].model = m
    <3>1. CASE StartVersion(r, m)
      <4>1. req' = [req EXCEPT ![r] = [req[r] EXCEPT !.kind = "version", !.pc = "lock", !.model = m]]
        BY <3>1 DEF StartVersion, Shape
      <4> QED BY <1>r, <4>1 DEF Others, Requests, Shape
    <3>2. CASE StartPurge(r, m)
      <4>1. req' = [req EXCEPT ![r] = [req[r] EXCEPT !.kind = "purge", !.pc = "stop", !.model = m,
                                                     !.deps = ActiveOf(RowsOf(m))]]
        BY <3>2 DEF StartPurge, Shape
      <4> QED BY <1>r, <4>1 DEF Others, Requests, Shape
    <3> QED BY <1>2, <3>1, <3>2
  <2>2. m \in models /\ req[r].pc = "idle" /\ UNCHANGED <<models, versions, lock>>
    BY <1>2 DEF StartVersion, StartPurge
  <2> QED BY <1>0, <2>1, <2>2, QuietKeepsExclusive DEF Ended
<1>3. ASSUME NEW v \in versions, StartDelete(r, v) PROVE Exclusive'
  <2>1. PICK pc : pc = IF ActiveOf({v}) = {} THEN "list" ELSE "refused"
    OBVIOUS
  <2>2. req' = [req EXCEPT ![r] = [req[r] EXCEPT !.kind = "delete", !.pc = pc, !.model = v.model,
                                                 !.number = v.number, !.maker = v.maker]]
    BY <1>3, <2>1 DEF StartDelete, Shape
  <2>3. Others(r) /\ req'[r].pc = pc /\ req'[r].model = v.model
    BY <1>r, <2>2 DEF Others, Requests, Shape
  <2>4. pc # "put" /\ req[r].pc = "idle" /\ UNCHANGED <<models, versions, lock>>
    BY <1>3, <2>1 DEF StartDelete
  <2> QED BY <1>0, <2>3, <2>4, QuietKeepsExclusive DEF Ended
<1>4. CASE StartReconcile(r)
  <2>1. /\ Others(r) /\ req'[r].pc # "put" /\ req'[r].kind = "reconcile"
        /\ req[r].pc = "idle" /\ UNCHANGED <<models, versions, lock>>
    BY <1>4 DEF StartReconcile, Others, Shape, Requests
  <2> QED BY <2>1, QuietKeepsExclusive DEF Ended
<1> QED BY <1>1, <1>2, <1>3, <1>4

\* The steps that touch the record of r in fields of its work only
LEMMA WorkKeepsExclusive ==
    ASSUME Shape, Exclusive, NEW r \in Reqs, NEW c, req' = [req EXCEPT ![r] = c],
           c.pc # "put", c.kind = req[r].kind,
           c.model = req[r].model \/ req[r].kind = "reconcile",
           req[r].pc \notin Ended \cup {"idle"}, UNCHANGED <<models, versions, lock>>
    PROVE  Exclusive'
<1>1. Others(r) /\ req'[r] = c
  BY DEF Shape, Others
<1> QED BY <1>1, SteadyKeepsExclusive

\* A number taken under the lock is free, and no other upload holds the lock.
LEMMA LockKeepsExclusive ==
    ASSUME Shape, Exclusive, NEW r \in Reqs, LockModel(r) PROVE Exclusive'
<1>0. req[r] \in Requests /\ Filled(r)
  BY DEF Shape
<1>1. PICK m \in Models : m = req[r].model
  BY <1>0 DEF LockModel, Filled
<1>2. PICK n : n = NextNumber(m)
  OBVIOUS
<1>3. req' = [req EXCEPT ![r] = [req[r] EXCEPT !.pc = "put", !.number = n, !.left = Files]]
  BY <1>1, <1>2 DEF LockModel, Shape
<1>4. /\ Others(r) /\ req'[r].kind = req[r].kind /\ req'[r].model = m
      /\ req'[r].number = n /\ req'[r].pc = "put"
  BY <1>0, <1>1, <1>3 DEF Others, Requests, Shape
<1>5. req[r].kind = "version" /\ req[r].pc = "lock" /\ lock[m] = None /\ lock'[m] = r
  BY <1>0, <1>1 DEF LockModel, Filled, Shape
<1>6. UNCHANGED <<models, versions>> /\ \A k \in Models \ {m} : lock'[k] = lock[k]
  BY <1>1 DEF LockModel, Shape
<1>7. LockedFor(r)'
  <2>1. \A v \in RowsOf(m) : v.number # n
    BY <1>2, NextNumberIsFree DEF Shape
  <2> QED BY <1>4, <1>5, <1>6, <2>1 DEF LockedFor, Versioning, NumberTaken, RowsOf
<1>8. FreshFor(r)'
  BY <1>4, <1>5 DEF FreshFor, Uploading
<1>9. ASSUME NEW q \in Reqs \ {r} PROVE LockedFor(q)' /\ FreshFor(q)'
  <2>1. req'[q] = req[q] /\ LockedFor(q) /\ FreshFor(q) /\ Filled(q)
    BY <1>4 DEF Others, Exclusive, Shape
  <2>2. ASSUME Versioning(q) PROVE lock'[req[q].model] = q /\ ~NumberTaken(q)
    <3>1. lock[req[q].model] = q /\ ~NumberTaken(q) /\ req[q].model \in Models
      BY <2>1, <2>2 DEF LockedFor, Versioning, Filled
    <3>2. req[q].model # m
      BY <1>5, <3>1, NoneAssumption
    <3> QED BY <1>6, <3>1, <3>2
  <2>3. LockedFor(q)'
    BY <1>6, <2>1, <2>2 DEF LockedFor, Versioning, NumberTaken
  <2>4. FreshFor(q)'
    BY <1>1, <1>4, <1>6, <2>1 DEF FreshFor, Uploading, Others
  <2> QED BY <2>3, <2>4
<1>10. (\A v \in versions' : Made(v)') /\ (\A k \in models' : MadeModel(k)')
  BY <1>4, <1>5, <1>6 DEF Exclusive, Made, MadeModel, Others
<1> QED BY <1>7, <1>8, <1>9, <1>10 DEF Exclusive

\* Two uploads that both store files never share a model.
LEMMA StoringApart ==
    ASSUME Shape, Exclusive, NEW r \in Reqs, NEW q \in Reqs \ {r},
           req[r].pc = "put", req[q].pc = "put"
    PROVE  req[q].model # req[r].model
<1>1. req[r].kind \in {"upload", "version"} /\ req[q].kind \in {"upload", "version"}
  BY DEF Shape, Filled
<1>2. CASE Uploading(r) \/ Uploading(q)
  BY <1>1, <1>2 DEF Exclusive, FreshFor
<1>3. CASE Versioning(r) /\ Versioning(q)
  BY <1>3 DEF Exclusive, LockedFor
<1> QED BY <1>1, <1>2, <1>3 DEF Uploading, Versioning

\* The commit of an upload: the row it adds is of a model nobody else stores for.
LEMMA CommitKeepsExclusive ==
    ASSUME Shape, Exclusive, NEW r \in Reqs, req[r].pc = "put", End(r, "done"),
           \A m \in Models : lock[m] \in Reqs \ {r} => lock'[m] = lock[m],
           NEW n, versions' = versions \cup {[model |-> req[r].model, number |-> n, maker |-> r]},
           \/ UNCHANGED models
           \/ Uploading(r) /\ models' = models \cup {req[r].model}
    PROVE  Exclusive'
<1>1. /\ Others(r) /\ req'[r].pc = "done" /\ req'[r].kind = req[r].kind
      /\ req'[r].model = req[r].model
  BY GoShape, StepNames DEF Others
<1>2. req[r].kind \in {"upload", "version"}
  BY DEF Shape, Filled
<1>3. ASSUME NEW q \in Reqs \ {r} PROVE LockedFor(q)' /\ FreshFor(q)'
  <2>1. req'[q] = req[q] /\ LockedFor(q) /\ FreshFor(q) /\ Filled(q)
    BY <1>1 DEF Others, Exclusive, Shape
  <2>2. req[q].pc = "put" => req[q].model # req[r].model
    BY StoringApart
  <2>3. ASSUME Versioning(q) PROVE lock'[req[q].model] = q /\ ~NumberTaken(q)'
    <3>1. lock[req[q].model] = q /\ ~NumberTaken(q) /\ req[q].model \in Models
          /\ req[q].model # req[r].model
      BY <2>1, <2>2, <2>3 DEF LockedFor, Versioning, Filled
    <3>2. ASSUME NEW v \in versions', v.model = req[q].model PROVE v \in versions
      BY <3>1, <3>2
    <3> QED BY <2>1, <3>1, <3>2 DEF NumberTaken
  <2>4. LockedFor(q)'
    BY <2>1, <2>3 DEF LockedFor, Versioning
  <2>5. FreshFor(q)'
    BY <1>1, <2>1, <2>2 DEF FreshFor, Uploading, Others
  <2> QED BY <2>4, <2>5
<1>4. LockedFor(r)' /\ FreshFor(r)'
  BY <1>1 DEF LockedFor, Versioning, FreshFor, Uploading
<1>5. ASSUME NEW v \in versions' PROVE Made(v)'
  <2>1. CASE v \in versions
    BY <1>1, <2>1 DEF Exclusive, Made, Others
  <2>2. CASE v = [model |-> req[r].model, number |-> n, maker |-> r]
    BY <1>1, <1>2, <2>2 DEF Made
  <2> QED BY <2>1, <2>2
<1>6. ASSUME NEW m \in models' PROVE MadeModel(m)'
  <2>1. CASE m \in models
    BY <1>1, <2>1 DEF Exclusive, MadeModel, Others
  <2>2. CASE m \notin models
    BY <1>1, <2>2 DEF MadeModel, Uploading
  <2> QED BY <2>1, <2>2
<1> QED BY <1>3, <1>4, <1>5, <1>6 DEF Exclusive

LEMMA UploadKeepsExclusive ==
    ASSUME Shape, Exclusive, NEW r \in Reqs, UploadStep(r) PROVE Exclusive'
<1>0. req[r] \in Requests /\ Filled(r)
  BY DEF Shape
<1>1. ASSUME NEW f \in Files, Put(r, f) PROVE Exclusive'
  <2>1. req' = [req EXCEPT ![r] = [req[r] EXCEPT !.left = req[r].left \ {f}]]
    BY <1>1 DEF Put, Shape
  <2>2. /\ Others(r) /\ req'[r].pc = req[r].pc /\ req'[r].kind = req[r].kind
        /\ req'[r].model = req[r].model /\ req'[r].number = req[r].number
    BY <1>0, <2>1 DEF Others, Shape, Requests
  <2>3. req[r].pc = "put" /\ UNCHANGED <<models, versions, lock>>
    BY <1>1 DEF Put
  <2>4. ASSUME NEW q \in Reqs \ {r}, Uploading(q) PROVE req'[r].model # req[q].model
    BY <2>2, <2>3, <2>4, StoringApart DEF Uploading
  <2> QED BY <2>2, <2>3, <2>4, QuietKeepsExclusive DEF Ended
<1>2. CASE LockModelGone(r)
  BY <1>2, GoKeepsExclusive, StepNames DEF LockModelGone, Ended
<1>3. CASE FailUpload(r)
  <2>1. Go(r, "list") \/ End(r, "failed")
    BY <1>3 DEF FailUpload
  <2> QED BY <1>3, <2>1, UnlockKeeps, GoKeepsExclusive, StepNames DEF FailUpload, Ended
<1>4. CASE CreateModel(r)
  BY <1>4, CommitKeepsExclusive DEF CreateModel, Uploading
<1>5. CASE CreateModelRefused(r)
  BY <1>5, GoKeepsExclusive, StepNames DEF CreateModelRefused, Ended
<1>6. CASE CreateVersion(r)
  <2>1. CASE NumberTaken(r)
    BY <1>6, <2>1, UnlockKeeps, GoKeepsExclusive, StepNames DEF CreateVersion, Ended
  <2>2. CASE ~NumberTaken(r)
    BY <1>6, <2>2, UnlockKeeps, CommitKeepsExclusive DEF CreateVersion
  <2> QED BY <2>1, <2>2
<1> QED BY <1>1, <1>2, <1>3, <1>4, <1>5, <1>6, LockKeepsExclusive, StartKeepsExclusive
        DEF UploadStep

LEMMA DeletionKeepsExclusive ==
    ASSUME Shape, Exclusive, NEW r \in Reqs, DeletionStep(r) PROVE Exclusive'
<1>0. req[r] \in Requests /\ Filled(r)
  BY DEF Shape
<1>1. CASE StopNext(r)
  <2>1. req[r].pc = "stop" /\ UNCHANGED <<models, versions, lock>>
    BY <1>1 DEF StopNext
  <2>2. CASE End(r, "failed") \/ Go(r, "list")
    BY <2>1, <2>2, GoKeepsExclusive, StepNames DEF Ended
  <2>3. CASE \E d \in req[r].deps : req' = [req EXCEPT ![r].deps = @ \ {d}]
    <3>1. PICK d : req' = [req EXCEPT ![r] = [req[r] EXCEPT !.deps = req[r].deps \ {d}]]
      BY <2>3 DEF Shape
    <3>2. PICK c : c = [req[r] EXCEPT !.deps = req[r].deps \ {d}]
      OBVIOUS
    <3>3. c.pc = req[r].pc /\ c.kind = req[r].kind /\ c.model = req[r].model
      BY <1>0, <3>2 DEF Requests
    <3> QED BY <2>1, <3>1, <3>2, <3>3, WorkKeepsExclusive DEF Ended
  <2> QED BY <1>1, <2>2, <2>3 DEF StopNext
<1>2. CASE List(r)
  <2>1. PICK c : c = [req[r] EXCEPT !.pc = "sweep", !.keys = Prefix(r)]
    OBVIOUS
  <2>2. c.pc = "sweep" /\ c.kind = req[r].kind /\ c.model = req[r].model
    BY <1>0, <2>1 DEF Requests
  <2>3. req' = [req EXCEPT ![r] = c]
    BY <1>2, <2>1 DEF List, Shape
  <2>4. req[r].pc = "list" /\ UNCHANGED <<models, versions, lock>>
    BY <1>2 DEF List
  <2> QED BY <2>2, <2>3, <2>4, WorkKeepsExclusive DEF Ended
<1>3. CASE Sweeping(r)
  <2>1. PICK pc \in {"failed", "collect", "next"} : pc = AfterSweep(r)
    BY <1>3, AfterSweepIs DEF Sweeping, Remove
  <2>2. PICK c : c = [req[r] EXCEPT !.pc = pc, !.keys = {}]
    OBVIOUS
  <2>3. c.pc = pc /\ c.kind = req[r].kind /\ c.model = req[r].model
    BY <1>0, <2>2 DEF Requests
  <2>4. req' = [req EXCEPT ![r] = c]
    BY <1>3, <2>1, <2>2 DEF Sweeping, Remove, Shape
  <2>5. req[r].pc = "sweep" /\ UNCHANGED <<models, versions, lock>>
    BY <1>3 DEF Sweeping, Remove
  <2> QED BY <2>3, <2>4, <2>5, WorkKeepsExclusive DEF Ended
<1>4. CASE SweepFails(r)
  BY <1>4, GoKeepsExclusive, StepNames DEF SweepFails, Ended
<1>5. CASE Collect(r)
  <2>1. PICK R : R = IF req[r].kind = "delete" THEN {Row(r)} ELSE RowsOf(req[r].model)
    OBVIOUS
  <2>2. PICK c : c = [req[r] EXCEPT !.pc = "drop", !.rows = R, !.deps = DepsOf(R)]
    OBVIOUS
  <2>3. c.pc = "drop" /\ c.kind = req[r].kind /\ c.model = req[r].model
    BY <1>0, <2>2 DEF Requests
  <2>4. req' = [req EXCEPT ![r] = c]
    BY <1>5, <2>1, <2>2 DEF Collect, Shape
  <2>5. req[r].pc = "collect" /\ UNCHANGED <<models, versions, lock>>
    BY <1>5 DEF Collect
  <2> QED BY <2>3, <2>4, <2>5, WorkKeepsExclusive DEF Ended
<1>6. CASE Drop(r)
  <2>1. req[r].pc = "drop" /\ End(r, "done") /\ versions' \subseteq versions
        /\ models' \subseteq models /\ lock' = lock
    BY <1>6 DEF Drop
  <2> QED BY <2>1, GoKeepsExclusive, StepNames DEF Ended
<1>7. CASE DropFails(r)
  BY <1>7, GoKeepsExclusive, StepNames DEF DropFails, Ended
<1> QED BY <1>1, <1>2, <1>3, <1>4, <1>5, <1>6, <1>7, StartKeepsExclusive, BothSweep DEF DeletionStep

LEMMA ReconcileKeepsExclusive ==
    ASSUME Shape, Exclusive, NEW r \in Reqs, ReconcileStep(r) PROVE Exclusive'
<1>0. req[r] \in Requests /\ Filled(r)
  BY DEF Shape
<1>1. CASE Check(r)
  <2>1. PICK c : c = [req[r] EXCEPT !.pc = "next", !.orphans = req[r].orphans \ models,
                                    !.todo = req[r].orphans \ models]
    OBVIOUS
  <2>2. c.pc = "next" /\ c.kind = req[r].kind /\ c.model = req[r].model
    BY <1>0, <2>1 DEF Requests
  <2>3. req' = [req EXCEPT ![r] = c]
    BY <1>1, <2>1 DEF Check, Shape
  <2>4. req[r].pc = "check" /\ UNCHANGED <<models, versions, lock>>
    BY <1>1 DEF Check
  <2> QED BY <2>2, <2>3, <2>4, WorkKeepsExclusive DEF Ended
<1>2. CASE NextOrphan(r)
  <2>1. /\ req[r].pc = "next" /\ req[r].kind = "reconcile"
        /\ UNCHANGED <<models, versions, lock>>
    BY <1>0, <1>2 DEF NextOrphan, Filled
  <2>2. CASE End(r, "done")
    BY <2>1, <2>2, GoKeepsExclusive, StepNames DEF Ended
  <2>3. CASE \E m \in req[r].todo :
               req' = [req EXCEPT ![r].pc = "list", ![r].model = m, ![r].todo = @ \ {m}]
    <3>1. PICK m \in req[r].todo :
            req' = [req EXCEPT ![r].pc = "list", ![r].model = m, ![r].todo = @ \ {m}]
      BY <2>3
    <3>2. PICK c : c = [req[r] EXCEPT !.pc = "list", !.model = m, !.todo = req[r].todo \ {m}]
      OBVIOUS
    <3>3. c.pc = "list" /\ c.kind = req[r].kind
      BY <1>0, <3>2 DEF Requests
    <3>4. req' = [req EXCEPT ![r] = c]
      BY <3>1, <3>2 DEF Shape
    <3> QED BY <2>1, <3>3, <3>4, WorkKeepsExclusive DEF Ended
  <2> QED BY <1>2, <2>2, <2>3 DEF NextOrphan
<1> QED BY <1>1, <1>2, StartKeepsExclusive DEF ReconcileStep

LEMMA ExclusiveNext == Shape /\ Exclusive /\ [Next]_vars => Exclusive'
<1> SUFFICES ASSUME Shape, Exclusive, [Next]_vars PROVE Exclusive'
  OBVIOUS
<1>1. ASSUME UNCHANGED <<models, versions, lock, req>> PROVE Exclusive'
  BY <1>1 DEF Exclusive, LockedFor, Versioning, NumberTaken, FreshFor, Uploading, Made, MadeModel
<1>2. CASE UNCHANGED vars
  BY <1>1, <1>2 DEF vars
<1>3. ASSUME NEW r \in Reqs, Crash(r) PROVE Exclusive'
  BY <1>3, UnlockKeeps, GoKeepsExclusive, StepNames DEF Crash
<1>4. ASSUME NEW d \in Deps, StopDeployment(d) \/ \E v \in versions : Deploy(d, v)
      PROVE  Exclusive'
  BY <1>1, <1>4 DEF StopDeployment, Deploy
<1> QED BY <1>2, <1>3, <1>4, UploadKeepsExclusive, DeletionKeepsExclusive,
           ReconcileKeepsExclusive DEF Next

LEMMA ExclusiveMeans == Shape /\ Exclusive => UploadsAreExclusive
<1> SUFFICES ASSUME Shape, Exclusive, NEW r \in Reqs, req[r].pc = "put"
             PROVE  /\ ~NumberTaken(r)
                    /\ \A q \in Reqs : req[q].pc = "put" /\ req[q].model = req[r].model => q = r
  BY DEF UploadsAreExclusive
<1>1. req[r].kind \in {"upload", "version"} /\ LockedFor(r) /\ FreshFor(r)
  BY DEF Shape, Filled, Exclusive
<1>2. ~NumberTaken(r)
  <2>1. CASE Versioning(r)
    BY <1>1, <2>1 DEF LockedFor
  <2>2. CASE Uploading(r)
    <3> SUFFICES ASSUME NEW v \in versions, v.model = req[r].model PROVE FALSE
      BY DEF NumberTaken
    <3>1. req[r].model \notin Seeded
      BY <1>1, <2>2 DEF FreshFor
    <3>2. /\ v.maker \in Reqs /\ req[v.maker].kind \in {"upload", "version"}
          /\ req[v.maker].pc = "done" /\ req[v.maker].model = v.model
      BY <3>1 DEF Exclusive, Made
    <3>3. v.maker # r
      BY <3>2
    <3> QED BY <1>1, <2>2, <3>2, <3>3 DEF FreshFor
  <2> QED BY <1>1, <2>1, <2>2 DEF Versioning, Uploading
<1> QED BY <1>2, StoringApart

\* The row lock does what it is there for: at no time do two uploads store files under
\* one version number, nor an upload under a number that a row already has.
THEOREM UploadsCorrect == Spec => []UploadsAreExclusive
BY ShapeInit, ShapeNext, ExclusiveInit, ExclusiveNext, ExclusiveMeans, PTL DEF Spec
----------------------------------------------------------------------------
(* What every step does to the request that takes it, to the rows and to the   *)
(* bucket.                                                                     *)

\* The request goes on with what it is about.
Keeps(r) ==
    /\ Others(r) /\ req'[r].kind = req[r].kind /\ req'[r].model = req[r].model
    /\ req'[r].number = req[r].number /\ req'[r].maker = req[r].maker
    /\ req'[r].orphans = req[r].orphans /\ req'[r].todo \subseteq req[r].todo

\* It moves on, and neither rows nor objects change.
Turns(r, from, to) ==
    /\ Keeps(r) /\ req[r].pc \in from /\ req'[r].pc \in to
    /\ UNCHANGED <<models, versions, objects>> /\ spared \subseteq spared'

Begins(r, kind, pcs) ==
    /\ Others(r) /\ req[r].pc = "idle" /\ req'[r].pc \in pcs /\ req'[r].kind = kind
    /\ UNCHANGED <<models, versions, objects, spared>>
BeginsUpload(r) ==
    /\ Begins(r, "upload", {"put"}) /\ req'[r].left = Files /\ req'[r].number = 1
    /\ req'[r].model \in Models \ Seeded /\ \A q \in Reqs : req[q].model # req'[r].model
BeginsVersion(r) == Begins(r, "version", {"lock"}) /\ req'[r].model \in models
BeginsPurge(r)   == Begins(r, "purge", {"stop"}) /\ req'[r].model \in models
BeginsDelete(r)  == Begins(r, "delete", {"list", "refused"}) /\ Row(r)' \in versions
BeginsReconcile(r) == Begins(r, "reconcile", {"check"})

Locks(r) ==
    /\ Others(r) /\ req[r].pc = "lock" /\ req'[r].pc = "put"
    /\ req[r].kind = "version" /\ req'[r].kind = "version" /\ req'[r].model = req[r].model
    /\ req'[r].left = Files /\ UNCHANGED <<models, versions, objects, spared>>

NewObject(r, f) == [model |-> req[r].model, number |-> req[r].number, file |-> f, by |-> r]
Puts(r, f) ==
    /\ Keeps(r) /\ req[r].pc = "put" /\ req'[r].pc = "put" /\ req'[r].left = req[r].left \ {f}
    /\ objects' = {o \in objects : KeyOf(o) # KeyOf(NewObject(r, f))} \cup {NewObject(r, f)}
    /\ UNCHANGED <<models, versions, spared>>

Cleans(r)   == Turns(r, {"put"}, {"list"})
Abandons(r) == Turns(r, {"put"}, {"failed"}) /\ req[r].kind = "upload"
GivesUp(r)  == Turns(r, {"lock"}, {"failed"})
Stops(r)    == Turns(r, {"stop"}, {"stop", "list", "failed"})
Lists(r)    == Turns(r, {"list"}, {"sweep"}) /\ req'[r].keys = Prefix(r)
CannotSweep(r) ==
    Turns(r, {"list", "sweep"}, {"failed"}) /\ \A o \in objects : o.by = r => o \in spared'
Collects(r) ==
    /\ Turns(r, {"collect"}, {"drop"})
    /\ req'[r].rows = IF req[r].kind = "delete" THEN {Row(r)} ELSE RowsOf(req[r].model)
CannotDrop(r) == Turns(r, {"drop"}, {"failed"})
Concludes(r)  == Turns(r, {"next"}, {"done"})
Dies(r)       == Turns(r, Steps \ (Ended \cup {"idle"}), {"crashed"})

Checks(r) ==
    /\ Others(r) /\ req[r].pc = "check" /\ req'[r].pc = "next" /\ req'[r].kind = req[r].kind
    /\ req'[r].model = req[r].model /\ req'[r].todo = req'[r].orphans
    /\ UNCHANGED <<models, versions, objects, spared>>
Picks(r) ==
    /\ Others(r) /\ req[r].pc = "next" /\ req'[r].pc = "list" /\ req'[r].kind = req[r].kind
    /\ req'[r].orphans = req[r].orphans /\ req'[r].todo \subseteq req[r].todo
    /\ req'[r].model \in req[r].todo
    /\ UNCHANGED <<models, versions, objects, spared>>

NewRow(r) == [model |-> req[r].model, number |-> req[r].number, maker |-> r]
Commits(r) ==
    /\ Keeps(r) /\ req[r].pc = "put" /\ req'[r].pc = "done" /\ req[r].left = {}
    /\ versions' = versions \cup {NewRow(r)}
    /\ \/ req[r].kind = "upload" /\ models' = models \cup {req[r].model}
       \/ req[r].kind = "version" /\ ~NumberTaken(r) /\ models' = models
    /\ UNCHANGED <<objects, spared>>
Sweeps(r) ==
    /\ Keeps(r) /\ req[r].pc = "sweep" /\ req'[r].pc = AfterSweep(r)
    /\ objects' \subseteq objects /\ \A o \in objects \ objects' : KeyOf(o) \in req[r].keys
    /\ \A o \in objects' : KeyOf(o) \in req[r].keys => o \in spared'
    /\ UNCHANGED <<models, versions>> /\ spared \subseteq spared'
Drops(r) ==
    /\ Keeps(r) /\ req[r].pc = "drop" /\ req'[r].pc = "done"
    /\ versions' = versions \ req[r].rows /\ models' \subseteq models
    /\ UNCHANGED <<objects, spared>>

LEMMA GoKeeps ==
    ASSUME Shape, NEW r \in Reqs, NEW pc \in Steps, Go(r, pc) \/ End(r, pc)
    PROVE  Keeps(r) /\ req'[r].pc = pc
<1>0. req[r] \in Requests
  BY DEF Shape
<1>1. CASE Go(r, pc)
  <2>1. req' = [req EXCEPT ![r] = [req[r] EXCEPT !.pc = pc]]
    BY <1>1 DEF Go, Shape
  <2>2. req'[r].orphans = req[r].orphans /\ req'[r].todo = req[r].todo
    BY <1>0, <2>1 DEF Shape, Requests
  <2> QED BY <2>2, GoShape DEF Keeps, Others
<1>2. CASE End(r, pc)
  <2>1. req' = [req EXCEPT ![r] = [req[r] EXCEPT !.pc = pc, !.left = {}, !.keys = {}, !.rows = {},
                                                 !.deps = {}, !.todo = {}]]
    BY <1>2 DEF End, Shape
  <2>2. req'[r].orphans = req[r].orphans /\ req'[r].todo = {}
    BY <1>0, <2>1 DEF Shape, Requests
  <2> QED BY <2>2, GoShape DEF Keeps, Others
<1> QED BY <1>1, <1>2

LEMMA BeginSteps ==
    ASSUME Shape, NEW r \in Reqs
    PROVE  /\ \A m \in Models : StartUpload(r, m) => BeginsUpload(r)
           /\ \A m \in Models : StartVersion(r, m) => BeginsVersion(r)
           /\ \A m \in Models : StartPurge(r, m) => BeginsPurge(r)
           /\ \A v \in versions : StartDelete(r, v) => BeginsDelete(r)
           /\ StartReconcile(r) => BeginsReconcile(r)
<1>0. req[r] \in Requests
  BY DEF Shape
<1>1. ASSUME NEW m \in Models, StartUpload(r, m) PROVE BeginsUpload(r)
  <2>1. req' = [req EXCEPT ![r] = [req[r] EXCEPT !.kind = "upload", !.pc = "put", !.model = m,
                                                 !.number = 1, !.left = Files]]
    BY <1>1 DEF StartUpload, Shape
  <2>2. /\ Others(r) /\ req'[r].kind = "upload" /\ req'[r].pc = "put" /\ req'[r].model = m
        /\ req'[r].number = 1 /\ req'[r].left = Files
    BY <1>0, <2>1 DEF Others, Shape, Requests
  <2> QED BY <1>1, <2>2 DEF StartUpload, BeginsUpload, Begins, counters
<1>2. ASSUME NEW m \in Models, StartVersion(r, m) PROVE BeginsVersion(r)
  <2>1. req' = [req EXCEPT ![r] = [req[r] EXCEPT !.kind = "version", !.pc = "lock", !.model = m]]
    BY <1>2 DEF StartVersion, Shape
  <2>2. Others(r) /\ req'[r].kind = "version" /\ req'[r].pc = "lock" /\ req'[r].model = m
    BY <1>0, <2>1 DEF Others, Shape, Requests
  <2> QED BY <1>2, <2>2 DEF StartVersion, BeginsVersion, Begins, counters
<1>3. ASSUME NEW m \in Models, StartPurge(r, m) PROVE BeginsPurge(r)
  <2>1. req' = [req EXCEPT ![r] = [req[r] EXCEPT !.kind = "purge", !.pc = "stop", !.model = m,
                                                 !.deps = ActiveOf(RowsOf(m))]]
    BY <1>3 DEF StartPurge, Shape
  <2>2. Others(r) /\ req'[r].kind = "purge" /\ req'[r].pc = "stop" /\ req'[r].model = m
    BY <1>0, <2>1 DEF Others, Shape, Requests
  <2> QED BY <1>3, <2>2 DEF StartPurge, BeginsPurge, Begins, counters
<1>4. ASSUME NEW v \in versions, StartDelete(r, v) PROVE BeginsDelete(r)
  <2>1. PICK pc \in {"list", "refused"} : pc = IF ActiveOf({v}) = {} THEN "list" ELSE "refused"
    OBVIOUS
  <2>2. req' = [req EXCEPT ![r] = [req[r] EXCEPT !.kind = "delete", !.pc = pc, !.model = v.model,
                                                 !.number = v.number, !.maker = v.maker]]
    BY <1>4, <2>1 DEF StartDelete, Shape
  <2>3. /\ Others(r) /\ req'[r].kind = "delete" /\ req'[r].pc = pc
        /\ req'[r].model = v.model /\ req'[r].number = v.number /\ req'[r].maker = v.maker
    BY <1>0, <2>2 DEF Others, Shape, Requests
  <2>4. v = [model |-> v.model, number |-> v.number, maker |-> v.maker]
    BY DEF Shape, Versions
  <2> QED BY <1>4, <2>3, <2>4 DEF StartDelete, BeginsDelete, Begins, Row, counters
<1>5. ASSUME StartReconcile(r) PROVE BeginsReconcile(r)
  <2>1. req' = [req EXCEPT ![r] = [req[r] EXCEPT !.kind = "reconcile", !.pc = "check",
                                                 !.orphans = {o.model : o \in objects}]]
    BY <1>5 DEF StartReconcile, Shape
  <2>2. Others(r) /\ req'[r].kind = "reconcile" /\ req'[r].pc = "check"
    BY <1>0, <2>1 DEF Others, Shape, Requests
  <2> QED BY <1>5, <2>2 DEF StartReconcile, BeginsReconcile, Begins, counters
<1> QED BY <1>1, <1>2, <1>3, <1>4, <1>5

\* A step that gives the request a record c with the same subject
LEMMA WorkKeeps ==
    ASSUME Shape, NEW r \in Reqs, NEW c, req' = [req EXCEPT ![r] = c],
           c.kind = req[r].kind, c.model = req[r].model, c.number = req[r].number,
           c.maker = req[r].maker, c.orphans = req[r].orphans, c.todo = req[r].todo
    PROVE  Keeps(r) /\ req'[r] = c
BY DEF Shape, Others, Keeps

LEMMA UploadSteps ==
    ASSUME Shape, Counters, Exclusive, NEW r \in Reqs, UploadStep(r)
    PROVE  \/ BeginsUpload(r) \/ BeginsVersion(r) \/ Locks(r) \/ GivesUp(r)
           \/ \E f \in Files : Puts(r, f)
           \/ Cleans(r) \/ Abandons(r) \/ Commits(r)
<1>0. req[r] \in Requests /\ Filled(r)
  BY DEF Shape
<1>1. ASSUME NEW f \in Files, Put(r, f) PROVE Puts(r, f)
  <2>1. PICK c : c = [req[r] EXCEPT !.left = req[r].left \ {f}]
    OBVIOUS
  <2>2. /\ c.kind = req[r].kind /\ c.model = req[r].model /\ c.number = req[r].number
        /\ c.maker = req[r].maker /\ c.orphans = req[r].orphans /\ c.todo = req[r].todo
        /\ c.pc = req[r].pc /\ c.left = req[r].left \ {f}
    BY <1>0, <2>1 DEF Requests
  <2>3. req' = [req EXCEPT ![r] = c]
    BY <1>1, <2>1 DEF Put, Shape
  <2>4. Keeps(r) /\ req'[r] = c
    BY <2>2, <2>3, WorkKeeps
  <2>5. KeyOf(NewObject(r, f)) = [model |-> req[r].model, number |-> req[r].number, file |-> f]
    BY DEF KeyOf, NewObject
  <2>6. objects' = {o \in objects : KeyOf(o) # KeyOf(NewObject(r, f))} \cup {NewObject(r, f)}
    BY <1>1, <2>5 DEF Put, NewObject
  <2> QED BY <1>1, <2>2, <2>4, <2>6 DEF Put, Puts, counters
<1>2. CASE LockModel(r)
  <2>1. PICK n : n = NextNumber(req[r].model)
    OBVIOUS
  <2>2. req' = [req EXCEPT ![r] = [req[r] EXCEPT !.pc = "put", !.number = n, !.left = Files]]
    BY <1>2, <2>1 DEF LockModel, Shape
  <2>3. /\ Others(r) /\ req'[r].kind = req[r].kind /\ req'[r].model = req[r].model
        /\ req'[r].left = Files /\ req'[r].pc = "put"
    BY <1>0, <2>2 DEF Others, Requests, Shape
  <2> QED BY <1>0, <1>2, <2>3 DEF LockModel, Filled, Locks, counters
<1>3. CASE LockModelGone(r)
  BY <1>3, GoKeeps, StepNames DEF LockModelGone, GivesUp, Turns, counters
<1>4. CASE FailUpload(r)
  <2>1. Go(r, "list") \/ (End(r, "failed") /\ req[r].kind = "upload")
    BY <1>0, <1>4 DEF FailUpload, Filled
  <2> QED BY <1>4, <2>1, GoKeeps, StepNames DEF FailUpload, Cleans, Abandons, Turns
<1>5. CASE CreateModel(r)
  <2>1. req[r].number = 1
    BY <1>5 DEF CreateModel, Exclusive, FreshFor, Uploading
  <2> QED BY <1>5, <2>1, GoKeeps, StepNames DEF CreateModel, Commits, NewRow, counters
<1>6. CASE CreateModelRefused(r)
  BY <1>6, GoKeeps, StepNames DEF CreateModelRefused, Cleans, Turns, counters
<1>7. CASE CreateVersion(r)
  <2>1. CASE NumberTaken(r)
    BY <1>7, <2>1, GoKeeps, StepNames DEF CreateVersion, Cleans, Turns, counters
  <2>2. CASE ~NumberTaken(r)
    BY <1>7, <2>2, GoKeeps, StepNames DEF CreateVersion, Commits, NewRow, counters
  <2> QED BY <2>1, <2>2
<1> QED BY <1>1, <1>2, <1>3, <1>4, <1>5, <1>6, <1>7, BeginSteps DEF UploadStep

LEMMA DeletionSteps ==
    ASSUME Shape, Counters, NEW r \in Reqs, DeletionStep(r)
    PROVE  \/ BeginsDelete(r) \/ BeginsPurge(r) \/ Stops(r) \/ Lists(r) \/ Sweeps(r)
           \/ CannotSweep(r) \/ Collects(r) \/ Drops(r) \/ CannotDrop(r)
<1>0. req[r] \in Requests /\ Filled(r)
  BY DEF Shape
<1>1. CASE StopNext(r)
  <2>1. CASE End(r, "failed") \/ Go(r, "list")
    BY <1>1, <2>1, GoKeeps, StepNames DEF StopNext, Stops, Turns, counters
  <2>2. CASE \E d \in req[r].deps : req' = [req EXCEPT ![r].deps = @ \ {d}]
    <3>1. PICK d : req' = [req EXCEPT ![r] = [req[r] EXCEPT !.deps = req[r].deps \ {d}]]
      BY <2>2 DEF Shape
    <3>2. PICK c : c = [req[r] EXCEPT !.deps = req[r].deps \ {d}]
      OBVIOUS
    <3>3. /\ c.kind = req[r].kind /\ c.model = req[r].model /\ c.number = req[r].number
          /\ c.maker = req[r].maker /\ c.orphans = req[r].orphans /\ c.todo = req[r].todo
          /\ c.pc = req[r].pc
      BY <1>0, <3>2 DEF Requests
    <3>4. Keeps(r) /\ req'[r] = c
      BY <3>1, <3>2, <3>3, WorkKeeps
    <3> QED BY <1>1, <3>3, <3>4 DEF StopNext, Stops, Turns, counters
  <2> QED BY <1>1, <2>1, <2>2 DEF StopNext
<1>2. CASE List(r)
  <2>1. PICK c : c = [req[r] EXCEPT !.pc = "sweep", !.keys = Prefix(r)]
    OBVIOUS
  <2>2. /\ c.kind = req[r].kind /\ c.model = req[r].model /\ c.number = req[r].number
        /\ c.maker = req[r].maker /\ c.orphans = req[r].orphans /\ c.todo = req[r].todo
        /\ c.pc = "sweep" /\ c.keys = Prefix(r)
    BY <1>0, <2>1 DEF Requests
  <2>3. req' = [req EXCEPT ![r] = c]
    BY <1>2, <2>1 DEF List, Shape
  <2>4. Keeps(r) /\ req'[r] = c
    BY <2>2, <2>3, WorkKeeps
  <2> QED BY <1>2, <2>2, <2>4 DEF List, Lists, Turns, counters
<1>3. CASE Sweeping(r)
  <2>1. PICK pc : pc = AfterSweep(r)
    OBVIOUS
  <2>2. PICK c : c = [req[r] EXCEPT !.pc = pc, !.keys = {}]
    OBVIOUS
  <2>3. /\ c.kind = req[r].kind /\ c.model = req[r].model /\ c.number = req[r].number
        /\ c.maker = req[r].maker /\ c.orphans = req[r].orphans /\ c.todo = req[r].todo
        /\ c.pc = pc
    BY <1>0, <2>2 DEF Requests
  <2>4. req' = [req EXCEPT ![r] = c]
    BY <1>3, <2>1, <2>2 DEF Sweeping, Remove, Shape
  <2>5. Keeps(r) /\ req'[r] = c
    BY <2>3, <2>4, WorkKeeps
  <2>6. PICK gone \in SUBSET req[r].keys : Remove(r, gone)
    BY <1>3 DEF Sweeping
  <2>7. /\ objects' \subseteq objects /\ \A o \in objects \ objects' : KeyOf(o) \in req[r].keys
        /\ \A o \in objects' : KeyOf(o) \in req[r].keys => o \in spared'
        /\ UNCHANGED <<models, versions>> /\ spared \subseteq spared'
    BY <2>6 DEF Remove
  <2> QED BY <1>3, <2>1, <2>3, <2>5, <2>7 DEF Sweeping, Sweeps
<1>4. CASE SweepFails(r)
  BY <1>4, GoKeeps, StepNames DEF SweepFails, CannotSweep, Turns
<1>5. CASE Collect(r)
  <2>1. PICK R : R = IF req[r].kind = "delete" THEN {Row(r)} ELSE RowsOf(req[r].model)
    OBVIOUS
  <2>2. PICK c : c = [req[r] EXCEPT !.pc = "drop", !.rows = R, !.deps = DepsOf(R)]
    OBVIOUS
  <2>3. /\ c.kind = req[r].kind /\ c.model = req[r].model /\ c.number = req[r].number
        /\ c.maker = req[r].maker /\ c.orphans = req[r].orphans /\ c.todo = req[r].todo
        /\ c.pc = "drop" /\ c.rows = R
    BY <1>0, <2>2 DEF Requests
  <2>4. req' = [req EXCEPT ![r] = c]
    BY <1>5, <2>1, <2>2 DEF Collect, Shape
  <2>5. Keeps(r) /\ req'[r] = c
    BY <2>3, <2>4, WorkKeeps
  <2> QED BY <1>5, <2>1, <2>3, <2>5 DEF Collect, Collects, Turns, counters
<1>6. CASE Drop(r)
  BY <1>6, GoKeeps, StepNames DEF Drop, Drops, counters
<1>7. CASE DropFails(r)
  BY <1>7, GoKeeps, StepNames DEF DropFails, CannotDrop, Turns, counters
<1> QED BY <1>1, <1>2, <1>3, <1>4, <1>5, <1>6, <1>7, BeginSteps, BothSweep DEF DeletionStep

LEMMA OtherSteps ==
    ASSUME Shape, NEW r \in Reqs, ReconcileStep(r) \/ Crash(r)
    PROVE  BeginsReconcile(r) \/ Checks(r) \/ Picks(r) \/ Concludes(r) \/ Dies(r)
<1>0. req[r] \in Requests /\ Filled(r)
  BY DEF Shape
<1>1. CASE Check(r)
  <2>1. req' = [req EXCEPT ![r] = [req[r] EXCEPT !.pc = "next", !.orphans = req[r].orphans \ models,
                                                 !.todo = req[r].orphans \ models]]
    BY <1>1 DEF Check, Shape
  <2>2. /\ Others(r) /\ req'[r].pc = "next" /\ req'[r].kind = req[r].kind
        /\ req'[r].model = req[r].model /\ req'[r].todo = req'[r].orphans
    BY <1>0, <2>1 DEF Others, Shape, Requests
  <2> QED BY <1>1, <2>2 DEF Check, Checks, counters
<1>2. CASE NextOrphan(r)
  <2>1. CASE End(r, "done")
    BY <1>2, <2>1, GoKeeps, StepNames DEF NextOrphan, Concludes, Turns, counters
  <2>2. CASE \E m \in req[r].todo :
               req' = [req EXCEPT ![r].pc = "list", ![r].model = m, ![r].todo = @ \ {m}]
    <3>1. PICK m \in req[r].todo :
            req' = [req EXCEPT ![r].pc = "list", ![r].model = m, ![r].todo = @ \ {m}]
      BY <2>2
    <3>2. req' = [req EXCEPT ![r] = [req[r] EXCEPT !.pc = "list", !.model = m,
                                                   !.todo = req[r].todo \ {m}]]
      BY <3>1 DEF Shape
    <3>3. /\ Others(r) /\ req'[r].pc = "list" /\ req'[r].kind = req[r].kind
          /\ req'[r].orphans = req[r].orphans /\ req'[r].todo = req[r].todo \ {m}
          /\ req'[r].model = m
      BY <1>0, <3>2 DEF Others, Shape, Requests
    <3> QED BY <1>2, <3>1, <3>3 DEF NextOrphan, Picks, counters
  <2> QED BY <1>2, <2>1, <2>2 DEF NextOrphan
<1>3. CASE Crash(r)
  <2>1. req[r].pc \in Steps
    BY <1>0 DEF Requests
  <2> QED BY <1>3, <2>1, GoKeeps, StepNames DEF Crash, Dies, Turns
<1> QED BY <1>1, <1>2, <1>3, BeginSteps DEF ReconcileStep

Takes(r) ==
    \/ BeginsUpload(r) \/ BeginsVersion(r) \/ BeginsPurge(r) \/ BeginsDelete(r)
    \/ BeginsReconcile(r) \/ Locks(r) \/ GivesUp(r) \/ (\E f \in Files : Puts(r, f))
    \/ Cleans(r) \/ Abandons(r) \/ Commits(r) \/ Stops(r) \/ Lists(r) \/ Sweeps(r)
    \/ CannotSweep(r) \/ Collects(r) \/ Drops(r) \/ CannotDrop(r)
    \/ Checks(r) \/ Picks(r) \/ Concludes(r) \/ Dies(r)

LEMMA NextTakes ==
    ASSUME Shape, Counters, Exclusive, [Next]_vars
    PROVE  (\E r \in Reqs : Takes(r)) \/ UNCHANGED <<models, versions, objects, req, spared>>
<1>1. ASSUME NEW d \in Deps, StopDeployment(d) \/ \E v \in versions : Deploy(d, v)
      PROVE  UNCHANGED <<models, versions, objects, req, spared>>
  BY <1>1 DEF StopDeployment, Deploy, counters
<1>2. CASE UNCHANGED vars
  BY <1>2 DEF vars
<1> QED BY <1>1, <1>2, UploadSteps, DeletionSteps, OtherSteps DEF Next, Takes

\* Whoever takes a step is not over, and leaves the others' records alone.
LEMMA NotOver ==
    ASSUME NEW r \in Reqs, Takes(r) PROVE Others(r) /\ req[r].pc \notin Ended
<1>1. CASE \/ BeginsUpload(r) \/ BeginsVersion(r) \/ BeginsPurge(r) \/ BeginsDelete(r)
           \/ BeginsReconcile(r) \/ Locks(r) \/ Checks(r) \/ Picks(r)
  BY <1>1 DEF BeginsUpload, BeginsVersion, BeginsPurge, BeginsDelete, BeginsReconcile, Begins,
              Locks, Checks, Picks, Ended
<1>2. CASE (\E f \in Files : Puts(r, f)) \/ Commits(r) \/ Sweeps(r) \/ Drops(r)
  BY <1>2 DEF Puts, Commits, Sweeps, Drops, Keeps, Ended
<1>3. CASE \/ GivesUp(r) \/ Cleans(r) \/ Abandons(r) \/ Stops(r) \/ Lists(r) \/ CannotSweep(r)
           \/ Collects(r) \/ CannotDrop(r) \/ Concludes(r) \/ Dies(r)
  BY <1>3 DEF GivesUp, Cleans, Abandons, Stops, Lists, CannotSweep, Collects, CannotDrop,
              Concludes, Dies, Turns, Keeps, Ended
<1> QED BY <1>1, <1>2, <1>3 DEF Takes
----------------------------------------------------------------------------
(* What a request has read, and what it is for.                                *)

Duty(r) ==
    /\ req[r].pc = "stop" => req[r].kind = "purge"
    /\ req[r].pc \in {"collect", "drop"} => req[r].kind \in {"delete", "purge"}
    /\ req[r].kind = "reconcile" /\ req[r].pc \in {"next", "list", "sweep"} =>
         req[r].todo \subseteq req[r].orphans
    /\ req[r].kind = "reconcile" /\ req[r].pc \in {"list", "sweep"} =>
         req[r].model \in req[r].orphans
    /\ req[r].pc = "sweep" =>
         \A k \in req[r].keys :
            /\ k.model = req[r].model
            /\ req[r].kind \in {"purge", "reconcile"} \/ k.number = req[r].number
    /\ req[r].pc = "drop" =>
         /\ req[r].kind = "delete" => req[r].rows = {Row(r)}
         /\ req[r].kind = "purge" => \A v \in req[r].rows : v.model = req[r].model
Duties == \A r \in Reqs : Duty(r)

LEMMA DutiesInit == Init => Duties
BY DEF Init, Idle, Duties, Duty

LEMMA DutiesStep == ASSUME Shape, Duties, NEW r \in Reqs, Takes(r) PROVE Duties'
<1>0. Others(r) /\ Duty(r) /\ Filled(r)
  BY NotOver DEF Duties, Shape
<1>1. ASSUME NEW q \in Reqs \ {r} PROVE Duty(q)'
  <2>1. req'[q] = req[q] /\ Duty(q)
    BY <1>0 DEF Others, Duties
  <2> QED BY <2>1 DEF Duty, Row
<1>2. Duty(r)'
  <2>1. CASE \/ BeginsUpload(r) \/ BeginsVersion(r) \/ BeginsPurge(r) \/ BeginsDelete(r)
             \/ BeginsReconcile(r) \/ Locks(r)
    BY <2>1 DEF BeginsUpload, BeginsVersion, BeginsPurge, BeginsDelete, BeginsReconcile, Begins,
                Locks, Duty
  <2>2. CASE (\E f \in Files : Puts(r, f)) \/ Commits(r) \/ Drops(r)
    BY <2>2 DEF Puts, Commits, Drops, Duty
  <2>3. CASE GivesUp(r) \/ Abandons(r) \/ CannotSweep(r) \/ CannotDrop(r) \/ Concludes(r) \/ Dies(r)
    BY <2>3 DEF GivesUp, Abandons, CannotSweep, CannotDrop, Concludes, Dies, Turns, Duty
  <2>4. CASE Cleans(r)
    BY <1>0, <2>4 DEF Cleans, Turns, Keeps, Duty, Filled
  <2>5. CASE Stops(r)
    BY <1>0, <2>5 DEF Stops, Turns, Keeps, Duty
  <2>6. CASE Lists(r)
    <3>1. \A k \in Prefix(r) : /\ k.model = req[r].model
                               /\ req[r].kind \in {"purge", "reconcile"} \/ k.number = req[r].number
      BY DEF Prefix, KeyOf
    <3> QED BY <1>0, <2>6, <3>1 DEF Lists, Turns, Keeps, Duty
  <2>7. CASE Sweeps(r)
    <3>1. req[r].kind \in Kinds
      BY <1>0, <2>7 DEF Sweeps, Filled
    <3>2. \/ req[r].kind \in {"upload", "version"} /\ req'[r].pc = "failed"
          \/ req[r].kind \in {"delete", "purge"} /\ req'[r].pc = "collect"
          \/ req[r].kind = "reconcile" /\ req'[r].pc = "next"
      BY <2>7, <3>1 DEF Sweeps, AfterSweep, Kinds
    <3> QED BY <1>0, <2>7, <3>2 DEF Sweeps, Keeps, Duty
  <2>8. CASE Collects(r)
    <3>1. \A v \in RowsOf(req[r].model) : v.model = req[r].model
      BY DEF RowsOf
    <3> QED BY <1>0, <2>8, <3>1 DEF Collects, Turns, Keeps, Duty, Row
  <2>9. CASE Checks(r)
    BY <1>0, <2>9 DEF Checks, Duty
  <2>10. CASE Picks(r)
    BY <1>0, <2>10 DEF Picks, Duty, Filled
  <2> QED BY <2>1, <2>2, <2>3, <2>4, <2>5, <2>6, <2>7, <2>8, <2>9, <2>10 DEF Takes
<1> QED BY <1>1, <1>2 DEF Duties

\* The id of a model whose upload is not done is nobody else's.
Apart(r) ==
    req[r].kind = "upload" /\ req[r].pc \notin {"idle", "done"} =>
        /\ req[r].model \notin Seeded \cup models
        /\ \A q \in Reqs \ {r} : req[q].kind # "reconcile" => req[q].model # req[r].model
AllApart == \A r \in Reqs : Apart(r)

LEMMA ApartFromRows ==
    ASSUME Exclusive, AllApart, NEW r \in Reqs, req[r].kind = "upload",
           req[r].pc \notin {"idle", "done"}
    PROVE  \A v \in versions : v.model # req[r].model
<1> SUFFICES ASSUME NEW v \in versions, v.model = req[r].model PROVE FALSE
  OBVIOUS
<1>1. req[r].model \notin Seeded
  BY DEF AllApart, Apart
<1>2. /\ v.maker \in Reqs /\ req[v.maker].kind \in {"upload", "version"}
      /\ req[v.maker].pc = "done" /\ req[v.maker].model = v.model
  BY <1>1 DEF Exclusive, Made
<1>3. v.maker # r
  BY <1>2
<1> QED BY <1>2, <1>3 DEF AllApart, Apart

LEMMA ApartInit == Init => AllApart
BY DEF Init, Idle, AllApart, Apart

\* Where a step finds the model it is about, and which models it makes.
LEMMA WhichModel ==
    ASSUME Shape, NEW r \in Reqs, Takes(r)
    PROVE  /\ \/ BeginsUpload(r)
              \/ req'[r].kind = "reconcile"
              \/ req'[r].kind = req[r].kind /\ req'[r].model = req[r].model /\ req[r].pc # "idle"
              \/ req'[r].model \in models /\ req'[r].kind # "upload"
              \/ Row(r)' \in versions /\ req'[r].kind # "upload"
           /\ models' \subseteq models \/ (Commits(r) /\ models' \subseteq models \cup {req[r].model})
<1>0. Filled(r)
  BY DEF Shape
<1>1. CASE BeginsUpload(r) \/ BeginsVersion(r) \/ BeginsPurge(r) \/ BeginsDelete(r) \/ BeginsReconcile(r)
  BY <1>1 DEF BeginsUpload, BeginsVersion, BeginsPurge, BeginsDelete, BeginsReconcile, Begins
<1>2. CASE Locks(r) \/ Checks(r) \/ Picks(r)
  BY <1>0, <1>2 DEF Locks, Checks, Picks, Filled
<1>3. CASE (\E f \in Files : Puts(r, f)) \/ Commits(r) \/ Sweeps(r) \/ Drops(r)
  BY <1>3 DEF Puts, Commits, Sweeps, Drops, Keeps
<1>4. CASE \/ GivesUp(r) \/ Cleans(r) \/ Abandons(r) \/ Stops(r) \/ Lists(r) \/ CannotSweep(r)
           \/ Collects(r) \/ CannotDrop(r) \/ Concludes(r) \/ Dies(r)
  BY <1>4 DEF GivesUp, Cleans, Abandons, Stops, Lists, CannotSweep, Collects, CannotDrop,
              Concludes, Dies, Turns, Keeps
<1> QED BY <1>1, <1>2, <1>3, <1>4 DEF Takes

LEMMA ApartStep ==
    ASSUME Shape, Exclusive, AllApart, NEW r \in Reqs, Takes(r) PROVE AllApart'
<1>0. Others(r) /\ req[r].pc \notin Ended
  BY NotOver
<1>1. ASSUME NEW q \in Reqs \ {r}, req[q].kind = "upload", req[q].pc \notin {"idle", "done"}
      PROVE  /\ req[q].model \notin Seeded \cup models'
             /\ req'[r].kind # "reconcile" => req'[r].model # req[q].model
  <2>1. /\ req[q].model \notin Seeded \cup models
        /\ req[r].kind # "reconcile" => req[r].model # req[q].model
    BY <1>1 DEF AllApart, Apart
  <2>2. \A v \in versions : v.model # req[q].model
    BY <1>1, ApartFromRows
  <2>3. req[q].model \notin models'
    <3>1. Commits(r) => req[r].kind # "reconcile"
      BY DEF Commits
    <3> QED BY <2>1, <3>1, WhichModel
  <2>4. ASSUME req'[r].kind # "reconcile" PROVE req'[r].model # req[q].model
    <3>1. CASE BeginsUpload(r)
      BY <3>1 DEF BeginsUpload
    <3>2. CASE Row(r)' \in versions
      <4>1. PICK v \in versions : v = Row(r)'
        BY <3>2
      <4>2. v.model = req'[r].model
        BY <4>1 DEF Row
      <4> QED BY <2>2, <4>2
    <3> QED BY <2>1, <2>4, <3>1, <3>2, WhichModel
  <2> QED BY <2>1, <2>3, <2>4
<1>2. ASSUME NEW q \in Reqs \ {r} PROVE Apart(q)'
  BY <1>0, <1>1 DEF AllApart, Apart, Others
<1>3. Apart(r)'
  <2>1. CASE BeginsUpload(r)
    <3>1. /\ req'[r].model \notin Seeded /\ \A q \in Reqs : req[q].model # req'[r].model
          /\ models' = models
      BY <2>1 DEF BeginsUpload, Begins
    <3>2. req'[r].model \notin models
      BY <3>1 DEF Exclusive, MadeModel
    <3> QED BY <1>0, <3>1, <3>2 DEF Apart, Others
  <2>2. CASE req'[r].kind = req[r].kind /\ req'[r].model = req[r].model /\ req[r].pc # "idle"
    <3>1. Commits(r) => req'[r].pc = "done"
      BY DEF Commits
    <3> QED BY <1>0, <2>2, <3>1, WhichModel DEF AllApart, Apart, Others, Ended
  <2> QED BY <2>1, <2>2, WhichModel DEF Apart
<1> QED BY <1>2, <1>3 DEF AllApart
----------------------------------------------------------------------------
(* Complete bundles.                                                           *)

\* A deletion that is done stays done.
LEMMA DeletedStays ==
    ASSUME NEW r \in Reqs, Takes(r), NEW q \in Reqs, DeletedBefore(q), Row(q)' = Row(q)
    PROVE  DeletedBefore(q)'
<1>1. PICK p \in Reqs \ {q} : req[p].kind = "delete" /\ req[p].pc = "done" /\ Row(p) = Row(q)
  BY DEF DeletedBefore
<1>2. req'[p] = req[p]
  BY <1>1, NotOver DEF Others, Ended
<1>3. Row(p)' = Row(p)
  BY <1>2 DEF Row
<1> QED BY <1>1, <1>2, <1>3 DEF DeletedBefore

\* Who has swept a version's prefix has done so for good.
LEMMA SweptStays ==
    ASSUME Shape, NEW r \in Reqs, Takes(r), NEW v, NEW q \in Reqs, HasSwept(q, v)
    PROVE  HasSwept(q, v)'
<1>0. Others(r) /\ req[r].pc \notin Ended
  BY NotOver
<1>3. (req'[q].model = req[q].model /\ req'[q].number = req[q].number
         /\ req'[q].maker = req[q].maker /\ DeletedBefore(q)) => DeletedBefore(q)'
  BY DeletedStays DEF Row
<1>1. CASE q # r
  BY <1>0, <1>1, <1>3 DEF Others, HasSwept
<1>2. CASE q = r
  <2>1. /\ q # v.maker
        /\ \/ /\ req[r].kind = "purge" /\ req[r].model = v.model /\ req[r].pc \in {"collect", "drop"}
           \/ /\ req[r].kind = "delete" /\ req[r].model = v.model /\ req[r].number = v.number
              /\ req[r].maker = v.maker \/ DeletedBefore(r)
              /\ req[r].pc \in {"collect", "drop"}
           \/ /\ req[r].kind = "reconcile" /\ v.model \in req[r].orphans
              /\ req[r].pc \notin {"idle", "check"}
    BY <1>0, <1>2 DEF HasSwept, Ended
  <2>2. req[r].pc \notin {"idle", "check"}
    BY <2>1
  <2>3. CASE Keeps(r) /\ req'[r].pc \in {"drop", "done", "failed", "crashed"}
    BY <1>2, <1>3, <2>1, <2>3 DEF Keeps, HasSwept, Ended
  <2>4. CASE Keeps(r) /\ req[r].pc \notin {"collect", "drop"} /\ req'[r].pc \notin {"idle", "check"}
    BY <1>2, <2>1, <2>4 DEF Keeps, HasSwept
  <2>5. CASE Picks(r)
    BY <1>2, <2>1, <2>5 DEF Picks, HasSwept
  <2>6. CASE \/ BeginsUpload(r) \/ BeginsVersion(r) \/ BeginsPurge(r) \/ BeginsDelete(r)
             \/ BeginsReconcile(r) \/ Checks(r)
    BY <2>2, <2>6 DEF BeginsUpload, BeginsVersion, BeginsPurge, BeginsDelete, BeginsReconcile,
                      Begins, Checks
  <2>7. CASE Locks(r)
    BY <2>1, <2>7 DEF Locks
  <2>8. CASE (\E f \in Files : Puts(r, f)) \/ Commits(r) \/ Drops(r)
    BY <2>3, <2>4, <2>8 DEF Puts, Commits, Drops
  <2>9. CASE Sweeps(r)
    <3>1. req[r].pc = "sweep" /\ req'[r].pc = AfterSweep(r) /\ Keeps(r)
      BY <2>9 DEF Sweeps
    <3>2. AfterSweep(r) \in {"failed", "collect", "next"}
      BY <3>1, AfterSweepIs
    <3> QED BY <2>4, <3>1, <3>2
  <2>10. CASE \/ GivesUp(r) \/ Cleans(r) \/ Abandons(r) \/ Stops(r) \/ Lists(r) \/ CannotSweep(r)
              \/ Concludes(r)
    BY <2>4, <2>10 DEF GivesUp, Cleans, Abandons, Stops, Lists, CannotSweep, Concludes, Turns
  <2>11. CASE Collects(r) \/ CannotDrop(r) \/ Dies(r)
    BY <2>3, <2>11 DEF Collects, CannotDrop, Dies, Turns
  <2> QED BY <1>2, <2>5, <2>6, <2>7, <2>8, <2>9, <2>10, <2>11, <1>2 DEF Takes
<1> QED BY <1>1, <1>2

Bundled(v, f) == [model |-> v.model, number |-> v.number, file |-> f, by |-> v.maker]
Complete(v, F) ==
    (\A f \in F : Bundled(v, f) \in objects) \/ \E q \in Reqs : HasSwept(q, v)

Kept ==
    /\ \A v \in versions : Complete(v, Files)
    /\ \A r \in Reqs : req[r].pc = "put" => Complete(NewRow(r), Files \ req[r].left)

LEMMA KeptInit == Init => Kept
BY DEF Init, Idle, Kept, Complete, Bundled

\* A model and a number name one row.
Numbered == \A v, w \in versions : v.model = w.model /\ v.number = w.number => v = w

LEMMA NumberedInit == Init => Numbered
BY DEF Init, Numbered

\* Only uploads under its number and sweeps of its prefix touch a bundle.
LEMMA ObjectsStay ==
    ASSUME NEW r \in Reqs, Takes(r)
    PROVE  objects' = objects \/ (\E f \in Files : Puts(r, f)) \/ Sweeps(r)
<1>1. CASE \/ BeginsUpload(r) \/ BeginsVersion(r) \/ BeginsPurge(r) \/ BeginsDelete(r)
           \/ BeginsReconcile(r) \/ Locks(r) \/ Checks(r) \/ Picks(r) \/ Commits(r) \/ Drops(r)
  BY <1>1 DEF BeginsUpload, BeginsVersion, BeginsPurge, BeginsDelete, BeginsReconcile, Begins,
              Locks, Checks, Picks, Commits, Drops
<1>2. CASE \/ GivesUp(r) \/ Cleans(r) \/ Abandons(r) \/ Stops(r) \/ Lists(r) \/ CannotSweep(r)
           \/ Collects(r) \/ CannotDrop(r) \/ Concludes(r) \/ Dies(r)
  BY <1>2 DEF GivesUp, Cleans, Abandons, Stops, Lists, CannotSweep, Collects, CannotDrop,
              Concludes, Dies, Turns
<1> QED BY <1>1, <1>2 DEF Takes

\* Only a deletion takes a row, and one that it has collected.
LEMMA OnlyDropsTake ==
    ASSUME NEW r \in Reqs, Takes(r), NEW v \in versions, v \notin versions'
    PROVE  Drops(r) /\ v \in req[r].rows
<1>1. CASE \/ BeginsUpload(r) \/ BeginsVersion(r) \/ BeginsPurge(r) \/ BeginsDelete(r)
           \/ BeginsReconcile(r) \/ Locks(r) \/ Checks(r) \/ Picks(r)
  BY <1>1 DEF BeginsUpload, BeginsVersion, BeginsPurge, BeginsDelete, BeginsReconcile,
              Begins, Locks, Checks, Picks
<1>2. CASE (\E f \in Files : Puts(r, f)) \/ Commits(r) \/ Sweeps(r) \/ Drops(r)
  BY <1>2 DEF Puts, Commits, Sweeps, Drops
<1>3. CASE \/ GivesUp(r) \/ Cleans(r) \/ Abandons(r) \/ Stops(r) \/ Lists(r) \/ CannotSweep(r)
           \/ Collects(r) \/ CannotDrop(r) \/ Concludes(r) \/ Dies(r)
  BY <1>3 DEF GivesUp, Cleans, Abandons, Stops, Lists, CannotSweep, Collects, CannotDrop,
              Concludes, Dies, Turns
<1> QED BY <1>1, <1>2, <1>3 DEF Takes

\* A deletion of a version that goes on has its row before it, unless another
\* deletion took it.
PurgedBefore(m) ==
    \E p \in Reqs : req[p].kind = "purge" /\ req[p].model = m /\ req[p].pc = "done"
Backed(q) ==
    req[q].kind = "delete" /\ req[q].pc \in {"list", "sweep"} =>
        Row(q) \in versions \/ DeletedBefore(q) \/ PurgedBefore(req[q].model)
AllBacked == \A q \in Reqs : Backed(q)

LEMMA BackedInit == Init => AllBacked
BY DEF Init, Idle, AllBacked, Backed

\* Which steps lead a deletion of a version to its listing
LEMMA ToList ==
    ASSUME Shape, Duties, NEW r \in Reqs, Takes(r), req'[r].kind = "delete",
           req'[r].pc \in {"list", "sweep"}
    PROVE  BeginsDelete(r) \/ Lists(r)
<1>0. Filled(r) /\ Duty(r)
  BY DEF Shape, Duties
<1>1. CASE \/ BeginsUpload(r) \/ BeginsVersion(r) \/ BeginsPurge(r) \/ BeginsDelete(r)
           \/ BeginsReconcile(r) \/ Locks(r) \/ Checks(r) \/ Picks(r)
  BY <1>0, <1>1 DEF BeginsUpload, BeginsVersion, BeginsPurge, BeginsReconcile, Begins, Locks,
                    Checks, Picks, Filled
<1>2. CASE (\E f \in Files : Puts(r, f)) \/ Commits(r) \/ Drops(r)
  BY <1>2 DEF Puts, Commits, Drops
<1>3. CASE Sweeps(r)
  <2>1. AfterSweep(r) \in {"failed", "collect", "next"}
    BY <1>3, AfterSweepIs DEF Sweeps
  <2> QED BY <1>3, <2>1 DEF Sweeps
<1>4. CASE Cleans(r) \/ Stops(r)
  BY <1>0, <1>4 DEF Cleans, Stops, Turns, Keeps, Filled, Duty
<1>5. CASE \/ GivesUp(r) \/ Abandons(r) \/ Lists(r) \/ CannotSweep(r)
           \/ Collects(r) \/ CannotDrop(r) \/ Concludes(r) \/ Dies(r)
  BY <1>5 DEF GivesUp, Abandons, CannotSweep, Collects, CannotDrop, Concludes, Dies, Turns
<1> QED BY <1>1, <1>2, <1>3, <1>4, <1>5 DEF Takes

LEMMA BackedStep ==
    ASSUME Shape, Duties, AllBacked, NEW r \in Reqs, Takes(r) PROVE AllBacked'
<1>0. Others(r) /\ req[r].pc \notin Ended
  BY NotOver
\* Whatever a deletion goes by outlives a step.
<1>1. ASSUME NEW q \in Reqs, req[q].kind = "delete", Row(q)' = Row(q),
             req'[q].model = req[q].model, q # r \/ Lists(r),
             Row(q) \in versions \/ DeletedBefore(q) \/ PurgedBefore(req[q].model)
      PROVE  Row(q)' \in versions' \/ DeletedBefore(q)' \/ PurgedBefore(req[q].model)'
  <2>1. CASE Row(q) \in versions /\ Row(q) \notin versions'
    <3>1. Drops(r) /\ Row(q) \in req[r].rows
      BY <2>1, OnlyDropsTake
    <3>2. req[r].pc = "drop" /\ req'[r].pc = "done" /\ Keeps(r) /\ Duty(r) /\ q # r
      BY <1>1, <3>1 DEF Drops, Duties, Lists, Turns
    <3>3. CASE req[r].kind = "delete"
      <4>1. Row(q) = Row(r) /\ Row(r)' = Row(r) /\ req'[r].kind = "delete"
        BY <3>1, <3>2, <3>3 DEF Duty, Keeps, Row
      <4> QED BY <1>1, <3>2, <4>1 DEF DeletedBefore
    <3>4. CASE req[r].kind = "purge"
      <4>1. req[q].model = req[r].model /\ req'[r].kind = "purge" /\ req'[r].model = req[r].model
        BY <3>1, <3>2, <3>4 DEF Duty, Keeps, Row
      <4> QED BY <1>1, <3>2, <4>1 DEF PurgedBefore
    <3> QED BY <3>2, <3>3, <3>4 DEF Duty
  <2>2. CASE Row(q) \in versions'
    BY <1>1, <2>2
  <2>3. CASE DeletedBefore(q)
    BY <1>1, <2>3, DeletedStays
  <2>4. CASE PurgedBefore(req[q].model)
    <3>1. PICK p \in Reqs : /\ req[p].kind = "purge" /\ req[p].model = req[q].model
                            /\ req[p].pc = "done"
      BY <2>4 DEF PurgedBefore
    <3>2. req'[p] = req[p]
      BY <1>0, <3>1 DEF Others, Ended
    <3> QED BY <1>1, <3>1, <3>2 DEF PurgedBefore
  <2> QED BY <1>1, <2>1, <2>2, <2>3, <2>4
<1>2. ASSUME NEW q \in Reqs, q # r PROVE Backed(q)'
  <2>1. req'[q] = req[q] /\ Row(q)' = Row(q) /\ Backed(q)
    BY <1>0, <1>2 DEF Others, Row, AllBacked
  <2>2. req[q].kind = "delete" /\ req[q].pc \in {"list", "sweep"} =>
          Row(q)' \in versions' \/ DeletedBefore(q)' \/ PurgedBefore(req[q].model)'
    BY <1>1, <1>2, <2>1 DEF Backed
  <2> QED BY <2>1, <2>2 DEF Backed
<1>3. Backed(r)'
  <2> SUFFICES ASSUME req'[r].kind = "delete", req'[r].pc \in {"list", "sweep"}
               PROVE  Row(r)' \in versions' \/ DeletedBefore(r)' \/ PurgedBefore(req[r].model)'
    BY DEF Backed
  <2>1. CASE BeginsDelete(r)
    BY <2>1 DEF BeginsDelete, Begins
  <2>2. CASE Lists(r)
    <3>1. req[r].pc = "list" /\ req[r].kind = "delete" /\ Row(r)' = Row(r)
          /\ req'[r].model = req[r].model /\ Backed(r)
      BY <2>2 DEF Lists, Turns, Keeps, Row, AllBacked
    <3> QED BY <1>1, <2>2, <3>1 DEF Backed
  <2> QED BY <2>1, <2>2, ToList
<1> QED BY <1>2, <1>3 DEF AllBacked

\* A bundle, or the part of one that is stored, outlives a step of another request
\* unless that request sweeps it.
LEMMA CompleteStays ==
    ASSUME Shape, Duties, NEW r \in Reqs, Takes(r), NEW v, v.maker # r,
           req[r].pc = "put" => req[r].model # v.model \/ req[r].number # v.number,
           req[r].kind = "upload" /\ req[r].pc = "sweep" => req[r].model # v.model,
           Row(r) \in versions /\ req[r].model = v.model /\ req[r].number = v.number =>
               req[r].maker = v.maker,
           Backed(r), \A p \in Reqs : req[p].kind = "purge" => p # v.maker,
           NEW F, Complete(v, F)
    PROVE  Complete(v, F)'
<1>1. CASE \E q \in Reqs : HasSwept(q, v)
  BY <1>1, SweptStays DEF Complete
<1>2. CASE \A f \in F : Bundled(v, f) \in objects
  <2>1. CASE objects' = objects
    BY <1>2, <2>1 DEF Complete, Bundled
  <2>2. ASSUME NEW g \in Files, Puts(r, g) PROVE Complete(v, F)'
    <3>1. ASSUME NEW f \in F PROVE Bundled(v, f) \in objects'
      <4>1. Bundled(v, f) \in objects
        BY <1>2
      <4>2. KeyOf(Bundled(v, f)) # KeyOf(NewObject(r, g))
        BY <2>2 DEF Puts, KeyOf, Bundled, NewObject
      <4> QED BY <2>2, <4>1, <4>2 DEF Puts
    <3> QED BY <3>1 DEF Complete, Bundled
  <2>3. CASE Sweeps(r)
    <3>0. /\ Keeps(r) /\ req[r].pc = "sweep" /\ req'[r].pc = AfterSweep(r)
          /\ \A o \in objects \ objects' : KeyOf(o) \in req[r].keys
      BY <2>3 DEF Sweeps
    <3>1. CASE \A f \in F : Bundled(v, f) \in objects'
      BY <3>1 DEF Complete, Bundled
    <3>2. CASE \E f \in F : Bundled(v, f) \notin objects'
      <4>1. PICK f \in F : KeyOf(Bundled(v, f)) \in req[r].keys
        BY <1>2, <3>0, <3>2
      <4>2. /\ KeyOf(Bundled(v, f)).model = req[r].model
            /\ \/ req[r].kind \in {"purge", "reconcile"}
               \/ KeyOf(Bundled(v, f)).number = req[r].number
        BY <3>0, <4>1 DEF Duties, Duty
      <4>3. /\ v.model = req[r].model
            /\ req[r].kind \in {"purge", "reconcile"} \/ v.number = req[r].number
        BY <4>2 DEF KeyOf, Bundled
      <4>4. req[r].kind \in Kinds
        BY <3>0 DEF Shape, Filled
      <4>5. CASE req[r].kind = "purge"
        <5>1. req'[r].pc = "collect"
          BY <3>0, <4>5 DEF AfterSweep
        <5>2. HasSwept(r, v)'
          BY <3>0, <4>3, <4>5, <5>1 DEF Keeps, HasSwept
        <5> QED BY <5>2 DEF Complete
      <4>8. CASE req[r].kind = "delete"
        <5>1. /\ req'[r].pc = "collect" /\ Row(r)' = Row(r)
              /\ v.model = req[r].model /\ v.number = req[r].number
          BY <3>0, <4>3, <4>8 DEF AfterSweep, Keeps, Row
        <5>2. CASE Row(r) \in versions \/ DeletedBefore(r)
          <6>1. req[r].maker = v.maker \/ DeletedBefore(r)'
            BY <5>1, <5>2, DeletedStays
          <6>2. HasSwept(r, v)'
            BY <3>0, <4>8, <5>1, <6>1 DEF Keeps, HasSwept
          <6> QED BY <6>2 DEF Complete
        <5>3. CASE PurgedBefore(req[r].model)
          <6>1. PICK p \in Reqs : /\ req[p].kind = "purge" /\ req[p].model = req[r].model
                                  /\ req[p].pc = "done"
            BY <5>3 DEF PurgedBefore
          <6>2. HasSwept(p, v)
            BY <5>1, <6>1 DEF HasSwept, Ended
          <6> QED BY <6>2, SweptStays DEF Complete
        <5> QED BY <3>0, <4>8, <5>2, <5>3 DEF Backed
      <4>6. CASE req[r].kind = "version"
        <5>1. req'[r].pc = "failed"
          BY <3>0, <4>6 DEF AfterSweep
        <5>2. HasSwept(r, v)'
          BY <3>0, <4>3, <4>6, <5>1 DEF Keeps, HasSwept
        <5> QED BY <5>2 DEF Complete
      <4>7. CASE req[r].kind = "reconcile"
        <5>1. v.model \in req[r].orphans
          BY <3>0, <4>3, <4>7 DEF Duties, Duty
        <5>2. HasSwept(r, v)
          BY <3>0, <4>7, <5>1 DEF HasSwept
        <5> QED BY <5>2, SweptStays DEF Complete
      <4> QED BY <3>0, <4>3, <4>4, <4>5, <4>6, <4>7, <4>8 DEF Kinds
    <3> QED BY <3>1, <3>2
  <2> QED BY <2>1, <2>2, <2>3, ObjectsStay
<1> QED BY <1>1, <1>2 DEF Complete

\* Which rows there are after a step, and who stores files.
LEMMA RowsStay ==
    ASSUME Shape, NEW r \in Reqs, Takes(r)
    PROVE  /\ versions' \subseteq versions \/ Commits(r)
           /\ \/ req'[r].pc # "put" \/ req'[r].left = Files
              \/ \E f \in Files : Puts(r, f)
<1>1. CASE \/ BeginsUpload(r) \/ BeginsVersion(r) \/ BeginsPurge(r) \/ BeginsDelete(r)
           \/ BeginsReconcile(r) \/ Locks(r) \/ Checks(r) \/ Picks(r)
  BY <1>1 DEF BeginsUpload, BeginsVersion, BeginsPurge, BeginsDelete, BeginsReconcile, Begins,
              Locks, Checks, Picks
<1>2. CASE Commits(r) \/ Drops(r)
  BY <1>2 DEF Commits, Drops
<1>3. CASE \E f \in Files : Puts(r, f)
  BY <1>3 DEF Puts
<1>4. CASE Sweeps(r)
  <2>1. AfterSweep(r) \in {"failed", "collect", "next"}
    BY <1>4, AfterSweepIs DEF Sweeps
  <2> QED BY <1>4, <2>1 DEF Sweeps
<1>5. CASE \/ GivesUp(r) \/ Cleans(r) \/ Abandons(r) \/ Stops(r) \/ Lists(r) \/ CannotSweep(r)
           \/ Collects(r) \/ CannotDrop(r) \/ Concludes(r) \/ Dies(r)
  BY <1>5 DEF GivesUp, Cleans, Abandons, Stops, Lists, CannotSweep, Collects, CannotDrop,
              Concludes, Dies, Turns
<1> QED BY <1>1, <1>2, <1>3, <1>4, <1>5 DEF Takes

LEMMA NumberedStep ==
    ASSUME Shape, Exclusive, AllApart, Numbered, NEW r \in Reqs, Takes(r) PROVE Numbered'
<1>1. CASE versions' \subseteq versions
  BY <1>1 DEF Numbered
<1>2. CASE Commits(r)
  <2>1. /\ versions' = versions \cup {NewRow(r)} /\ req[r].pc = "put"
        /\ req[r].kind = "upload" \/ ~NumberTaken(r)
    BY <1>2 DEF Commits
  <2>2. NewRow(r).model = req[r].model /\ NewRow(r).number = req[r].number
    BY DEF NewRow
  <2>3. \A v \in versions : v.model # req[r].model \/ v.number # req[r].number
    BY <2>1, ApartFromRows DEF NumberTaken
  <2> QED BY <2>1, <2>2, <2>3 DEF Numbered
<1> QED BY <1>1, <1>2, RowsStay

LEMMA KeptStep ==
    ASSUME Shape, Exclusive, Duties, AllApart, Numbered, AllBacked, Kept, NEW r \in Reqs, Takes(r)
    PROVE  Kept'
<1>0. Others(r) /\ req[r].pc \notin Ended /\ UploadsAreExclusive /\ Filled(r)
  BY NotOver, ExclusiveMeans DEF Shape
\* ... of a row that there was before
<1>1. ASSUME NEW v \in versions PROVE Complete(v, Files)'
  <2>1. v.maker # r
    BY <1>0, SeedAssumption DEF Exclusive, Made, Ended
  <2>2. req[r].pc = "put" => req[r].model # v.model \/ req[r].number # v.number
    BY <1>0 DEF UploadsAreExclusive, NumberTaken
  <2>3. req[r].kind = "upload" /\ req[r].pc = "sweep" => req[r].model # v.model
    BY ApartFromRows
  <2>4. Row(r) \in versions /\ req[r].model = v.model /\ req[r].number = v.number =>
          req[r].maker = v.maker
    <3>1. Row(r).model = req[r].model /\ Row(r).number = req[r].number /\ Row(r).maker = req[r].maker
      BY DEF Row
    <3> QED BY <3>1 DEF Numbered
  <2>5. \A p \in Reqs : req[p].kind = "purge" => p # v.maker
    BY SeedAssumption DEF Exclusive, Made
  <2> QED BY <2>1, <2>2, <2>3, <2>4, <2>5, CompleteStays DEF Kept, AllBacked
\* ... of another upload
<1>2. ASSUME NEW q \in Reqs \ {r}, req[q].pc = "put"
      PROVE  Complete(NewRow(q), Files \ req[q].left)' /\ NewRow(q)' = NewRow(q) /\ req'[q] = req[q]
  <2>1. req'[q] = req[q] /\ NewRow(q)' = NewRow(q)
    BY <1>0 DEF Others, NewRow
  <2>2. NewRow(q).maker # r /\ NewRow(q).model = req[q].model /\ NewRow(q).number = req[q].number
    BY DEF NewRow
  <2>3. req[r].pc = "put" => req[r].model # req[q].model \/ req[r].number # req[q].number
    BY <1>0, <1>2 DEF UploadsAreExclusive
  <2>4. req[q].kind \in {"upload", "version"}
    BY <1>2 DEF Shape, Filled
  <2>5. req[r].kind = "upload" /\ req[r].pc = "sweep" => req[r].model # req[q].model
    BY <2>4 DEF AllApart, Apart
  <2>6. Complete(NewRow(q), Files \ req[q].left)
    BY <1>2 DEF Kept
  <2>7. PICK v : v = NewRow(q)
    OBVIOUS
  <2>8. PICK F : F = Files \ req[q].left
    OBVIOUS
  <2>10. ~(Row(r) \in versions /\ req[r].model = v.model /\ req[r].number = v.number)
    <3>1. Row(r).model = req[r].model /\ Row(r).number = req[r].number
      BY DEF Row
    <3>2. ~NumberTaken(q)
      BY <1>0, <1>2 DEF UploadsAreExclusive
    <3> QED BY <2>2, <2>7, <3>1, <3>2 DEF NumberTaken
  <2>11. \A p \in Reqs : req[p].kind = "purge" => p # v.maker
    BY <2>4, <2>7 DEF NewRow
  <2>9. Complete(v, F)'
    BY <2>2, <2>3, <2>5, <2>6, <2>7, <2>8, <2>10, <2>11, CompleteStays DEF AllBacked
  <2> QED BY <2>1, <2>7, <2>8, <2>9
\* ... of the request itself
<1>3. ASSUME req'[r].pc = "put" PROVE Complete(NewRow(r), Files \ req[r].left)'
  <2>1. CASE req'[r].left = Files
    BY <2>1 DEF Complete
  <2>2. ASSUME NEW f \in Files, Puts(r, f) PROVE Complete(NewRow(r), Files \ req[r].left)'
    <3>1. /\ NewRow(r)' = NewRow(r) /\ req[r].pc = "put" /\ req'[r].left = req[r].left \ {f}
          /\ objects' = {o \in objects : KeyOf(o) # KeyOf(NewObject(r, f))} \cup {NewObject(r, f)}
      BY <2>2 DEF Puts, Keeps, NewRow
    <3>2. CASE \E q \in Reqs : HasSwept(q, NewRow(r))
      <4>1. PICK q \in Reqs : HasSwept(q, NewRow(r))
        BY <3>2
      <4>2. HasSwept(q, NewRow(r))'
        BY <3>1, <4>1, SweptStays
      <4> QED BY <4>2 DEF Complete
    <3>3. CASE \A g \in Files \ req[r].left : Bundled(NewRow(r), g) \in objects
      <4>1. \A g \in Files : Bundled(NewRow(r), g) = NewObject(r, g)
        BY DEF Bundled, NewRow, NewObject
      <4>2. \A g \in Files \ {f} : KeyOf(NewObject(r, g)) # KeyOf(NewObject(r, f))
        BY DEF KeyOf, NewObject
      <4>3. \A g \in Files \ req'[r].left : Bundled(NewRow(r), g) \in objects'
        BY <3>1, <3>3, <4>1, <4>2
      <4>4. \A g \in Files \ req'[r].left : Bundled(NewRow(r)', g) \in objects'
        BY <3>1, <4>3
      <4> QED BY <4>4 DEF Complete, Bundled
    <3> QED BY <3>1, <3>2, <3>3 DEF Kept, Complete
  <2> QED BY <1>3, <2>1, <2>2, RowsStay
\* ... of the row that it commits
<1>4. ASSUME Commits(r) PROVE Complete(NewRow(r), Files)' /\ NewRow(r)' = NewRow(r)
  <2>1. /\ NewRow(r)' = NewRow(r) /\ req[r].pc = "put" /\ req[r].left = {} /\ objects' = objects
    BY <1>4 DEF Commits, Keeps, NewRow
  <2>2. Complete(NewRow(r), Files)
    BY <2>1 DEF Kept
  <2>3. PICK v : v = NewRow(r)
    OBVIOUS
  <2>4. Complete(v, Files)'
    BY <2>1, <2>2, <2>3, SweptStays DEF Complete, Bundled
  <2> QED BY <2>1, <2>3, <2>4
<1>5. ASSUME NEW v \in versions' PROVE Complete(v, Files)'
  <2>1. CASE v \in versions
    BY <1>1, <2>1
  <2>2. CASE v \notin versions
    <3>1. Commits(r) /\ v = NewRow(r)
      BY <2>2, RowsStay DEF Commits
    <3>2. PICK w : w = NewRow(r)
      OBVIOUS
    <3> QED BY <1>4, <3>1
  <2> QED BY <2>1, <2>2
<1>6. ASSUME NEW q \in Reqs, req'[q].pc = "put" PROVE Complete(NewRow(q), Files \ req[q].left)'
  <2>1. CASE q = r
    BY <1>3, <1>6, <2>1
  <2>2. CASE q # r
    <3>1. req[q].pc = "put"
      BY <1>0, <1>6, <2>2 DEF Others
    <3> QED BY <1>2, <2>2, <3>1
  <2> QED BY <2>1, <2>2
<1> QED BY <1>5, <1>6 DEF Kept

\* A step of nobody's.
LEMMA KeptStutter ==
    ASSUME Kept, UNCHANGED <<models, versions, objects, req, spared>> PROVE Kept'
<1>1. ASSUME NEW v, NEW F, Complete(v, F) PROVE Complete(v, F)'
  BY <1>1 DEF Complete, Bundled, HasSwept, DeletedBefore, Row
<1>2. ASSUME NEW r \in Reqs, req'[r].pc = "put" PROVE Complete(NewRow(r), Files \ req[r].left)'
  <2>1. NewRow(r)' = NewRow(r) /\ req'[r].left = req[r].left /\ req[r].pc = "put"
    BY <1>2 DEF NewRow
  <2>2. PICK v : v = NewRow(r)
    OBVIOUS
  <2>3. PICK F : F = Files \ req[r].left
    OBVIOUS
  <2>4. Complete(v, F)'
    BY <1>1, <2>1, <2>2, <2>3 DEF Kept
  <2> QED BY <2>1, <2>2, <2>3, <2>4
<1>3. ASSUME NEW v \in versions' PROVE Complete(v, Files)'
  BY <1>1 DEF Kept
<1> QED BY <1>2, <1>3 DEF Kept

\* Every version a client can deploy names the complete bundle of its own upload,
\* unless the deletion of this very row or of its model was asked for, an upload of
\* its number failed, an earlier row of its number was deleted twice, or an operator
\* reconciled while its model was uploaded.
THEOREM VersionsCorrect == Spec => []VersionsAreIntact
<1> DEFINE Inv == Shape /\ Counters /\ Exclusive /\ Duties /\ AllApart /\ Numbered /\ AllBacked /\ Kept
<1>1. Init => Inv
  BY ShapeInit, ExclusiveInit, DutiesInit, ApartInit, NumberedInit, BackedInit, KeptInit
<1>2. Inv /\ [Next]_vars => Inv'
  <2> SUFFICES ASSUME Inv, [Next]_vars PROVE Inv'
    OBVIOUS
  <2>1. (Shape /\ Counters /\ Exclusive)'
    BY ShapeNext, CountersNext, ExclusiveNext
  <2>2. ASSUME NEW r \in Reqs, Takes(r) PROVE (Duties /\ AllApart /\ Numbered /\ AllBacked /\ Kept)'
    BY <2>2, DutiesStep, ApartStep, NumberedStep, BackedStep, KeptStep
  <2>3. CASE UNCHANGED <<models, versions, objects, req, spared>>
    <3>1. Duties' /\ AllApart' /\ Numbered'
      BY <2>3 DEF Duties, Duty, Row, AllApart, Apart, Numbered
    <3>3. AllBacked'
      BY <2>3 DEF AllBacked, Backed, DeletedBefore, PurgedBefore, Row
    <3>2. Kept'
      BY <2>3, KeptStutter
    <3> QED BY <2>1, <3>1, <3>2, <3>3
  <2> QED BY <2>1, <2>2, <2>3, NextTakes
<1>3. Inv => VersionsAreIntact
  BY DEF Kept, Complete, Bundled, VersionsAreIntact
<1> QED BY <1>1, <1>2, <1>3, PTL DEF Spec
----------------------------------------------------------------------------
(* Nothing stranded.                                                           *)

\* Who has not begun is about no model.
Blank(r) == req[r].pc = "idle" => req[r].model \notin Models

\* A deletion names a row whose upload is over, an uploader stores under its own
\* number.
MadeRow(r) ==
    req[r].kind = "delete" /\ req[r].pc # "idle" =>
        \/ req[r].maker = Seed
        \/ req[r].maker \in Reqs /\ req[req[r].maker].pc = "done"
Tagged(o) ==
    o.by \in Reqs =>
        /\ req[o.by].kind \in {"upload", "version"} /\ req[o.by].pc \notin {"idle", "lock"}
        /\ req[o.by].model = o.model /\ req[o.by].number = o.number

\* What a clean-up or a deletion has listed is all that there is to delete.
ListsOwn(r) ==
    req[r].pc = "sweep" /\ req[r].kind \in {"upload", "version"} =>
        \A o \in objects : o.by = r => KeyOf(o) \in req[r].keys
Under(o, r) == o.model = req[r].model /\ o.number = req[r].number
Emptied(r) ==
    req[r].kind = "delete" /\ Row(r) \in versions =>
        /\ req[r].pc = "sweep" => \A o \in objects : Under(o, r) => KeyOf(o) \in req[r].keys
        /\ req[r].pc \in {"collect", "drop"} => \A o \in objects : Under(o, r) => o \in spared

Listed ==
    /\ \A r \in Reqs : Blank(r) /\ MadeRow(r) /\ ListsOwn(r) /\ Emptied(r)
    /\ \A o \in objects : Tagged(o)

LEMMA ListedInit == Init => Listed
<1> SUFFICES ASSUME Init PROVE Listed
  OBVIOUS
<1>2. \A r \in Reqs : req[r] = Idle
  BY DEF Init
<1>3. \A r \in Reqs : Blank(r) /\ MadeRow(r) /\ ListsOwn(r) /\ Emptied(r)
  BY <1>2, NoneAssumption DEF Idle, Blank, MadeRow, ListsOwn, Emptied
<1>4. \A o \in objects : Tagged(o)
  BY SeedAssumption DEF Init, Tagged
<1> QED BY <1>3, <1>4 DEF Listed

\* A request keeps to its kind, model and number once it stores files, and a record
\* that is over does not change.
LEMMA StoredStays ==
    ASSUME Shape, NEW r \in Reqs, Takes(r), req[r].kind \in {"upload", "version"},
           req[r].pc \notin {"idle", "lock"}
    PROVE  /\ req'[r].kind = req[r].kind /\ req'[r].pc \notin {"idle", "lock"}
           /\ req'[r].model = req[r].model /\ req'[r].number = req[r].number
<1>0. Filled(r) /\ req[r].pc \notin {"check", "next"}
  BY DEF Shape, Filled
<1>1. ~BeginsUpload(r) /\ ~BeginsVersion(r) /\ ~BeginsPurge(r) /\ ~BeginsDelete(r)
      /\ ~BeginsReconcile(r) /\ ~Locks(r) /\ ~Checks(r) /\ ~Picks(r)
  BY <1>0 DEF BeginsUpload, BeginsVersion, BeginsPurge, BeginsDelete, BeginsReconcile, Begins,
              Locks, Checks, Picks
<1>2. CASE (\E f \in Files : Puts(r, f)) \/ Commits(r) \/ Drops(r)
  BY <1>2 DEF Puts, Commits, Drops, Keeps
<1>3. CASE Sweeps(r)
  <2>1. AfterSweep(r) \in {"failed", "collect", "next"}
    BY <1>3, AfterSweepIs DEF Sweeps
  <2> QED BY <1>3, <2>1 DEF Sweeps, Keeps
<1>4. CASE \/ GivesUp(r) \/ Cleans(r) \/ Abandons(r) \/ Stops(r) \/ Lists(r) \/ CannotSweep(r)
           \/ Collects(r) \/ CannotDrop(r) \/ Concludes(r) \/ Dies(r)
  BY <1>4 DEF GivesUp, Cleans, Abandons, Stops, Lists, CannotSweep, Collects, CannotDrop,
              Concludes, Dies, Turns, Keeps
<1> QED BY <1>1, <1>2, <1>3, <1>4 DEF Takes

\* Which objects a step leaves
LEMMA FewObjects ==
    ASSUME NEW r \in Reqs, Takes(r)
    PROVE  objects' \subseteq objects
           \/ \E f \in Files : Puts(r, f) /\ objects' \subseteq objects \cup {NewObject(r, f)}
<1>1. ASSUME NEW f \in Files, Puts(r, f) PROVE objects' \subseteq objects \cup {NewObject(r, f)}
  BY <1>1 DEF Puts
<1>2. Sweeps(r) => objects' \subseteq objects
  BY DEF Sweeps
<1> QED BY <1>1, <1>2, ObjectsStay

LEMMA TaggedStep ==
    ASSUME Shape, \A o \in objects : Tagged(o), NEW r \in Reqs, Takes(r),
           NEW o \in objects'
    PROVE  Tagged(o)'
<1>0. Others(r)
  BY NotOver
<1>1. ASSUME o \in objects PROVE Tagged(o)'
  <2>1. Tagged(o)
    BY <1>1
  <2>2. CASE o.by = r
    BY <2>1, <2>2, StoredStays DEF Tagged
  <2>3. CASE o.by # r
    BY <1>0, <2>1, <2>3 DEF Tagged, Others
  <2> QED BY <2>2, <2>3
<1>2. ASSUME NEW f \in Files, Puts(r, f), o = NewObject(r, f) PROVE Tagged(o)'
  <2>1. req[r].kind \in {"upload", "version"} /\ req[r].pc = "put" /\ req'[r].pc = "put"
    BY <1>2 DEF Puts, Shape, Filled
  <2>2. o.by = r /\ o.model = req[r].model /\ o.number = req[r].number
    BY <1>2 DEF NewObject
  <2>3. req'[r].kind = req[r].kind /\ req'[r].model = req[r].model /\ req'[r].number = req[r].number
    BY <1>2 DEF Puts, Keeps
  <2> QED BY <2>1, <2>2, <2>3 DEF Tagged
<1> QED BY <1>1, <1>2, FewObjects

\* Where the steps lead, and from where they come.
LEMMA WhereTo ==
    ASSUME Shape, NEW r \in Reqs, Takes(r)
    PROVE  /\ req'[r].pc # "idle"
           /\ req'[r].pc = "sweep" => Lists(r)
           /\ req'[r].pc = "collect" => Sweeps(r)
           /\ req'[r].pc = "drop" => Collects(r)
<1>1. CASE \/ BeginsUpload(r) \/ BeginsVersion(r) \/ BeginsPurge(r) \/ BeginsDelete(r)
           \/ BeginsReconcile(r) \/ Locks(r) \/ Checks(r) \/ Picks(r)
  BY <1>1 DEF BeginsUpload, BeginsVersion, BeginsPurge, BeginsDelete, BeginsReconcile, Begins,
              Locks, Checks, Picks
<1>2. CASE (\E f \in Files : Puts(r, f)) \/ Commits(r) \/ Drops(r)
  BY <1>2 DEF Puts, Commits, Drops
<1>3. CASE Sweeps(r)
  <2>1. AfterSweep(r) \in {"failed", "collect", "next"}
    BY <1>3, AfterSweepIs DEF Sweeps
  <2> QED BY <1>3, <2>1 DEF Sweeps
<1>4. CASE \/ GivesUp(r) \/ Cleans(r) \/ Abandons(r) \/ Stops(r) \/ Lists(r) \/ CannotSweep(r)
           \/ Collects(r) \/ CannotDrop(r) \/ Concludes(r) \/ Dies(r)
  BY <1>4 DEF GivesUp, Cleans, Abandons, Stops, Lists, CannotSweep, Collects, CannotDrop,
              Concludes, Dies, Turns
<1> QED BY <1>1, <1>2, <1>3, <1>4 DEF Takes

\* A request that has begun keeps its subject, but for a lock taken and a prefix chosen.
LEMMA Subject ==
    ASSUME Shape, NEW r \in Reqs, Takes(r), req[r].pc # "idle"
    PROVE  \/ Keeps(r)
           \/ req[r].kind \in {"version", "reconcile"} /\ req'[r].kind = req[r].kind
<1>1. ~BeginsUpload(r) /\ ~BeginsVersion(r) /\ ~BeginsPurge(r) /\ ~BeginsDelete(r)
      /\ ~BeginsReconcile(r)
  BY DEF BeginsUpload, BeginsVersion, BeginsPurge, BeginsDelete, BeginsReconcile, Begins
<1>2. CASE Locks(r) \/ Checks(r) \/ Picks(r)
  BY <1>2 DEF Locks, Checks, Picks, Shape, Filled
<1>3. CASE (\E f \in Files : Puts(r, f)) \/ Commits(r) \/ Sweeps(r) \/ Drops(r)
  BY <1>3 DEF Puts, Commits, Sweeps, Drops
<1>4. CASE \/ GivesUp(r) \/ Cleans(r) \/ Abandons(r) \/ Stops(r) \/ Lists(r) \/ CannotSweep(r)
           \/ Collects(r) \/ CannotDrop(r) \/ Concludes(r) \/ Dies(r)
  BY <1>4 DEF GivesUp, Cleans, Abandons, Stops, Lists, CannotSweep, Collects, CannotDrop,
              Concludes, Dies, Turns
<1> QED BY <1>1, <1>2, <1>3, <1>4 DEF Takes

\* Which step makes a deletion of a version
LEMMA NewDelete ==
    ASSUME Shape, NEW r \in Reqs, Takes(r), req[r].pc = "idle", req'[r].kind = "delete"
    PROVE  BeginsDelete(r)
<1>1. ~BeginsUpload(r) /\ ~BeginsVersion(r) /\ ~BeginsPurge(r) /\ ~BeginsReconcile(r)
      /\ ~Locks(r) /\ ~Checks(r) /\ ~Picks(r)
  BY DEF BeginsUpload, BeginsVersion, BeginsPurge, BeginsReconcile, Begins, Locks, Checks, Picks
<1>2. (\A f \in Files : ~Puts(r, f)) /\ ~Commits(r) /\ ~Sweeps(r) /\ ~Drops(r)
  BY DEF Puts, Commits, Sweeps, Drops
<1>3. /\ ~GivesUp(r) /\ ~Cleans(r) /\ ~Abandons(r) /\ ~Stops(r) /\ ~Lists(r) /\ ~CannotSweep(r)
      /\ ~Collects(r) /\ ~CannotDrop(r) /\ ~Concludes(r) /\ ~Dies(r)
  BY DEF GivesUp, Cleans, Abandons, Stops, Lists, CannotSweep, Collects, CannotDrop,
         Concludes, Dies, Turns
<1> QED BY <1>1, <1>2, <1>3 DEF Takes

LEMMA MadeRowStep ==
    ASSUME Shape, Exclusive, Listed, NEW r \in Reqs, Takes(r), NEW q \in Reqs
    PROVE  MadeRow(q)'
<1>0. Others(r) /\ req[r].pc \notin Ended /\ MadeRow(q)
  BY NotOver DEF Listed
<1>1. CASE q # r
  BY <1>0, <1>1 DEF MadeRow, Others, Ended
<1>2. CASE q = r /\ req[r].pc # "idle"
  <2>1. ASSUME req'[r].kind = "delete" PROVE req[r].kind = "delete" /\ req'[r].maker = req[r].maker
    BY <1>2, <2>1, Subject DEF Keeps
  <2>2. req[r].maker \in Reqs /\ req[req[r].maker].pc = "done" => req'[req[r].maker].pc = "done"
    BY <1>0 DEF Others, Ended
  <2> QED BY <1>0, <1>2, <2>1, <2>2 DEF MadeRow
<1>3. CASE q = r /\ req[r].pc = "idle" /\ req'[r].kind = "delete"
  <2>1. Row(r)' \in versions
    BY <1>3, NewDelete DEF BeginsDelete
  <2>2. PICK v \in versions : v = Row(r)'
    BY <2>1
  <2>3. v.maker = req'[r].maker
    BY <2>2 DEF Row
  <2>4. v.maker = Seed \/ (v.maker \in Reqs /\ req[v.maker].pc = "done")
    BY DEF Exclusive, Made
  <2>5. v.maker \in Reqs /\ req[v.maker].pc = "done" => req'[v.maker].pc = "done"
    BY <1>0, <1>3 DEF Others
  <2> QED BY <1>3, <2>3, <2>4, <2>5 DEF MadeRow
<1> QED BY <1>1, <1>2, <1>3 DEF MadeRow

LEMMA ListsOwnStep ==
    ASSUME Shape, Listed, NEW r \in Reqs, Takes(r), NEW q \in Reqs
    PROVE  ListsOwn(q)'
<1>0. Others(r)
  BY NotOver
<1>1. CASE q # r
  <2>1. req'[q] = req[q] /\ ListsOwn(q)
    BY <1>0, <1>1 DEF Others, Listed
  <2>2. \A o \in objects' : o \in objects \/ o.by = r
    BY FewObjects DEF NewObject
  <2> QED BY <1>1, <2>1, <2>2 DEF ListsOwn
<1>2. ASSUME q = r, req'[r].pc = "sweep", req'[r].kind \in {"upload", "version"},
             NEW o \in objects', o.by = r
      PROVE  KeyOf(o) \in req'[r].keys
  <2>1. /\ Lists(r) /\ objects' = objects /\ req'[r].keys = Prefix(r)
    BY <1>2, WhereTo DEF Lists, Turns
  <2>2. o.model = req[r].model /\ o.number = req[r].number
    BY <1>2, <2>1 DEF Listed, Tagged
  <2> QED BY <2>1, <2>2 DEF Prefix
<1> QED BY <1>1, <1>2 DEF ListsOwn

\* A row that a deletion names was there before: its upload is over.
LEMMA NamedBefore ==
    ASSUME Shape, Listed, NEW r \in Reqs, Takes(r), NEW q \in Reqs, req[q].kind = "delete",
           req[q].pc # "idle", Row(q) \in versions'
    PROVE  Row(q) \in versions
<1>1. MadeRow(q)
  BY DEF Listed
<1>2. CASE Commits(r)
  <2>1. versions' = versions \cup {NewRow(r)} /\ req[r].pc = "put"
    BY <1>2 DEF Commits
  <2>2. req[q].maker # r
    BY <1>1, <2>1, SeedAssumption DEF MadeRow
  <2>3. Row(q) # NewRow(r)
    BY <2>2 DEF Row, NewRow
  <2> QED BY <2>1, <2>3
<1> QED BY <1>2, RowsStay

\* What storage once kept stays known.
LEMMA SparedStay ==
    ASSUME NEW r \in Reqs, Takes(r) PROVE spared \subseteq spared'
<1>1. CASE \/ BeginsUpload(r) \/ BeginsVersion(r) \/ BeginsPurge(r) \/ BeginsDelete(r)
           \/ BeginsReconcile(r) \/ Locks(r) \/ Checks(r) \/ Picks(r)
  BY <1>1 DEF BeginsUpload, BeginsVersion, BeginsPurge, BeginsDelete, BeginsReconcile, Begins,
              Locks, Checks, Picks
<1>2. CASE (\E f \in Files : Puts(r, f)) \/ Commits(r) \/ Sweeps(r) \/ Drops(r)
  BY <1>2 DEF Puts, Commits, Sweeps, Drops
<1>3. CASE \/ GivesUp(r) \/ Cleans(r) \/ Abandons(r) \/ Stops(r) \/ Lists(r) \/ CannotSweep(r)
           \/ Collects(r) \/ CannotDrop(r) \/ Concludes(r) \/ Dies(r)
  BY <1>3 DEF GivesUp, Cleans, Abandons, Stops, Lists, CannotSweep, Collects, CannotDrop,
              Concludes, Dies, Turns
<1> QED BY <1>1, <1>2, <1>3 DEF Takes

LEMMA EmptiedStep ==
    ASSUME Shape, Exclusive, Listed, NEW r \in Reqs, Takes(r), NEW q \in Reqs
    PROVE  Emptied(q)'
<1>0. Others(r) /\ Emptied(q)
  BY NotOver DEF Listed
<1>1. CASE q # r
  <2>1. req'[q] = req[q] /\ Row(q)' = Row(q)
    BY <1>0, <1>1 DEF Others, Row
  <2> SUFFICES ASSUME req[q].kind = "delete", Row(q) \in versions',
                      req[q].pc \in {"sweep", "collect", "drop"}
               PROVE  Emptied(q)'
    BY <2>1 DEF Emptied
  <2>2. Row(q) \in versions
    BY NamedBefore
  <2>3. ASSUME NEW o \in objects', Under(o, q) PROVE o \in objects
    <3>1. ASSUME NEW f \in Files, Puts(r, f), o = NewObject(r, f) PROVE FALSE
      <4>1. Row(q).model = req[r].model /\ Row(q).number = req[r].number
        BY <2>3, <3>1 DEF Under, NewObject, Row
      <4>2. ~NumberTaken(r)
        BY <3>1, ExclusiveMeans DEF UploadsAreExclusive, Puts
      <4> QED BY <2>2, <4>1, <4>2 DEF NumberTaken
    <3> QED BY <3>1, FewObjects
  <2>4. /\ req[q].pc = "sweep" => \A o \in objects' : Under(o, q) => KeyOf(o) \in req[q].keys
        /\ req[q].pc \in {"collect", "drop"} => \A o \in objects' : Under(o, q) => o \in spared'
    BY SparedStay, <1>0, <2>2, <2>3 DEF Emptied
  <2> QED BY <2>1, <2>4 DEF Emptied, Under
<1>2. CASE q = r
  <2> SUFFICES ASSUME req'[r].kind = "delete", Row(r)' \in versions',
                      req'[r].pc \in {"sweep", "collect", "drop"}
               PROVE  Emptied(r)'
    BY <1>2 DEF Emptied
  <2>1. Lists(r) \/ Sweeps(r) \/ Collects(r)
    BY WhereTo
  <2>2. /\ Keeps(r) /\ req[r].kind = "delete" /\ Row(r)' = Row(r)
        /\ req'[r].model = req[r].model /\ req'[r].number = req[r].number
        /\ versions' = versions
    BY <2>1 DEF Lists, Sweeps, Collects, Turns, Keeps, Row
  <2>3. CASE Lists(r)
    <3>1. /\ req'[r].pc = "sweep" /\ req'[r].keys = Prefix(r) /\ objects' = objects
      BY <2>3 DEF Lists, Turns
    <3>2. \A o \in objects : Under(o, r) => KeyOf(o) \in Prefix(r)
      BY <2>2 DEF Under, Prefix
    <3> QED BY <2>2, <3>1, <3>2 DEF Emptied, Under
  <2>4. CASE Sweeps(r)
    <3>1. /\ req[r].pc = "sweep" /\ req'[r].pc = "collect" /\ objects' \subseteq objects
          /\ \A o \in objects' : KeyOf(o) \in req[r].keys => o \in spared'
      BY <2>2, <2>4 DEF Sweeps, AfterSweep
    <3>2. \A o \in objects : Under(o, r) => KeyOf(o) \in req[r].keys
      BY <1>0, <1>2, <2>2, <3>1 DEF Emptied
    <3> QED BY <2>2, <3>1, <3>2 DEF Emptied, Under
  <2>5. CASE Collects(r)
    <3>1. /\ req[r].pc = "collect" /\ req'[r].pc = "drop" /\ objects' = objects
          /\ spared \subseteq spared'
      BY <2>5 DEF Collects, Turns
    <3>2. \A o \in objects : Under(o, r) => o \in spared
      BY <1>0, <1>2, <2>2, <3>1 DEF Emptied
    <3> QED BY <2>2, <3>1, <3>2 DEF Emptied, Under
  <2> QED BY <2>1, <2>3, <2>4, <2>5
<1> QED BY <1>1, <1>2

LEMMA BlankStep ==
    ASSUME Shape, Listed, NEW r \in Reqs, Takes(r), NEW q \in Reqs PROVE Blank(q)'
BY WhereTo, NotOver DEF Listed, Blank, Others

LEMMA ListedStep == ASSUME Shape, Exclusive, Listed, NEW r \in Reqs, Takes(r) PROVE Listed'
<1>1. \A q \in Reqs : Blank(q)' /\ MadeRow(q)' /\ ListsOwn(q)' /\ Emptied(q)'
  BY BlankStep, MadeRowStep, ListsOwnStep, EmptiedStep
<1>2. \A o \in objects' : Tagged(o)'
  BY TaggedStep DEF Listed
<1> QED BY <1>1, <1>2 DEF Listed

\* The reasons for which an object may be there
Named(o)  == \E v \in versions : v.model = o.model /\ v.number = o.number
Owned(o)  == o.by \in Reqs /\ req[o.by].pc \in {"put", "list", "sweep", "crashed"}
Dropped(o) == o.by \in Reqs /\ req[o.by].pc = "failed" /\ req[o.by].kind = "upload"
Purged(o) == \E q \in Reqs : req[q].kind = "purge" /\ req[q].model = o.model
Accounted == \A o \in objects : Named(o) \/ Owned(o) \/ Dropped(o) \/ o \in spared \/ Purged(o)

LEMMA AccountedInit == Init => Accounted
<1> SUFFICES ASSUME Init, NEW o \in objects PROVE Named(o)
  BY DEF Accounted
<1>1. o.model \in Seeded /\ o.number = 1
  BY DEF Init
<1>2. [model |-> o.model, number |-> 1, maker |-> Seed] \in versions
  BY <1>1 DEF Init
<1> QED BY <1>1, <1>2 DEF Named

\* The deletion of a model is never forgotten.
LEMMA PurgedStays ==
    ASSUME Shape, Listed, NEW r \in Reqs, Takes(r), NEW o \in objects, Purged(o)
    PROVE  Purged(o)'
<1>1. PICK q \in Reqs : req[q].kind = "purge" /\ req[q].model = o.model
  BY DEF Purged
<1>2. Others(r) /\ o.model \in Models /\ Blank(q)
  BY NotOver DEF Shape, Objects, Listed
<1>3. CASE q = r
  <2>1. Keeps(r)
    BY <1>1, <1>2, <1>3, Subject DEF Blank
  <2> QED BY <1>1, <1>3, <2>1 DEF Keeps, Purged
<1>4. CASE q # r
  BY <1>1, <1>2, <1>4 DEF Others, Purged
<1> QED BY <1>3, <1>4

\* The objects of a row that goes: of a deletion there are none, of a model's they are
\* its own.
LEMMA NamedStays ==
    ASSUME Shape, Listed, Duties, NEW r \in Reqs, Takes(r), NEW o \in objects, Named(o)
    PROVE  Named(o)' \/ o \in spared' \/ Purged(o)'
<1>1. PICK v \in versions : v.model = o.model /\ v.number = o.number
  BY DEF Named
<1>2. CASE v \in versions'
  BY <1>1, <1>2 DEF Named
<1>3. CASE v \notin versions'
  <2>1. Drops(r)
    BY <1>3, OnlyDropsTake
  <2>2. v \in req[r].rows /\ req[r].pc = "drop" /\ Keeps(r)
    BY <1>3, <2>1 DEF Drops
  <2>3. CASE req[r].kind = "delete"
    <3>1. v = Row(r)
      BY <2>2, <2>3 DEF Duties, Duty
    <3>2. Under(o, r) => o \in spared
      BY <2>2, <2>3, <3>1 DEF Listed, Emptied
    <3> QED BY <1>1, <3>1, <3>2, SparedStay DEF Under, Row
  <2>4. CASE req[r].kind = "purge"
    <3>1. v.model = req[r].model
      BY <2>2, <2>4 DEF Duties, Duty
    <3> QED BY <1>1, <2>2, <2>4, <3>1 DEF Keeps, Purged
  <2> QED BY <2>2, <2>3, <2>4 DEF Duties, Duty
<1> QED BY <1>2, <1>3

\* What an upload has stored: it commits, cleans up, or is excused.
LEMMA OwnedStays ==
    ASSUME Shape, Counters, Listed, NEW r \in Reqs, Takes(r), NEW o \in objects, o \in objects',
           Owned(o)
    PROVE  Named(o)' \/ Owned(o)' \/ Dropped(o)' \/ o \in spared'
<1>0. Others(r) /\ req[r].pc \notin Ended /\ Filled(r) /\ Tagged(o)
  BY NotOver DEF Shape, Listed
<1>1. CASE o.by # r
  BY <1>0, <1>1 DEF Owned, Others
<1>2. CASE o.by = r
  <2>0. /\ req[r].kind \in {"upload", "version"} /\ req[r].pc \in {"put", "list", "sweep"}
        /\ req[r].model = o.model /\ req[r].number = o.number
    BY <1>0, <1>2 DEF Owned, Tagged, Ended
  <2>1. CASE req'[r].pc \in {"put", "list", "sweep", "crashed"}
    BY <1>2, <2>1 DEF Owned
  <2>2. CASE Commits(r)
    <3>1. NewRow(r) \in versions' /\ NewRow(r).model = o.model /\ NewRow(r).number = o.number
      BY <2>0, <2>2 DEF Commits, NewRow
    <3> QED BY <3>1 DEF Named
  <2>3. CASE Abandons(r)
    BY <1>2, <2>3 DEF Abandons, Turns, Keeps, Dropped
  <2>4. CASE CannotSweep(r)
    BY <1>2, <2>4 DEF CannotSweep
  <2>5. CASE Sweeps(r)
    BY <1>2, <2>0, <2>5 DEF Sweeps, Listed, ListsOwn
  <2>6. CASE (\E f \in Files : Puts(r, f)) \/ Cleans(r) \/ Lists(r) \/ Dies(r)
    BY <2>1, <2>6 DEF Puts, Cleans, Lists, Dies, Turns
  <2>7. ~BeginsUpload(r) /\ ~BeginsVersion(r) /\ ~BeginsPurge(r) /\ ~BeginsDelete(r)
        /\ ~BeginsReconcile(r) /\ ~Locks(r) /\ ~Checks(r) /\ ~Picks(r) /\ ~Drops(r)
    BY <2>0 DEF BeginsUpload, BeginsVersion, BeginsPurge, BeginsDelete, BeginsReconcile, Begins,
                Locks, Checks, Picks, Drops
  <2>8. ~GivesUp(r) /\ ~Stops(r) /\ ~Collects(r) /\ ~CannotDrop(r) /\ ~Concludes(r)
    BY <2>0 DEF GivesUp, Stops, Collects, CannotDrop, Concludes, Turns
  <2> QED BY <2>2, <2>3, <2>4, <2>5, <2>6, <2>7, <2>8 DEF Takes
<1> QED BY <1>1, <1>2

LEMMA DroppedStays ==
    ASSUME NEW r \in Reqs, Takes(r), NEW o \in objects, Dropped(o)
    PROVE  Dropped(o)'
BY NotOver DEF Others, Dropped, Ended

LEMMA AccountedStep ==
    ASSUME Shape, Counters, Listed, Duties, Accounted, NEW r \in Reqs, Takes(r)
    PROVE  Accounted'
<1>1. ASSUME NEW o \in objects, o \in objects'
      PROVE  Named(o)' \/ Owned(o)' \/ Dropped(o)' \/ o \in spared' \/ Purged(o)'
  BY <1>1, NamedStays, OwnedStays, DroppedStays, PurgedStays, SparedStay DEF Accounted
<1>2. ASSUME NEW f \in Files, Puts(r, f), NEW o, o = NewObject(r, f) PROVE Owned(o)'
  <2>1. o.by = r /\ req'[r].pc = "put"
    BY <1>2 DEF NewObject, Puts
  <2> QED BY <2>1 DEF Owned
<1>3. ASSUME NEW o \in objects' PROVE Named(o)' \/ Owned(o)' \/ Dropped(o)' \/ o \in spared' \/ Purged(o)'
  BY <1>1, <1>2, <1>3, FewObjects
<1> QED BY <1>3 DEF Accounted

\* Nothing is stored that no row names, unless its upload goes on, ended without a
\* clean-up, or met a deletion of the whole model, or storage kept it when it was to
\* delete it: the deletion of a version leaves its row when its call to storage raises.
THEOREM StrandedCorrect == Spec => []NothingIsStranded
<1> DEFINE Inv == Shape /\ Counters /\ Exclusive /\ Duties /\ Listed /\ Accounted
<1>1. Init => Inv
  BY ShapeInit, ExclusiveInit, DutiesInit, ListedInit, AccountedInit
<1>2. Inv /\ [Next]_vars => Inv'
  <2> SUFFICES ASSUME Inv, [Next]_vars PROVE Inv'
    OBVIOUS
  <2>1. (Shape /\ Counters /\ Exclusive)'
    BY ShapeNext, CountersNext, ExclusiveNext
  <2>2. ASSUME NEW r \in Reqs, Takes(r) PROVE (Duties /\ Listed /\ Accounted)'
    BY <2>2, DutiesStep, ListedStep, AccountedStep
  <2>3. CASE UNCHANGED <<models, versions, objects, req, spared>>
    <3>1. Duties'
      BY <2>3 DEF Duties, Duty, Row
    <3>2. Listed'
      BY <2>3 DEF Listed, Blank, MadeRow, ListsOwn, Emptied, Under, Row, Tagged
    <3>3. Accounted'
      BY <2>3 DEF Accounted, Named, Owned, Dropped, Purged
    <3> QED BY <2>1, <3>1, <3>2, <3>3
  <2> QED BY <2>1, <2>2, <2>3, NextTakes
<1>3. Inv => NothingIsStranded
  BY DEF Accounted, Named, Owned, Dropped, Purged, NothingIsStranded
<1> QED BY <1>1, <1>2, <1>3, PTL DEF Spec
=============================================================================
