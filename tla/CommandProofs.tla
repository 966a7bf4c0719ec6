--------------------------- MODULE CommandProofs ---------------------------
(* Proofs about BoundedCommand: whatever the command does, and for any sizes   *)
(* of pipes and budgets, an output is cut at its end only and with a notice,   *)
(* and a command that was late leaves no process of its group behind.          *)
EXTENDS BoundedCommand, FiniteSetTheorems, TLAPS

Steps == {"spawn", "failed", "select", "transfer", "poll", "close", "term", "kill",
          "wait", "done"}

Runs == [pc : Steps, pending : Int, open : BOOLEAN, ready : SUBSET Streams,
         writable : BOOLEAN, late : BOOLEAN,
         kept : [Streams -> SUBSET Int], counted : [Streams -> Int],
         notices : [Streams -> Nat]]

Kids == [kind : {"none", "cooperative", "any"},
         leader : {"none", "running", "zombie", "reaped"},
         family : BOOLEAN, owes : SUBSET Streams]

Shape ==
    /\ run \in Runs /\ kid \in Kids /\ inPipe \in Int
    /\ wrote \in [Streams -> Nat] /\ took \in [Streams -> Nat]
    /\ \A s \in Streams : took[s] <= wrote[s]

\* The first n units of a stream are kept, and either that is all that was taken
\* and they are what was counted, or more was taken, a notice was left and the
\* budget was counted as full.
CutAt(s, n) ==
    /\ n \in 0..OutputCap /\ run.kept[s] = 1..n
    /\ \/ run.counted[s] = n /\ took[s] = n /\ run.notices[s] = 0
       \/ run.counted[s] = OutputCap /\ took[s] > n /\ run.notices[s] > 0

Cut == \A s \in Streams : \E n \in Int : CutAt(s, n)

\* A late command is not waited for before its group was killed, and the signals
\* after it have nobody to miss: no process was forked by a dead one.
Group ==
    /\ run.pc \in {"select", "transfer", "poll"} =>
         ~run.late /\ kid.leader \in {"running", "zombie"}
    /\ run.late /\ run.pc \in {"close", "term", "kill"} =>
         kid.leader \in {"running", "zombie"}
    /\ run.late /\ run.pc \in {"wait", "done"} => ~kid.family /\ kid.leader # "running"
    /\ run.pc \in {"spawn", "failed"} => ~run.late

LEMMA IntervalSize == \A n \in Nat : Cardinality(1..n) = n
BY FS_Interval

LEMMA Constants == PipeSize \in Nat /\ InputSize \in Nat /\ OutputCap \in Nat
BY CommandAssumption

----------------------------------------------------------------------------
(* Typing.                                                                     *)

LEMMA ShapeInit == CommandInit => Shape
BY DEF CommandInit, Shape, Runs, Kids, Steps, Streams

LEMMA SpawnShape == ASSUME Shape, Spawn PROVE Shape'
<1>1. PICK kind \in {"cooperative", "any"}, n \in {0, InputSize} :
         /\ kid' = [kid EXCEPT !.kind = kind, !.leader = "running"]
         /\ run' = [run EXCEPT !.pc = "select", !.pending = n, !.open = n > 0]
  BY DEF Spawn
<1>2. kid' \in Kids
  BY <1>1 DEF Shape, Kids
<1>3. run' \in Runs
  <2>1. n \in Int /\ (n > 0) \in BOOLEAN
    BY Constants
  <2>2. [run EXCEPT !.pc = "select", !.pending = n] \in Runs
    BY <2>1 DEF Shape, Runs, Steps
  <2> QED BY <1>1, <2>1, <2>2 DEF Shape, Runs, Steps
<1> QED BY <1>2, <1>3 DEF Spawn, Shape

LEMMA SelectShape == ASSUME Shape, Select PROVE Shape'
<1>1. PICK ready \in SUBSET Streams, writable \in BOOLEAN :
         \/ run' = [run EXCEPT !.pc = "close", !.late = TRUE]
         \/ run' = [run EXCEPT !.pc = "transfer", !.ready = ready, !.writable = writable]
  <2>1. (run.pending > 0 /\ (inPipe < PipeSize \/ ~Readers)) \in BOOLEAN
    OBVIOUS
  <2>2. {s \in Streams : took[s] < wrote[s]} \in SUBSET Streams
    OBVIOUS
  <2> QED BY <2>1, <2>2, Zenon DEF Select
<1>2. run' \in Runs
  BY <1>1 DEF Shape, Runs, Steps
<1> QED BY <1>2 DEF Select, Shape

LEMMA TransferShape == ASSUME Shape, Transfer PROVE Shape'
<1>1. Sent \in Int
  BY Constants DEF Sent, Least, Shape, Runs
<1>2. \A s \in Streams : Cardinality(Chunk(s)) \in Int
  BY FS_Interval DEF Chunk, Shape
<1>3. \A s \in Streams : Counted(s) \in Int
  BY <1>2, Constants DEF Counted, Shape, Runs
<1>4. \A s \in Streams : Chunk(s) \in SUBSET Int
  BY DEF Chunk, Shape
<1>5. PICK pending \in Int, open \in BOOLEAN, kept \in [Streams -> SUBSET Int],
           counted \in [Streams -> Int], notices \in [Streams -> Nat] :
         run' = [run EXCEPT !.pc = "poll", !.pending = pending, !.open = open,
                            !.kept = kept, !.counted = counted, !.notices = notices]
  <2>1. run.pending - Sent \in Int
    BY <1>1 DEF Shape, Runs
  <2>2. (run.pending - Sent > 0) \in BOOLEAN
    OBVIOUS
  <2>3. [s \in Streams |-> run.kept[s] \cup IF s \in run.ready /\ Fits(s) THEN Chunk(s) ELSE {}]
          \in [Streams -> SUBSET Int]
    BY <1>4 DEF Shape, Runs
  <2>4. [s \in Streams |-> IF s \in run.ready THEN Counted(s) ELSE run.counted[s]]
          \in [Streams -> Int]
    BY <1>3 DEF Shape, Runs
  <2>5. [s \in Streams |-> run.notices[s] + IF s \in run.ready /\ ~Fits(s) THEN 1 ELSE 0]
          \in [Streams -> Nat]
    BY DEF Shape, Runs
  <2> QED BY <2>1, <2>2, <2>3, <2>4, <2>5, Zenon DEF Transfer
<1>6. run' \in Runs
  BY <1>5 DEF Shape, Runs, Steps
<1>7. inPipe' \in Int
  BY <1>1 DEF Transfer, Shape
<1>8. took' \in [Streams -> Nat] /\ \A s \in Streams : took'[s] <= wrote[s]
  BY DEF Transfer, Shape
<1> QED BY <1>6, <1>7, <1>8 DEF Transfer, Shape

LEMMA EndShape ==
    ASSUME Shape, SpawnFails \/ Poll \/ Close \/ Term \/ Kill \/ Wait
    PROVE  Shape'
<1>1. CASE SpawnFails \/ Close
  BY <1>1 DEF SpawnFails, Close, Shape, Runs, Steps
<1>2. CASE Poll \/ Wait
  BY <1>2 DEF Poll, Wait, Running, Shape, Runs, Kids, Steps
<1>3. CASE Term
  <2>1. PICK dies \in BOOLEAN, all \in BOOLEAN :
          kid' = [kid EXCEPT !.leader = IF dies /\ Running THEN "zombie" ELSE @,
                             !.family = @ /\ ~all]
    BY <1>3 DEF Term
  <2>2. kid' \in Kids
    BY <2>1 DEF Shape, Kids
  <2> QED BY <1>3, <2>2 DEF Term, Shape, Runs, Steps
<1>4. CASE Kill
  BY <1>4 DEF Kill, Shape, Runs, Kids, Steps
<1> QED BY <1>1, <1>2, <1>3, <1>4

LEMMA CommandShape ==
    ASSUME Shape, Command \/ Fork \/ Expire
    PROVE  Shape'
<1>1. CASE ReadInput
  BY <1>1 DEF ReadInput, Shape, Kids
<1>2. ASSUME NEW s \in Streams, WriteOutput(s) PROVE Shape'
  BY <1>2 DEF WriteOutput, Shape, Kids
<1>3. CASE Exit
  BY <1>3 DEF Exit, Shape, Kids
<1>4. CASE Fork
  BY <1>4 DEF Fork, Shape, Kids
<1>5. CASE Expire
  BY <1>5 DEF Expire, Shape
<1> QED BY <1>1, <1>2, <1>3, <1>4, <1>5 DEF Command

LEMMA ShapeNext == Shape /\ [CommandNext]_commandVars => Shape'
<1>1. ASSUME Shape, UNCHANGED commandVars PROVE Shape'
  BY <1>1 DEF commandVars, Shape
<1> QED
  BY <1>1, SpawnShape, SelectShape, TransferShape, EndShape, CommandShape
     DEF CommandNext, Runner
----------------------------------------------------------------------------
(* What is kept is a prefix.                                                   *)

\* The only step that takes output, for one of the streams
LEMMA TransferCuts ==
    ASSUME Shape, NEW s \in Streams, NEW n \in Int, CutAt(s, n), Transfer
    PROVE  \E k \in Int : CutAt(s, k)'
<1>1. /\ run.counted[s] \in Int /\ took[s] \in Nat /\ wrote[s] \in Nat
      /\ took[s] <= wrote[s] /\ OutputCap \in Nat /\ n \in Nat /\ n <= OutputCap
      /\ run.notices[s] \in Nat
  BY Constants DEF Shape, Runs, CutAt
<1>2. Cardinality(Chunk(s)) = wrote[s] - took[s]
  <2>1. PICK a \in Int, b \in Int : a = took[s] + 1 /\ b = wrote[s]
    BY <1>1
  <2>2. Cardinality(a..b) = IF a > b THEN 0 ELSE b - a + 1
    BY FS_Interval
  <2>3. a..b = Chunk(s)
    BY <2>1 DEF Chunk
  <2> QED BY <1>1, <2>1, <2>2, <2>3
<1>3. took'[s] = IF s \in run.ready THEN wrote[s] ELSE took[s]
  BY DEF Transfer
<1>4. run'.kept[s] = run.kept[s] \cup IF s \in run.ready /\ Fits(s) THEN Chunk(s) ELSE {}
  BY DEF Transfer, Shape, Runs
<1>5. run'.counted[s] = IF s \in run.ready THEN Counted(s) ELSE run.counted[s]
  BY DEF Transfer, Shape, Runs
<1>6. run'.notices[s] = run.notices[s] + IF s \in run.ready /\ ~Fits(s) THEN 1 ELSE 0
  BY DEF Transfer, Shape, Runs
<1>7. CASE s \notin run.ready
  BY <1>1, <1>3, <1>4, <1>5, <1>6, <1>7 DEF CutAt
<1>8. CASE s \in run.ready /\ ~Fits(s)
  <2>1. took'[s] = wrote[s] /\ run'.counted[s] = OutputCap /\ run'.notices[s] > 0
    BY <1>1, <1>3, <1>5, <1>6, <1>8 DEF Counted
  <2>2. wrote[s] > n
    BY <1>1, <1>2, <1>8 DEF Fits, CutAt
  <2>3. run'.kept[s] = 1..n
    BY <1>4, <1>8 DEF CutAt
  <2> QED BY <1>1, <2>1, <2>2, <2>3 DEF CutAt
<1>9. CASE s \in run.ready /\ Fits(s) /\ run.counted[s] = n /\ took[s] = n /\ run.notices[s] = 0
  <2>1. wrote[s] \in 0..OutputCap
    BY <1>1, <1>2, <1>9 DEF Fits
  <2>2. run'.kept[s] = 1..wrote[s]
    BY <1>1, <1>4, <1>9 DEF CutAt, Chunk
  <2>3. run'.counted[s] = wrote[s] /\ took'[s] = wrote[s] /\ run'.notices[s] = 0
    BY <1>1, <1>2, <1>3, <1>5, <1>6, <1>9 DEF Counted
  <2> QED BY <1>1, <2>1, <2>2, <2>3 DEF CutAt
<1>10. CASE s \in run.ready /\ Fits(s) /\ run.counted[s] = OutputCap /\ took[s] > n
                             /\ run.notices[s] > 0
  <2>1. wrote[s] = took[s]
    BY <1>1, <1>2, <1>10 DEF Fits
  <2>2. run'.kept[s] = 1..n
    BY <1>1, <1>4, <2>1 DEF CutAt, Chunk
  <2>3. run'.counted[s] = OutputCap /\ took'[s] > n /\ run'.notices[s] > 0
    BY <1>1, <1>2, <1>3, <1>5, <1>6, <1>10, <2>1 DEF Counted
  <2> QED BY <1>1, <2>2, <2>3 DEF CutAt
<1> QED BY <1>7, <1>8, <1>9, <1>10 DEF CutAt

LEMMA OthersTakeNothing ==
    ASSUME Shape, [CommandNext]_commandVars, ~Transfer
    PROVE  /\ took' = took /\ run'.kept = run.kept /\ run'.counted = run.counted
           /\ run'.notices = run.notices
<1>1. CASE Spawn
  BY <1>1 DEF Spawn, Shape, Runs
<1>2. CASE Select
  BY <1>2 DEF Select, Shape, Runs
<1>3. CASE SpawnFails \/ Poll \/ Close \/ Term \/ Kill \/ Wait
  BY <1>3 DEF SpawnFails, Poll, Close, Term, Kill, Wait, Shape, Runs
<1>4. CASE Command \/ Fork \/ Expire \/ UNCHANGED commandVars
  BY <1>4 DEF Command, ReadInput, WriteOutput, Exit, Fork, Expire, commandVars
<1> QED BY <1>1, <1>2, <1>3, <1>4 DEF CommandNext, Runner

LEMMA CutNext == Shape /\ Cut /\ [CommandNext]_commandVars => Cut'
<1> SUFFICES ASSUME Shape, Cut, [CommandNext]_commandVars, NEW s \in Streams
             PROVE  \E n \in Int : CutAt(s, n)'
  BY DEF Cut
<1>1. PICK n \in Int : CutAt(s, n)
  BY DEF Cut
<1>2. CASE Transfer
  BY <1>1, <1>2, TransferCuts
<1>3. CASE ~Transfer
  BY <1>1, <1>3, OthersTakeNothing DEF CutAt
<1> QED BY <1>2, <1>3

LEMMA CutIsAPrefix == Shape /\ Cut => KeptIsAPrefix
<1> SUFFICES ASSUME Shape, Cut, NEW s \in Streams
             PROVE  /\ Cardinality(run.kept[s]) <= OutputCap
                    /\ run.kept[s] = 1..Cardinality(run.kept[s])
                    /\ run.notices[s] > 0 <=> took[s] > Cardinality(run.kept[s])
  BY DEF KeptIsAPrefix
<1>1. PICK n \in Int : CutAt(s, n)
  BY DEF Cut
<1>2. n \in Nat /\ n <= OutputCap /\ run.kept[s] = 1..n
  BY <1>1, Constants DEF CutAt
<1>3. run.notices[s] > 0 <=> took[s] > n
  BY <1>1, <1>2 DEF CutAt, Shape, Runs
<1>4. Cardinality(run.kept[s]) = n
  BY <1>2, IntervalSize
<1> QED BY <1>2, <1>3, <1>4

\* Of every output a beginning is kept, within the budget, and a notice exactly if
\* it was cut, for any sizes of pipes and any cuts into reads.
THEOREM PrefixCorrect == CommandSpec => []KeptIsAPrefix
<1>1. CommandInit => Cut
  <2> SUFFICES ASSUME CommandInit, NEW s \in Streams PROVE CutAt(s, 0)
    BY DEF Cut
  <2> QED BY Constants DEF CommandInit, CutAt
<1> QED BY <1>1, ShapeInit, ShapeNext, CutNext, CutIsAPrefix, PTL DEF CommandSpec

----------------------------------------------------------------------------
(* The process group.                                                          *)

LEMMA GroupNext == Shape /\ Group /\ [CommandNext]_commandVars => Group'
<1> SUFFICES ASSUME Shape, Group, [CommandNext]_commandVars PROVE Group'
  OBVIOUS
<1>1. CASE Spawn
  BY <1>1 DEF Spawn, Shape, Runs, Kids, Group
<1>2. CASE Select
  BY <1>2 DEF Select, Shape, Runs, Group
<1>3. CASE Transfer
  BY <1>3 DEF Transfer, Shape, Runs, Group
<1>4. CASE SpawnFails \/ Close
  BY <1>4 DEF SpawnFails, Close, Shape, Runs, Group
<1>5. CASE Poll
  BY <1>5 DEF Poll, Running, Shape, Runs, Kids, Group
<1>6. CASE Term
  BY <1>6 DEF Term, Running, Shape, Runs, Kids, Group
<1>7. CASE Kill
  BY <1>7 DEF Kill, ProcessAlive, Shape, Runs, Kids, Group
<1>8. CASE Wait
  BY <1>8 DEF Wait, Shape, Runs, Kids, Group
<1>9. CASE ReadInput \/ Expire \/ UNCHANGED commandVars
  BY <1>9 DEF ReadInput, Expire, commandVars, Shape, Kids, Group
<1>10. ASSUME NEW s \in Streams, WriteOutput(s) PROVE Group'
  BY <1>10 DEF WriteOutput, Shape, Kids, Group
<1>11. CASE Exit \/ Fork
  BY <1>11 DEF Exit, Fork, Running, Shape, Kids, Group
<1> QED
  BY <1>1, <1>2, <1>3, <1>4, <1>5, <1>6, <1>7, <1>8, <1>9, <1>10, <1>11
     DEF CommandNext, Runner, Command

\* A late command that was returned from has nobody left in its group.
THEOREM GroupCorrect == CommandSpec => []TimeoutEndsTheGroup
<1>1. CommandInit => Group
  BY DEF CommandInit, Group
<1>2. Group => TimeoutEndsTheGroup
  BY DEF Group, TimeoutEndsTheGroup, Running
<1> QED BY <1>1, <1>2, ShapeInit, ShapeNext, GroupNext, PTL DEF CommandSpec
=============================================================================
