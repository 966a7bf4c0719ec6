---------------------------- MODULE BoundedCommand ---------------------------
(* _run_bounded of runners/worker.py, which runs pip, the bridges and every    *)
(* other command of the runner: one loop with a deadline feeds the command's   *)
(* standard input and drains its two outputs, whatever the command does, and   *)
(* a command that is late is killed with all of its process group.             *)
(* An output is a stream of numbered units, and what is in its pipe are the    *)
(* units written and not yet taken.                                            *)
EXTENDS Naturals, FiniteSets

CONSTANTS
    InputSize,  \* units of input, when there is any
    PipeSize,   \* capacity of a pipe; a read takes all there is
    OutputCap,  \* max_output_bytes
    MaxOutput   \* bound on the units an uncooperative command writes

ASSUME CommandAssumption ==
    /\ InputSize \in Nat /\ PipeSize \in Nat \ {0}
    /\ OutputCap \in Nat /\ MaxOutput \in Nat

Streams == {"stdout", "stderr"}

VARIABLES
    run,     \* the runner's call
    kid,     \* the command: a leading process and the family it has spawned
    inPipe,  \* units in the standard input pipe
    wrote,   \* units the command has written, by stream
    took,    \* units the runner has taken, by stream
    expired  \* the deadline has passed

commandVars == <<run, kid, inPipe, wrote, took, expired>>

Least(a, b) == IF a < b THEN a ELSE b

\* pending: input still to send; ready, writable: what select() reported;
\* kept and counted: the output retained, and stdout_bytes, stderr_bytes;
\* notices: how often the notice of truncation was appended to what is retained.
CommandInit ==
    /\ run = [pc |-> "spawn", pending |-> 0, open |-> FALSE, ready |-> {},
              writable |-> FALSE, late |-> FALSE,
              kept |-> [s \in Streams |-> {}], counted |-> [s \in Streams |-> 0],
              notices |-> [s \in Streams |-> 0]]
    /\ kid = [kind |-> "none", leader |-> "none", family |-> FALSE, owes |-> {}]
    /\ inPipe = 0 /\ expired = FALSE
    /\ wrote = [s \in Streams |-> 0] /\ took = [s \in Streams |-> 0]

Running    == kid.leader = "running"
Readers    == Running \/ kid.family
HasRoom(s) == wrote[s] - took[s] < PipeSize
----------------------------------------------------------------------------
(* The runner.                                                                 *)

\* Standard input is closed at once if there is nothing to send.
Spawn ==
    /\ run.pc = "spawn"
    /\ \E kind \in {"cooperative", "any"}, n \in {0, InputSize} :
          /\ kid' = [kid EXCEPT !.kind = kind, !.leader = "running"]
          /\ run' = [run EXCEPT !.pc = "select", !.pending = n, !.open = n > 0]
    /\ UNCHANGED <<inPipe, wrote, took, expired>>

SpawnFails ==
    /\ run.pc = "spawn"
    /\ run' = [run EXCEPT !.pc = "failed"]
    /\ UNCHANGED <<kid, inPipe, wrote, took, expired>>

SelectWritesFirst ==
    /\ run.pc = "select"
    /\ \/ /\ run.pending > 0 /\ inPipe < PipeSize
          /\ run' = [run EXCEPT !.pc = "transfer", !.writable = TRUE, !.ready = {}]
       \/ /\ run.pending = 0 /\ expired
          /\ run' = [run EXCEPT !.pc = "close", !.late = TRUE]
       \/ /\ run.pending = 0 /\ ~expired
          /\ run' = [run EXCEPT !.pc = "transfer", !.writable = FALSE,
                                !.ready = {s \in Streams : took[s] < wrote[s]}]
    /\ UNCHANGED <<kid, inPipe, wrote, took, expired>>

\* The deadline is looked at before every wait, and no wait is longer than what
\* remains, or than a second: select() returns whether or not anything is ready.
Select ==
    /\ run.pc = "select"
    /\ \/ /\ expired
          /\ run' = [run EXCEPT !.pc = "close", !.late = TRUE]
       \/ /\ ~expired
          /\ run' = [run EXCEPT
                !.pc       = "transfer",
                !.ready    = {s \in Streams : took[s] < wrote[s]},
                !.writable = run.pending > 0 /\ (inPipe < PipeSize \/ ~Readers)]
    /\ UNCHANGED <<kid, inPipe, wrote, took, expired>>

\* The units of stream s that one read returns, and whether they are kept.
Chunk(s) == took[s] + 1 .. wrote[s]
Fits(s)  == run.counted[s] + Cardinality(Chunk(s)) <= OutputCap

CountedKeptOnly(s) == run.counted[s] + IF Fits(s) THEN Cardinality(Chunk(s)) ELSE 0

\* A chunk that does not fit is replaced by a notice and counts as a full budget:
\* so is every later one, each by a notice of its own.
Counted(s) == IF Fits(s) THEN run.counted[s] + Cardinality(Chunk(s)) ELSE OutputCap

Sent == IF ~run.writable THEN 0
        ELSE IF Readers THEN Least(run.pending, PipeSize - inPipe)
        ELSE run.pending

\* Input is fed without blocking (a broken pipe discards it, and standard input
\* is closed after the last unit), then the streams found ready are drained.
Transfer == LET left == run.pending - Sent IN
    /\ run.pc = "transfer"
    /\ inPipe' = IF Readers THEN inPipe + Sent ELSE inPipe
    /\ took' = [s \in Streams |-> IF s \in run.ready THEN wrote[s] ELSE took[s]]
    /\ run' = [run EXCEPT
          !.pc      = "poll",
          !.pending = left,
          !.open    = left > 0,
          !.kept    = [s \in Streams |->
                         @[s] \cup IF s \in run.ready /\ Fits(s) THEN Chunk(s) ELSE {}],
          !.counted = [s \in Streams |-> IF s \in run.ready THEN Counted(s) ELSE @[s]],
          !.notices = [s \in Streams |-> @[s] + IF s \in run.ready /\ ~Fits(s) THEN 1 ELSE 0]]
    /\ UNCHANGED <<kid, wrote, expired>>

\* The loop ends with the leading process, not with the end of its outputs: they
\* stay open as long as a process of its family holds them.
Poll ==
    /\ run.pc = "poll"
    /\ kid' = [kid EXCEPT !.leader = IF Running THEN @ ELSE "reaped"]
    /\ run' = [run EXCEPT !.pc = IF Running THEN "select" ELSE "close"]
    /\ UNCHANGED <<inPipe, wrote, took, expired>>

Close ==
    /\ run.pc = "close"
    /\ run' = [run EXCEPT !.pc = IF run.late THEN "term" ELSE "wait", !.open = FALSE]
    /\ UNCHANGED <<kid, inPipe, wrote, took, expired>>

\* SIGTERM to the group, which any process but a cooperative one may ignore
Term ==
    /\ run.pc = "term"
    /\ \E dies, all \in BOOLEAN :
          /\ kid.kind = "cooperative" => dies
          /\ kid' = [kid EXCEPT !.leader = IF dies /\ Running THEN "zombie" ELSE @,
                                !.family = @ /\ ~all]
    /\ run' = [run EXCEPT !.pc = "kill"]
    /\ UNCHANGED <<inPipe, wrote, took, expired>>

RunningOnly == Running

\* kill(pid, 0) succeeds for a process that has ended and was not waited for.
ProcessAlive == kid.leader \in {"running", "zombie"}

\* Then SIGKILL to the group, if the leading process is still there
Kill ==
    /\ run.pc = "kill"
    /\ kid' = IF ProcessAlive THEN [kid EXCEPT !.leader = "zombie", !.family = FALSE] ELSE kid
    /\ run' = [run EXCEPT !.pc = "wait"]
    /\ UNCHANGED <<inPipe, wrote, took, expired>>

Wait ==
    /\ run.pc = "wait" /\ ~Running
    /\ kid' = [kid EXCEPT !.leader = "reaped"]
    /\ run' = [run EXCEPT !.pc = "done"]
    /\ UNCHANGED <<inPipe, wrote, took, expired>>

Runner == Spawn \/ SpawnFails \/ Select \/ Transfer \/ Poll \/ Close \/ Term \/ Kill \/ Wait
----------------------------------------------------------------------------
(* The command, and time. A cooperative command answers each unit of its input *)
(* with a unit on the output of its choice and ends with its input.            *)

Busy == run.pc \notin {"spawn", "failed", "done"}

ReadInput ==
    /\ Busy /\ Readers /\ inPipe > 0 /\ kid.owes = {}
    /\ inPipe' = inPipe - 1
    /\ \/ kid.kind = "any" /\ UNCHANGED kid
       \/ kid.kind = "cooperative" /\ \E s \in Streams : kid' = [kid EXCEPT !.owes = {s}]
    /\ UNCHANGED <<run, wrote, took, expired>>

WriteOutput(s) ==
    /\ Busy /\ Readers /\ HasRoom(s)
    /\ s \in kid.owes \/ (kid.kind = "any" /\ wrote[s] < MaxOutput)
    /\ wrote' = [wrote EXCEPT ![s] = @ + 1]
    /\ kid' = [kid EXCEPT !.owes = {}]
    /\ UNCHANGED <<run, inPipe, took, expired>>

Exit ==
    /\ Busy /\ Running
    /\ kid.kind = "any" \/ (~run.open /\ inPipe = 0 /\ kid.owes = {})
    /\ kid' = [kid EXCEPT !.leader = "zombie"]
    /\ UNCHANGED <<run, inPipe, wrote, took, expired>>

Fork ==
    /\ Busy /\ Running /\ kid.kind = "any" /\ ~kid.family
    /\ kid' = [kid EXCEPT !.family = TRUE]
    /\ UNCHANGED <<run, inPipe, wrote, took, expired>>

Command == ReadInput \/ (\E s \in Streams : WriteOutput(s)) \/ Exit

Expire ==
    /\ Busy /\ ~expired /\ expired' = TRUE
    /\ UNCHANGED <<run, kid, inPipe, wrote, took>>

CommandNext == Runner \/ Command \/ Fork \/ Expire

CommandSpec == CommandInit /\ [][CommandNext]_commandVars

CooperativeCommand == kid.kind = "cooperative" /\ Command
----------------------------------------------------------------------------
\* A command that plays its part, or whose time is up, is returned from: neither
\* side waits for the other on a full pipe, and a process that keeps an output
\* open, ignores the signals or never reads does not hold the runner.
CommandReturns ==
    (run.pc = "select" /\ (kid.kind = "cooperative" \/ expired)) ~> (run.pc = "done")

\* What is kept of a command's own output is its beginning, within the budget,
\* however the writes were cut into reads: nothing is kept from after a chunk left
\* out. And what is cut is announced: a notice is among what is kept exactly if
\* some of the output that was read is not. (The notices come on top.)
KeptIsAPrefix ==
    \A s \in Streams : LET n == Cardinality(run.kept[s]) IN
       /\ n <= OutputCap /\ run.kept[s] = 1..n
       /\ run.notices[s] > 0 <=> took[s] > n

\* The docstring at worker.py:375-377 says that the output is capped to a fixed
\* budget, so that a noisy command cannot consume unbounded memory. Taken mildly,
\* with one notice on top, of one unit.
OutputIsCapped ==
    \A s \in Streams : Cardinality(run.kept[s]) + run.notices[s] <= OutputCap + 1

\* When a late command has been returned from, no process of its group is left,
\* even if the leading process died of the SIGTERM and its family did not.
TimeoutEndsTheGroup ==
    run.pc = "done" /\ run.late => ~kid.family /\ ~Running
=============================================================================
