------------------------- MODULE DeploymentLifecycle -------------------------
(***************************************************************************)
(* What a client that polls GET /api/deployments/<id>/ can observe: the    *)
(* status column of each row, one atomic change at a time.  This is the    *)
(* abstract specification of module Deployments.                           *)
(*                                                                         *)
(* The code declares Deployment.ALLOWED_TRANSITIONS, but transition_to()   *)
(* checks it on an in-memory copy that may be stale when it is saved, so   *)
(* the table is not what a client sees.  The edges here are the ones the   *)
(* unlocked writers really leave: FAILED can replace RUNNING (reaper) and  *)
(* STOPPED (_mark_failed), STOPPED can replace FAILED (stop), and the      *)
(* table's FAILED -> BUILDING edge is never taken.                         *)
(***************************************************************************)
CONSTANTS
  Deps,        \* deployment ids
  Versions,    \* model versions
  VersionOf    \* the version each deployment is for

VARIABLE row

Active   == {"PENDING", "BUILDING", "RUNNING"}
Existing == Active \cup {"FAILED", "STOPPED"}
Statuses == Existing \cup {"ABSENT", "GONE"}

Move(d, from, to) ==
  /\ row[d] \in from
  /\ row' = [row EXCEPT ![d] = to]

Create(d) ==
  /\ \A e \in Deps : VersionOf[e] = VersionOf[d] => row[e] \notin Active
  /\ Move(d, {"ABSENT"}, "PENDING")

StartBuild(d) == Move(d, {"PENDING"}, "BUILDING")
Succeed(d)    == Move(d, {"BUILDING"}, "RUNNING")
Fail(d)       == Move(d, {"BUILDING", "RUNNING", "STOPPED"}, "FAILED")
Stop(d)       == Move(d, Active \cup {"FAILED"}, "STOPPED")
Drop(d)       == Move(d, Existing, "GONE")

Init == row = [d \in Deps |-> "ABSENT"]

Next == \E d \in Deps :
  Create(d) \/ StartBuild(d) \/ Succeed(d) \/ Fail(d) \/ Stop(d) \/ Drop(d)

Spec == Init /\ [][Next]_row
==============================================================================
