--------------------------- MODULE MCSingleFlight ---------------------------
(* Small instances of SingleFlight for TLC. *)
EXTENDS SingleFlight, TLC

CONSTANTS p1, p2, r1, r2, r3, r4, r5

\* Three threads of one process, one of another.
ThreeAndOne == [r \in Reqs |-> IF r = r4 THEN p2 ELSE p1]
==============================================================================
