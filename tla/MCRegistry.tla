----------------------------- MODULE MCRegistry -----------------------------
(* Small instances of Registry for TLC. *)
EXTENDS Registry, TLC

CONSTANTS m1, m2, r1, r2, r3, f1, f2, d1

Symmetry == Permutations(Reqs) \cup Permutations(Files)
==============================================================================
