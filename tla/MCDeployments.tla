---------------------------- MODULE MCDeployments ----------------------------
(* Small instances of Deployments for TLC: every deployment is of one version, *)
(* the case in which the unique index and the shared environment matter.       *)
EXTENDS Deployments, TLC

CONSTANTS v1

OneVersion == [d \in Deps |-> v1]

\* Rows, threads and workers are interchangeable (safety runs only).
Symmetry == Permutations(Deps) \cup Permutations(Handlers) \cup Permutations(Workers)
==============================================================================
