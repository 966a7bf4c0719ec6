------------------------------ MODULE MCRunner ------------------------------
(* Small instances of Runner for TLC.                                          *)
EXTENDS Runner, TLC

\* Requests are interchangeable.
Symmetry == Permutations(Reqs)

\* What is left of a state once nobody will look at the rest again: an ended request
\* keeps only that it has ended, and the listing and the age of a download count
\* while the directory has a file of it or it is about to be moved in. A request
\* downloads once, so a download that is gone does not come back. No action and no
\* property tells states apart that have the same view.
InUse(d) == (\E n \in Names : dir.made[n] = d) \/ (d \in Reqs /\ req[d].pc \in Replacing)

View ==
    <<dir, env, builds, preds, crashes, overlap,
      [d \in Downloads |-> IF InUse(d) THEN <<listed[d], d \in stale>> ELSE None],
      [r \in Reqs |-> IF req[r].pc \in Ended THEN Ended ELSE req[r]]>>
=============================================================================
