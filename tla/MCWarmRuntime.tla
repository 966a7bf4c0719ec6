---------------------------- MODULE MCWarmRuntime ----------------------------
(* Small instances of WarmRuntime for TLC.                                     *)
EXTENDS WarmRuntime, TLC

CONSTANTS t1, t2, t3, m1, m2

Ask(k, m) == [kind |-> k, model |-> m]

\* A prediction and a teardown of one model, and another prediction: with the
\* same model, so that they share a process, or with the other one, so that one
\* runtime is evicted for the other.
MCWorkloads ==
    { (t1 :> Ask("predict", m1)) @@ (t2 :> Ask("predict", m))
        @@ (t3 :> Ask("teardown", m1)) : m \in Models }
=============================================================================
