----------------------------- MODULE ModelServer -----------------------------
(* What the warm path of /predict promises its callers, however the processes  *)
(* behind it come and go: a call's input is run at most once, and the call     *)
(* ends with its own result or with an error, never with another's.            *)
CONSTANTS
    Calls,  \* the calls
    None

VARIABLES
    phase,  \* "waiting", "answered" or "failed", for each call
    ran,    \* how often the model was run on the call's input
    got     \* the call whose result it was answered with, or None

Init ==
    /\ phase = [c \in Calls |-> "waiting"]
    /\ ran = [c \in Calls |-> 0]
    /\ got = [c \in Calls |-> None]

\* The result of a call that failed meanwhile is nobody's.
Run(c) ==
    /\ phase[c] \in {"waiting", "failed"} /\ ran[c] = 0
    /\ ran' = [ran EXCEPT ![c] = 1]
    /\ UNCHANGED <<phase, got>>

Answer(c) ==
    /\ phase[c] = "waiting" /\ ran[c] = 1
    /\ phase' = [phase EXCEPT ![c] = "answered"]
    /\ got' = [got EXCEPT ![c] = c]
    /\ UNCHANGED ran

Fail(c) ==
    /\ phase[c] = "waiting"
    /\ phase' = [phase EXCEPT ![c] = "failed"]
    /\ UNCHANGED <<ran, got>>

Next == \E c \in Calls : Run(c) \/ Answer(c) \/ Fail(c)

Spec == Init /\ [][Next]_<<phase, ran, got>>
=============================================================================
