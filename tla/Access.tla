-------------------------------- MODULE Access -------------------------------
(* API keys: their creation and revocation (api_keys/views.py), the check of a *)
(* universal key (prediction_gateway/authentication.py) and of a model's key   *)
(* (prediction_gateway/permissions.py). Every query and save is a step of its  *)
(* own, so that a revocation may come between any two of a check.              *)
EXTENDS Naturals, FiniteSets

CONSTANTS
    Requests,   \* requests, at most one key each
    Universal,  \* universal keys: user-level, for the marketplace
    OfModel,    \* keys of one model
    Users, Models,
    Nobody

Keys == Universal \cup OfModel

VARIABLES
    keys,    \* the rows: exists, active, user, model, used
    req,     \* the requests
    revoked  \* history: keys whose revocation has been answered

accessVars == <<keys, req, revoked>>

NoKey == [exists |-> FALSE, active |-> FALSE, user |-> Nobody, model |-> Nobody,
          used |-> FALSE]

\* row: the row as read; late: the key's revocation had been answered before the
\* request began.
NoCall == [pc |-> "new", user |-> Nobody, key |-> Nobody, model |-> Nobody,
           row |-> NoKey, late |-> FALSE]

AccessInit ==
    /\ keys = [k \in Keys |-> NoKey]
    /\ req = [r \in Requests |-> NoCall]
    /\ revoked = {}

Answer(r, pc) == req' = [req EXCEPT ![r].pc = pc]

\* A key is made once, for the user who asks, and shown only in this answer.
CreateKey(u, k, m) ==
    /\ ~keys[k].exists
    /\ keys' = [keys EXCEPT ![k] =
                  [exists |-> TRUE, active |-> TRUE, user |-> u, used |-> FALSE,
                   model |-> IF k \in OfModel THEN m ELSE Nobody]]
    /\ UNCHANGED <<req, revoked>>

\* A request with a key: a prediction with model m, as user u if the key is a
\* model's (its user is authenticated by other means), or user u's revocation.
Ask(r, u, k, m, goal) ==
    /\ req[r].pc = "new" /\ keys[k].exists
    /\ (k \in Universal /\ goal = "predict") <=> u = Nobody
    /\ req' = [req EXCEPT ![r] = [NoCall EXCEPT !.pc = goal, !.user = u, !.key = k,
                                    !.model = m, !.late = k \in revoked]]
    /\ UNCHANGED <<keys, revoked>>

\* UniversalOrJWTAuthentication reads an active row ...
Authenticate(r) == LET k == req[r].key IN
    /\ req[r].pc = "predict" /\ k \in Universal
    /\ req' = [req EXCEPT ![r].pc = IF keys[k].active THEN "touch" ELSE "refused",
                          ![r].row = keys[k], ![r].user = keys[k].user]
    /\ UNCHANGED <<keys, revoked>>

TouchWholeRow(r) == LET k == req[r].key IN
    /\ req[r].pc = "touch"
    /\ keys' = [keys EXCEPT ![k] = [req[r].row EXCEPT !.used = TRUE]]
    /\ Answer(r, "accepted")
    /\ UNCHANGED revoked

\* ... and then saves its time of use, and no other field.
Touch(r) == LET k == req[r].key IN
    /\ req[r].pc = "touch"
    /\ keys' = [keys EXCEPT ![k].used = TRUE]
    /\ Answer(r, "accepted")
    /\ UNCHANGED revoked

\* HasValidModelAPIKey: the key is active, the model's, and its owner's.
HasPermission(r) == LET row == keys[req[r].key] IN
    /\ req[r].pc = "predict" /\ req[r].key \in OfModel
    /\ Answer(r, IF row.active /\ row.model = req[r].model /\ row.user = req[r].user
                 THEN "accepted" ELSE "refused")
    /\ UNCHANGED <<keys, revoked>>

\* Only its owner finds a key to revoke; then it is saved inactive, even if it
\* was so before.
Find(r) ==
    /\ req[r].pc = "revoke"
    /\ Answer(r, IF keys[req[r].key].user = req[r].user THEN "save" ELSE "refused")
    /\ UNCHANGED <<keys, revoked>>

Revoke(r) == LET k == req[r].key IN
    /\ req[r].pc = "save"
    /\ keys' = [keys EXCEPT ![k].active = FALSE]
    /\ revoked' = revoked \cup {k}
    /\ Answer(r, "done")

AccessNext ==
    \/ \E u \in Users, k \in Keys, m \in Models : CreateKey(u, k, m)
    \/ \E r \in Requests, u \in Users \cup {Nobody}, k \in Keys, m \in Models :
          \E goal \in {"predict", "revoke"} : Ask(r, u, k, m, goal)
    \/ \E r \in Requests :
          Authenticate(r) \/ Touch(r) \/ HasPermission(r) \/ Find(r) \/ Revoke(r)

AccessSpec == AccessInit /\ [][AccessNext]_accessVars
----------------------------------------------------------------------------
\* A request that begins after a revocation of its key was answered is refused,
\* whatever requests with the key were half-way when it was revoked; and no
\* request is accepted as anybody but the key's user.
RevocationIsFinal ==
    \A r \in Requests : req[r].pc = "accepted" =>
       ~req[r].late /\ req[r].user = keys[req[r].key].user
=============================================================================
