----------------------------- MODULE PartsProofs -----------------------------
(* Proofs about the parts that share no state with the others.                 *)
(*   Access: a request that begins after a revocation is refused, for any      *)
(*   number of requests, keys and users.                                       *)
(*   Bundles: what an upload has on disk is within the limits, for any archive *)
(*   and any limits; a rejected one leaves nothing, an accepted one is whole.  *)
(*   Metrics: percentiles are right for lists of every length, and the two     *)
(*   ways to compute the dashboards' figures agree, for any logs.              *)
EXTENDS Access, Bundles, Metrics, FiniteSetTheorems, SequenceTheorems,
        WellFoundedInduction, TLAPS
----------------------------------------------------------------------------
(* API keys.                                                                   *)


Rows == [exists : BOOLEAN, active : BOOLEAN, user : Users \cup {Nobody},
         model : Models \cup {Nobody}, used : BOOLEAN]

Calls == [pc : {"new", "predict", "touch", "accepted", "refused", "revoke", "save", "done"},
          user : Users \cup {Nobody}, key : Keys \cup {Nobody},
          model : Models \cup {Nobody}, row : Rows, late : BOOLEAN]

Shape == keys \in [Keys -> Rows] /\ req \in [Requests -> Calls] /\ revoked \subseteq Keys

\* A request is about a key that was made; if it is late, the key is revoked.
Named ==
    \A r \in Requests : req[r].pc # "new" =>
       /\ req[r].key \in Keys /\ keys[req[r].key].exists
       /\ req[r].late => req[r].key \in revoked

\* A key whose revocation was answered is there, and inactive.
Dead == \A k \in revoked : keys[k].exists /\ ~keys[k].active

\* A request on its way to be accepted was not late, and has its key's user.
Trusted ==
    \A r \in Requests : req[r].pc \in {"touch", "accepted"} =>
       ~req[r].late /\ req[r].user = keys[req[r].key].user

AccessInv == Shape /\ Named /\ Dead /\ Trusted

LEMMA InvInit == AccessInit => AccessInv
BY DEF AccessInit, AccessInv, Shape, Named, Dead, Trusted, NoKey, NoCall, Rows, Calls

LEMMA CreateKeyKeeps ==
    ASSUME AccessInv, NEW u \in Users, NEW k \in Keys, NEW m \in Models, CreateKey(u, k, m)
    PROVE  AccessInv'
BY DEF CreateKey, AccessInv, Shape, Named, Dead, Trusted, Rows, Calls

LEMMA AskKeeps ==
    ASSUME AccessInv, NEW r \in Requests, NEW u \in Users \cup {Nobody}, NEW k \in Keys,
           NEW m \in Models, NEW goal \in {"predict", "revoke"}, Ask(r, u, k, m, goal)
    PROVE  AccessInv'
<1>1. NoCall \in Calls
  BY DEF NoCall, NoKey, Calls, Rows
<1>2. PICK late \in BOOLEAN :
         /\ req' = [req EXCEPT ![r] = [NoCall EXCEPT !.pc = goal, !.user = u, !.key = k,
                                                   !.model = m, !.late = late]]
         /\ late => k \in revoked
  <2>1. (k \in revoked) \in BOOLEAN /\ ((k \in revoked) => k \in revoked)
    OBVIOUS
  <2>2. req' = [req EXCEPT ![r] = [NoCall EXCEPT !.pc = goal, !.user = u, !.key = k,
                                                !.model = m, !.late = (k \in revoked)]]
    BY Zenon DEF Ask
  <2> QED BY <2>1, <2>2, Zenon
<1>3. /\ req' \in [Requests -> Calls]
      /\ req'[r].pc = goal /\ req'[r].key = k /\ (req'[r].late => k \in revoked)
      /\ \A q \in Requests \ {r} : req'[q] = req[q]
  BY <1>1, <1>2 DEF AccessInv, Shape, Calls
<1>4. keys' = keys /\ revoked' = revoked /\ keys[k].exists
  BY DEF Ask
<1>5. Shape'
  BY <1>3, <1>4 DEF AccessInv, Shape
<1>6. Named' /\ Trusted'
  BY <1>3, <1>4 DEF AccessInv, Shape, Named, Trusted
<1>7. Dead'
  BY <1>4 DEF AccessInv, Dead
<1> QED BY <1>5, <1>6, <1>7 DEF AccessInv

\* What an answer changes of the requests.
LEMMA Answered ==
    ASSUME Shape, NEW r \in Requests, NEW pc \in {"accepted", "refused", "save", "done"},
           Answer(r, pc)
    PROVE  /\ req' \in [Requests -> Calls]
           /\ req'[r].pc = pc
           /\ \A q \in Requests \ {r} : req'[q].pc = req[q].pc
           /\ \A q \in Requests : /\ req'[q].key = req[q].key /\ req'[q].user = req[q].user
                                 /\ req'[q].late = req[q].late
BY DEF Answer, Shape, Calls

LEMMA AuthenticateKeeps ==
    ASSUME AccessInv, NEW r \in Requests, Authenticate(r)
    PROVE  AccessInv'
<1>1. req[r] \in Calls /\ req[r].key \in Keys /\ keys[req[r].key] \in Rows
  BY DEF Authenticate, AccessInv, Shape, Named, Calls, Keys
<1>2. keys[req[r].key].user \in Users \cup {Nobody}
  BY <1>1 DEF Rows
<1>3. PICK pc \in {"touch", "refused"} :
         /\ req' = [req EXCEPT ![r] = [req[r] EXCEPT !.pc = pc, !.row = keys[req[r].key],
                                                   !.user = keys[req[r].key].user]]
         /\ pc = "touch" => keys[req[r].key].active
  BY <1>1 DEF Authenticate, AccessInv, Shape, Calls
<1>4. /\ req' \in [Requests -> Calls]
      /\ req'[r].pc = pc /\ req'[r].key = req[r].key /\ req'[r].late = req[r].late
      /\ req'[r].user = keys[req[r].key].user
      /\ \A q \in Requests \ {r} : req'[q] = req[q]
  BY <1>1, <1>2, <1>3 DEF AccessInv, Shape, Calls
<1>5. keys' = keys /\ revoked' = revoked /\ req[r].pc = "predict"
  BY DEF Authenticate
<1>6. Shape' /\ Dead'
  BY <1>4, <1>5 DEF AccessInv, Shape, Dead
<1>7. Named'
  BY <1>4, <1>5 DEF AccessInv, Named
<1>8. pc = "touch" => ~req[r].late
  BY <1>3, <1>5 DEF AccessInv, Named, Dead
<1>9. Trusted'
  BY <1>3, <1>4, <1>5, <1>8 DEF AccessInv, Trusted
<1> QED BY <1>6, <1>7, <1>9 DEF AccessInv

LEMMA TouchKeeps ==
    ASSUME AccessInv, NEW r \in Requests, Touch(r)
    PROVE  AccessInv'
<1>1. keys' \in [Keys -> Rows]
  BY DEF Touch, AccessInv, Shape, Rows
<1>2. \A k \in Keys : /\ keys'[k].user = keys[k].user /\ keys'[k].exists = keys[k].exists
                      /\ keys'[k].active = keys[k].active
  BY DEF Touch, AccessInv, Shape, Rows
<1>3. revoked' = revoked /\ req[r].pc = "touch" /\ Answer(r, "accepted")
  BY DEF Touch
<1>4. Shape'
  BY <1>1, <1>3, Answered DEF AccessInv, Shape
<1>5. Named'
  BY <1>2, <1>3, Answered DEF AccessInv, Named
<1>6. Dead'
  BY <1>2, <1>3 DEF AccessInv, Dead, Shape
<1>7. Trusted'
  BY <1>2, <1>3, Answered DEF AccessInv, Named, Trusted
<1> QED BY <1>4, <1>5, <1>6, <1>7 DEF AccessInv

LEMMA HasPermissionKeeps ==
    ASSUME AccessInv, NEW r \in Requests, HasPermission(r)
    PROVE  AccessInv'
BY DEF HasPermission, Answer, AccessInv, Shape, Named, Dead, Trusted, Rows, Calls

LEMMA FindKeeps ==
    ASSUME AccessInv, NEW r \in Requests, Find(r)
    PROVE  AccessInv'
<1>1. keys' = keys /\ revoked' = revoked /\ req[r].pc = "revoke"
  BY DEF Find
<1>2. PICK pc \in {"save", "refused"} : Answer(r, pc)
  BY DEF Find
<1> QED BY <1>1, <1>2, Answered DEF AccessInv, Shape, Named, Dead, Trusted

LEMMA RevokeKeeps ==
    ASSUME AccessInv, NEW r \in Requests, Revoke(r)
    PROVE  AccessInv'
<1>0. req[r].key \in Keys /\ keys[req[r].key].exists
  BY DEF Revoke, AccessInv, Named
<1>1. keys' \in [Keys -> Rows]
  BY <1>0 DEF Revoke, AccessInv, Shape, Rows
<1>2. /\ \A k \in Keys : keys'[k].user = keys[k].user /\ keys'[k].exists = keys[k].exists
      /\ \A k \in Keys : keys'[k].active => keys[k].active
      /\ ~keys'[req[r].key].active
  BY <1>0 DEF Revoke, AccessInv, Shape, Rows
<1>3. revoked' = revoked \cup {req[r].key} /\ req[r].pc = "save" /\ Answer(r, "done")
  BY DEF Revoke
<1>4. Shape'
  BY <1>0, <1>1, <1>3, Answered DEF AccessInv, Shape
<1>5. Named'
  BY <1>2, <1>3, Answered DEF AccessInv, Named
<1>6. Dead'
  BY <1>0, <1>2, <1>3 DEF AccessInv, Dead, Shape
<1>7. Trusted'
  BY <1>2, <1>3, Answered DEF AccessInv, Named, Trusted
<1> QED BY <1>4, <1>5, <1>6, <1>7 DEF AccessInv

LEMMA InvNext == AccessInv /\ [AccessNext]_accessVars => AccessInv'
<1> SUFFICES ASSUME AccessInv, [AccessNext]_accessVars PROVE AccessInv'
  OBVIOUS
<1>1. CASE UNCHANGED accessVars
  BY <1>1 DEF accessVars, AccessInv, Shape, Named, Dead, Trusted
<1>2. CASE AccessNext
  BY <1>2, CreateKeyKeeps, AskKeeps, AuthenticateKeeps, TouchKeeps, HasPermissionKeeps,
     FindKeeps, RevokeKeeps DEF AccessNext
<1> QED BY <1>1, <1>2

\* Every request that begins after its key's revocation was answered is refused,
\* and no request acts for anybody but the key's user.
THEOREM RevocationCorrect == AccessSpec => []RevocationIsFinal
<1>1. AccessInv => RevocationIsFinal
  BY DEF AccessInv, Trusted, RevocationIsFinal
<1> QED BY <1>1, InvInit, InvNext, PTL DEF AccessSpec

----------------------------------------------------------------------------
(* The bytes on disk: a fold over the paths, in an order the definition leaves *)
(* open. That order depends on the set of paths left only, so two states of    *)
(* the disk are summed in the same one.                                        *)

Bytes(d) == FoldFunction(LAMBDA e, n : n + e.bytes, 0, d)

First(s) == CHOOSE p \in s : TRUE
Sums(d, T, g) ==
    g = [s \in SUBSET T |-> IF s = {} THEN 0 ELSE g[s \ {First(s)}] + d[First(s)].bytes]

Sized == [Paths -> [kind : {"absent", "file", "dir"}, bytes : Nat]]

\* Among the sets of paths with some defect there is one no part of which has it.
LEMMA LeastSet ==
    ASSUME NEW B, B \subseteq SUBSET Paths, B # {}
    PROVE  \E s \in B : \A t \in SUBSET s : t # s => t \notin B
<1>1. B \subseteq FiniteSubsetsOf(Paths)
  <2>1. \A s \in SUBSET Paths : IsFiniteSet(s)
    BY FS_Subset, BundleAssumption
  <2> QED BY <2>1 DEF FiniteSubsetsOf
<1>2. PICK s \in B : \A t \in B : ~(<<t, s>> \in StrictSubsetOrdering(Paths))
  BY <1>1, BundleAssumption, FS_StrictSubsetOrderingWellFounded, WFMin
<1>3. ASSUME NEW t \in SUBSET s, t # s PROVE t \notin B
  BY <1>2, <1>3 DEF StrictSubsetOrdering
<1> QED BY <1>2, <1>3

LEMMA FirstIn == \A s : s # {} => First(s) \in s /\ s \ {First(s)} # s
BY DEF First

\* The sum over a set of paths does not depend on where it is taken from.
LEMMA SumsAgree ==
    ASSUME NEW d, NEW T \in SUBSET Paths, NEW U \in SUBSET T, NEW g, NEW h,
           Sums(d, T, g), Sums(d, U, h)
    PROVE  \A s \in SUBSET U : g[s] = h[s]
<1> SUFFICES ASSUME NEW z \in SUBSET U, g[z] # h[z] PROVE FALSE
  OBVIOUS
<1>1. PICK B : B = {s \in SUBSET U : g[s] # h[s]}
  OBVIOUS
<1>2. PICK s \in B : \A t \in SUBSET s : t # s => t \notin B
  <2>1. B \subseteq SUBSET Paths /\ B # {}
    BY <1>1
  <2> QED BY <2>1, LeastSet
<1>3. s \in SUBSET U /\ s \in SUBSET T /\ g[s] # h[s]
  BY <1>1, <1>2
<1>4. CASE s = {}
  BY <1>3, <1>4 DEF Sums
<1>5. CASE s # {}
  <2>1. s \ {First(s)} \in SUBSET U /\ s \ {First(s)} \in SUBSET s /\ s \ {First(s)} # s
    BY <1>3, <1>5, FirstIn
  <2>2. g[s \ {First(s)}] = h[s \ {First(s)}]
    BY <1>1, <1>2, <2>1
  <2> QED BY <1>3, <1>5, <2>2 DEF Sums
<1> QED BY <1>4, <1>5

\* ... and there is one.
LEMMA SumsExist ==
    ASSUME NEW d PROVE \A T \in SUBSET Paths : \E g : Sums(d, T, g)
<1> SUFFICES ASSUME NEW z \in SUBSET Paths, ~\E g : Sums(d, z, g) PROVE FALSE
  OBVIOUS
<1>1. PICK B : B = {T \in SUBSET Paths : ~\E g : Sums(d, T, g)}
  OBVIOUS
<1>2. PICK T \in B : \A t \in SUBSET T : t # T => t \notin B
  <2>1. B \subseteq SUBSET Paths /\ B # {}
    BY <1>1
  <2> QED BY <2>1, LeastSet
<1>3. T \in SUBSET Paths /\ ~\E g : Sums(d, T, g)
  BY <1>1, <1>2
<1> DEFINE of(U) == CHOOSE g : Sums(d, U, g)
<1>4. ASSUME NEW U \in SUBSET T, U # T PROVE Sums(d, U, of(U))
  BY <1>1, <1>2, <1>3, <1>4
<1> DEFINE g == [s \in SUBSET T |-> IF s = {} THEN 0
                   ELSE of(s \ {First(s)})[s \ {First(s)}] + d[First(s)].bytes]
<1>5. ASSUME NEW U \in SUBSET T, U # T PROVE g[U] = of(U)[U]
  <2>1. CASE U = {}
    <3>1. PICK h : h = of(U)
      OBVIOUS
    <3>2. h = [s \in SUBSET U |-> IF s = {} THEN 0 ELSE h[s \ {First(s)}] + d[First(s)].bytes]
      <4>1. Sums(d, U, h)
        BY <1>4, <1>5, <3>1
      <4> QED BY <4>1 DEF Sums
    <3>3. h[{}] = 0 /\ g[{}] = 0
      BY <2>1, <3>2
    <3> QED BY <2>1, <3>1, <3>3
  <2>2. CASE U # {}
    <3>1. PICK V : V = U \ {First(U)}
      OBVIOUS
    <3>2. V \in SUBSET U /\ V \in SUBSET T /\ V # T
      BY <1>5, <2>2, <3>1, FirstIn
    <3>3. of(U)[V] = of(V)[V]
      <4>1. PICK h : h = of(U)
        OBVIOUS
      <4>2. PICK k : k = of(V)
        OBVIOUS
      <4>3. Sums(d, U, h) /\ Sums(d, V, k) /\ U \in SUBSET Paths
        BY <1>3, <1>4, <1>5, <3>2, <4>1, <4>2
      <4>4. h[V] = k[V]
        BY <3>2, <4>3, SumsAgree
      <4> QED BY <4>1, <4>2, <4>4
    <3>4. Sums(d, U, of(U))
      BY <1>4, <1>5
    <3>5. of(U)[U] = of(U)[V] + d[First(U)].bytes
      BY <2>2, <3>1, <3>4 DEF Sums
    <3>6. g[U] = of(V)[V] + d[First(U)].bytes
      BY <2>2, <3>1
    <3> QED BY <3>3, <3>5, <3>6
  <2> QED BY <2>1, <2>2
<1>6. ASSUME NEW s \in SUBSET T, s # {} PROVE g[s] = g[s \ {First(s)}] + d[First(s)].bytes
  <2>1. s \ {First(s)} \in SUBSET T /\ s \ {First(s)} # T
    BY <1>6, FirstIn
  <2>2. g[s \ {First(s)}] = of(s \ {First(s)})[s \ {First(s)}]
    BY <1>5, <2>1
  <2> QED BY <1>6, <2>2
<1>7. g[{}] = 0 /\ g = [s \in SUBSET T |-> g[s]]
  OBVIOUS
<1> HIDE DEF g
<1>8. \A s \in SUBSET T : g[s] = IF s = {} THEN 0 ELSE g[s \ {First(s)}] + d[First(s)].bytes
  BY <1>6, <1>7
<1>9. Sums(d, T, g)
  BY <1>7, <1>8 DEF Sums
<1> QED BY <1>3, <1>9

\* What the fold of a disk is
LEMMA BytesAre ==
    ASSUME NEW d, DOMAIN d = Paths, NEW g, Sums(d, Paths, g) PROVE Bytes(d) = g[Paths]
<1>1. ASSUME NEW h, Sums(d, Paths, h) PROVE h = g
  <2>1. \A s \in SUBSET Paths : h[s] = g[s]
    <3>1. PICK T : T = Paths
      OBVIOUS
    <3>2. T \in SUBSET Paths /\ T \in SUBSET T /\ Sums(d, T, h) /\ Sums(d, T, g)
      BY <1>1, <3>1
    <3>3. \A s \in SUBSET T : h[s] = g[s]
      BY <3>2, SumsAgree
    <3> QED BY <3>1, <3>3
  <2>2. h = [s \in SUBSET Paths |-> h[s]] /\ g = [s \in SUBSET Paths |-> g[s]]
    BY <1>1 DEF Sums
  <2> QED BY <2>1, <2>2
<1> QED BY <1>1 DEF Bytes, FoldFunction, FoldFunctionOnSet, MapThenFoldSet, Sums, First


LEMMA BytesNat ==
    ASSUME NEW d \in Sized, NEW g, Sums(d, Paths, g)
    PROVE  \A s \in SUBSET Paths : g[s] \in Nat
<1> SUFFICES ASSUME NEW z \in SUBSET Paths, g[z] \notin Nat PROVE FALSE
  OBVIOUS
<1>1. PICK B : B = {s \in SUBSET Paths : g[s] \notin Nat}
  OBVIOUS
<1>2. PICK s \in B : \A t \in SUBSET s : t # s => t \notin B
  <2>1. B \subseteq SUBSET Paths /\ B # {}
    BY <1>1
  <2> QED BY <2>1, LeastSet
<1>3. s \in SUBSET Paths /\ g[s] \notin Nat
  BY <1>1, <1>2
<1>4. CASE s = {}
  BY <1>3, <1>4 DEF Sums
<1>5. CASE s # {}
  <2>1. /\ First(s) \in Paths /\ s \ {First(s)} \in SUBSET s /\ s \ {First(s)} # s
        /\ s \ {First(s)} \in SUBSET Paths
    BY <1>3, <1>5, FirstIn
  <2>2. g[s \ {First(s)}] \in Nat
    BY <1>1, <1>2, <2>1
  <2>3. d[First(s)].bytes \in Nat
    BY <2>1 DEF Sized
  <2>4. g[s] = g[s \ {First(s)}] + d[First(s)].bytes
    BY <1>3, <1>5 DEF Sums
  <2> QED BY <1>3, <2>2, <2>3, <2>4
<1> QED BY <1>4, <1>5

\* If no file has grown but one, and that by k bytes, the disk holds at most k bytes more.
LEMMA BytesGrow ==
    ASSUME NEW d \in Sized, NEW e \in Sized, NEW p \in Paths, NEW k \in Nat,
           \A q \in Paths \ {p} : e[q].bytes <= d[q].bytes, e[p].bytes <= d[p].bytes + k
    PROVE  Bytes(d) \in Nat /\ Bytes(e) \in Nat /\ Bytes(e) <= Bytes(d) + k
<1>1. PICK g : Sums(d, Paths, g)
  BY SumsExist
<1>2. PICK h : Sums(e, Paths, h)
  BY SumsExist
<1>3. \A s \in SUBSET Paths : g[s] \in Nat /\ h[s] \in Nat
  BY <1>1, <1>2, BytesNat
<1>4. Bytes(d) = g[Paths] /\ Bytes(e) = h[Paths]
  BY <1>1, <1>2, BytesAre DEF Sized
<1> DEFINE more(s) == IF p \in s THEN k ELSE 0
<1>5. ASSUME NEW z \in SUBSET Paths, ~(h[z] <= g[z] + more(z)) PROVE FALSE
  <2>1. PICK B : B = {s \in SUBSET Paths : ~(h[s] <= g[s] + more(s))}
    OBVIOUS
  <2>2. PICK s \in B : \A t \in SUBSET s : t # s => t \notin B
    <3>1. B \subseteq SUBSET Paths /\ B # {}
      BY <1>5, <2>1
    <3> QED BY <3>1, LeastSet
  <2>3. s \in SUBSET Paths /\ ~(h[s] <= g[s] + more(s))
    BY <2>1, <2>2
  <2>4. CASE s = {}
    <3>1. g[s] = 0 /\ h[s] = 0
      BY <1>1, <1>2, <2>3, <2>4 DEF Sums
    <3> QED BY <2>3, <2>4, <3>1
  <2>5. CASE s # {}
    <3>1. PICK f : f = First(s)
      OBVIOUS
    <3>2. PICK t : t = s \ {f}
      OBVIOUS
    <3>3. f \in s /\ f \in Paths /\ t \in SUBSET s /\ t # s /\ t \in SUBSET Paths
      BY <2>3, <2>5, <3>1, <3>2, FirstIn
    <3>4. h[t] <= g[t] + more(t)
      BY <2>1, <2>2, <3>3
    <3>5. g[s] = g[t] + d[f].bytes /\ h[s] = h[t] + e[f].bytes
      BY <1>1, <1>2, <2>3, <2>5, <3>1, <3>2 DEF Sums
    <3>6. /\ d[f].bytes \in Nat /\ e[f].bytes \in Nat /\ g[t] \in Nat /\ h[t] \in Nat
          /\ e[f].bytes <= d[f].bytes + (IF f = p THEN k ELSE 0)
      BY <1>3, <3>3 DEF Sized
    <3>7. more(s) = more(t) + (IF f = p THEN k ELSE 0) /\ more(t) \in Nat
      BY <3>2, <3>3
    <3> HIDE DEF more
    <3> QED BY <2>3, <3>4, <3>5, <3>6, <3>7
  <2> QED BY <2>4, <2>5
<1>6. h[Paths] <= g[Paths] + k
  <2>1. Paths \in SUBSET Paths /\ more(Paths) = k
    OBVIOUS
  <2> QED BY <1>5, <2>1
<1> QED BY <1>3, <1>4, <1>6

LEMMA BytesOfNothing == Bytes(Nothing) = 0
<1>1. PICK g : Sums(Nothing, Paths, g)
  BY SumsExist
<1>2. Bytes(Nothing) = g[Paths]
  BY <1>1, BytesAre DEF Nothing
<1> SUFFICES ASSUME g[Paths] # 0 PROVE FALSE
  BY <1>2
<1>3. PICK B : B = {s \in SUBSET Paths : g[s] # 0}
  OBVIOUS
<1>4. PICK s \in B : \A t \in SUBSET s : t # s => t \notin B
  <2>1. B \subseteq SUBSET Paths /\ B # {}
    BY <1>3
  <2> QED BY <2>1, LeastSet
<1>5. s \in SUBSET Paths /\ g[s] # 0
  BY <1>3, <1>4
<1>6. CASE s = {}
  BY <1>1, <1>5, <1>6 DEF Sums
<1>7. CASE s # {}
  <2>1. /\ First(s) \in Paths /\ s \ {First(s)} \in SUBSET s /\ s \ {First(s)} # s
        /\ s \ {First(s)} \in SUBSET Paths
    BY <1>5, <1>7, FirstIn
  <2>2. g[s \ {First(s)}] = 0
    BY <1>3, <1>4, <2>1
  <2>3. Nothing[First(s)].bytes = 0
    BY <2>1 DEF Nothing, Absent
  <2>4. g[s] = g[s \ {First(s)}] + Nothing[First(s)].bytes
    BY <1>1, <1>5, <1>7 DEF Sums
  <2> QED BY <1>5, <2>2, <2>3, <2>4
<1> QED BY <1>6, <1>7

----------------------------------------------------------------------------
(* The extraction.                                                             *)

Works == [pc : {"validate", "open", "extract", "rejected"}, at : Nat \ {0},
          written : Nat, before : Nat]

PathAt(i) == Normal[archive[i].name]

\* Of the entries up to n the last one for the path q is what the disk holds of it.
LastFor(q, n) ==
    \E i \in 1..n : /\ FileEntry(i, q) /\ archive[i].bytes = disk[q].bytes
                    /\ \A j \in i+1 .. n : ~FileEntry(j, q)

\* Each of the first n entries that is for a file has one.
Extracted(n) == \A i \in 1..n : ~archive[i].dir => IsFile(PathAt(i))

OnDisk ==
    /\ archive \in Seq(Entries) /\ disk \in Sized
    /\ \A p \in Paths : disk[p].bytes <= MaxEntry /\ (disk[p].kind # "file" => disk[p].bytes = 0)
    /\ Bytes(disk) <= MaxTotal
    /\ bundle \in Works \/ bundle.pc = "accepted"

Fresh ==
    /\ bundle.pc \in {"validate", "rejected"} => disk = Nothing
    /\ bundle.pc = "validate" => bundle.at = 1 /\ bundle.before = 0

Between ==
    bundle.pc = "open" =>
        /\ Bytes(disk) <= bundle.before
        /\ \A q \in Paths : IsFile(q) => LastFor(q, bundle.at - 1)
        /\ Extracted(bundle.at - 1)

Underway ==
    bundle.pc \in {"open", "extract"} =>
        /\ \A i \in 1..Len(archive) : PathAt(i) \in Paths
        /\ bundle.at <= Len(archive) + 1 /\ bundle.before <= MaxTotal

Writing ==
    bundle.pc = "extract" =>
        /\ bundle.at <= Len(archive) /\ ~Entry.dir
        /\ bundle.before + bundle.written <= MaxTotal /\ bundle.written <= MaxEntry
        /\ disk[PathAt(bundle.at)] = File(bundle.written)
        /\ Bytes(disk) <= bundle.before + bundle.written
        /\ \A q \in Paths \ {PathAt(bundle.at)} : IsFile(q) => LastFor(q, bundle.at - 1)
        /\ Extracted(bundle.at - 1)

Finished ==
    bundle.pc = "accepted" =>
        /\ \A p \in {Yaml} \cup Declared(bundle.manifest) : IsFile(p)
        /\ \A q \in Paths : IsFile(q) => LastFor(q, Len(archive))
        /\ Extracted(Len(archive))

BundleInv == OnDisk /\ Fresh /\ Underway /\ Between /\ Writing /\ Finished

LEMMA NothingFits ==
    /\ Nothing \in Sized /\ Bytes(Nothing) = 0
    /\ \A p \in Paths : Nothing[p] = Absent
BY BytesOfNothing DEF Nothing, Absent, Sized

LEMMA BundleStarts == BundleInit => BundleInv
<1> SUFFICES ASSUME BundleInit PROVE BundleInv
  OBVIOUS
<1>1. archive \in Seq(Entries)
  BY BundleAssumption DEF BundleInit
<1>2. bundle \in Works /\ bundle.pc = "validate"
  BY DEF BundleInit, Works
<1>3. disk = Nothing
  BY DEF BundleInit
<1>4. Bytes(disk) = 0 /\ disk \in Sized /\ \A p \in Paths : disk[p] = Absent
  BY <1>3, NothingFits
<1>5. OnDisk
  BY <1>1, <1>2, <1>4, BundleAssumption DEF OnDisk, Absent
<1>6. Fresh
  BY <1>3 DEF BundleInit, Fresh
<1> QED BY <1>2, <1>5, <1>6 DEF BundleInv, Underway, Between, Writing, Finished

LEMMA RejectKeeps ==
    ASSUME BundleInv, Reject, bundle \in Works PROVE BundleInv'
<1>1. bundle' \in Works /\ bundle'.pc = "rejected"
  BY DEF Reject, Works
<1>2. disk' = Nothing /\ archive' = archive
  BY DEF Reject
<1>3. Bytes(disk') = 0 /\ disk' \in Sized /\ \A p \in Paths : disk'[p] = Absent
  BY <1>2, NothingFits
<1>4. OnDisk'
  BY <1>1, <1>2, <1>3, BundleAssumption DEF BundleInv, OnDisk, Absent
<1> QED BY <1>1, <1>2, <1>4 DEF BundleInv, Fresh, Underway, Between, Writing, Finished

LEMMA ValidateKeeps == ASSUME BundleInv, Validate PROVE BundleInv'
<1>0. bundle \in Works /\ bundle.pc = "validate"
  BY DEF BundleInv, OnDisk, Validate
<1>1. CASE Reject
  BY <1>0, <1>1, RejectKeeps
<1>2. CASE Valid /\ bundle' = [bundle EXCEPT !.pc = "open"] /\ UNCHANGED <<archive, disk>>
  <2>1. /\ bundle' \in Works /\ bundle'.pc = "open" /\ bundle'.at = bundle.at
        /\ bundle'.before = bundle.before
    BY <1>0, <1>2 DEF Works
  <2>2. \A i \in 1..Len(archive) : archive[i] \in Entries /\ Normal[archive[i].name] # Rejected
    <3>1. archive \in Seq(Entries)
      BY DEF BundleInv, OnDisk
    <3>2. \A i \in 1..Len(archive) : archive[i] \in Entries /\ archive[i] \in Range(archive)
      BY <3>1 DEF Range
    <3>3. \A e \in Range(archive) : Normal[e.name] # Rejected
      BY <1>2 DEF Valid, EntryAllowed
    <3> QED BY <3>2, <3>3
  <2>3. \A i \in 1..Len(archive) : PathAt(i) \in Paths
    BY <2>2, BundleAssumption DEF PathAt, Entries
  <2>4. Len(archive) \in Nat /\ bundle.at = 1 /\ bundle.before = 0
    BY <1>0 DEF BundleInv, OnDisk, Fresh
  <2>5. Underway'
    BY <1>2, <2>1, <2>3, <2>4, BundleAssumption DEF Underway, PathAt
  <2>6. disk' = Nothing
    BY <1>0, <1>2 DEF BundleInv, Fresh
  <2>7. Between'
    BY <2>1, <2>4, <2>6, NothingFits DEF Between, IsFile, Absent, Extracted
  <2>8. OnDisk'
    BY <1>2, <2>1 DEF BundleInv, OnDisk
  <2> QED BY <2>1, <2>5, <2>7, <2>8 DEF BundleInv, Fresh, Writing, Finished
<1> QED BY <1>1, <1>2 DEF Validate

\* What the disk holds of a path stays so when the next entry is not for it.
LEMMA LastForStays ==
    ASSUME NEW q \in Paths, NEW n \in Nat, LastFor(q, n), disk'[q] = disk[q], archive' = archive,
           ~FileEntry(n + 1, q)
    PROVE  LastFor(q, n + 1)'
<1>1. PICK i \in 1..n : /\ FileEntry(i, q) /\ archive[i].bytes = disk[q].bytes
                       /\ \A j \in i+1 .. n : ~FileEntry(j, q)
  BY DEF LastFor
<1>2. i \in 1..n+1 /\ \A j \in i+1 .. n+1 : j \in i+1 .. n \/ j = n + 1
  OBVIOUS
<1>3. \A j \in i+1 .. n+1 : ~FileEntry(j, q)
  BY <1>1, <1>2
<1>4. \A j : FileEntry(j, q)' <=> FileEntry(j, q)
  BY DEF FileEntry
<1> QED BY <1>1, <1>2, <1>3, <1>4 DEF LastFor

\* Nor when nothing is written for it at all.
LEMMA LastForKeeps ==
    ASSUME NEW q \in Paths, NEW n \in Nat, LastFor(q, n), disk'[q] = disk[q], archive' = archive
    PROVE  LastFor(q, n)'
BY DEF LastFor, FileEntry


\* What was extracted stays there as long as no file goes, and one more entry is
\* if it has its file or needs none.
LEMMA ExtractedKeeps ==
    ASSUME NEW n \in Nat, Extracted(n), archive' = archive,
           \A q : IsFile(q) => IsFile(q)'
    PROVE  Extracted(n)'
<1>1. \A i : PathAt(i)' = PathAt(i)
  BY DEF PathAt
<1>2. \A i \in 1..n : ~archive'[i].dir => IsFile(PathAt(i))
  BY DEF Extracted
<1> QED BY <1>1, <1>2 DEF Extracted

LEMMA OneMoreExtracted ==
    ASSUME NEW n \in Nat, Extracted(n), archive[n + 1].dir \/ IsFile(PathAt(n + 1))
    PROVE  Extracted(n + 1)
<1>1. \A i \in 1..n+1 : i \in 1..n \/ i = n + 1
  OBVIOUS
<1> QED BY <1>1 DEF Extracted

\* Putting a directory or an empty file in its place takes no room, and changes no
\* other file.
LEMMA PlacedFits ==
    ASSUME BundleInv, NEW p \in Paths, NEW x \in {Dir, File(0)}, DirFits(Parent[p]),
           disk' = Placed(p, x)
    PROVE  /\ disk' \in Sized /\ disk'[p] = x
           /\ \A q \in Paths : disk'[q].bytes <= MaxEntry
                              /\ (disk'[q].kind # "file" => disk'[q].bytes = 0)
           /\ Bytes(disk) \in Nat /\ Bytes(disk') \in Nat /\ Bytes(disk') <= Bytes(disk)
           /\ \A q \in Paths \ {p} : disk'[q].kind = "file" => disk'[q] = disk[q]
<1>1. disk'[p] = x /\ \A q \in Paths \ {p} : disk'[q] = Dir \/ disk'[q] = disk[q]
  BY DEF Placed
<1>2. disk \in Sized /\ \A q \in Paths : disk[q].bytes \in Nat
  BY DEF BundleInv, OnDisk, Sized
<1>3. disk' \in Sized
  <2>1. \A q \in Paths : disk'[q] \in [kind : {"absent", "file", "dir"}, bytes : Nat]
    BY <1>1, <1>2 DEF Sized, File, Dir
  <2>2. disk' = [q \in Paths |-> disk'[q]]
    BY DEF Placed
  <2> QED BY <2>1, <2>2 DEF Sized
<1>4. \A q \in Paths : disk'[q].bytes <= disk[q].bytes
  BY <1>1, <1>2 DEF File, Dir
<1>5. Bytes(disk) \in Nat /\ Bytes(disk') \in Nat /\ Bytes(disk') <= Bytes(disk)
  <2>1. disk'[p].bytes <= disk[p].bytes + 0
    BY <1>2, <1>4
  <2>2. 0 \in Nat /\ \A q \in Paths \ {p} : disk'[q].bytes <= disk[q].bytes
    BY <1>4
  <2>3. Bytes(disk) \in Nat /\ Bytes(disk') \in Nat /\ Bytes(disk') <= Bytes(disk) + 0
    BY <1>2, <1>3, <2>1, <2>2, BytesGrow
  <2> QED BY <2>3
<1>6. \A q \in Paths : disk'[q].bytes <= MaxEntry
  BY <1>1, BundleAssumption DEF BundleInv, OnDisk, File, Dir
<1>7. \A q \in Paths : disk'[q].kind # "file" => disk'[q].bytes = 0
  BY <1>1 DEF BundleInv, OnDisk, File, Dir
<1>8. \A q \in Paths \ {p} : disk'[q].kind = "file" => disk'[q] = disk[q]
  BY <1>1 DEF Dir
<1> QED BY <1>1, <1>3, <1>5, <1>6, <1>7, <1>8

\* A directory's entry is for no file.
LEMMA SkipDirectoryKeeps == ASSUME BundleInv, SkipDirectory PROVE BundleInv'
<1>0. bundle \in Works /\ bundle.pc = "open" /\ Len(archive) \in Nat /\ bundle.at <= Len(archive)
      /\ Entry.dir /\ archive' = archive /\ disk' = disk
  BY DEF BundleInv, OnDisk, SkipDirectory
<1>1. /\ bundle' \in Works /\ bundle'.pc = "open" /\ bundle'.at = bundle.at + 1
      /\ bundle'.before = bundle.before
  BY <1>0 DEF SkipDirectory, Works
<1>2. PICK n \in Nat : bundle.at = n + 1
  BY <1>0 DEF Works
<1>3. Underway'
  BY <1>0, <1>1, <1>2 DEF BundleInv, Underway, PathAt
<1>4. ASSUME NEW q \in Paths, IsFile(q)' PROVE LastFor(q, n + 1)'
  <2>1. LastFor(q, n)
    BY <1>0, <1>2, <1>4 DEF BundleInv, Between, IsFile
  <2>2. ~FileEntry(n + 1, q)
    BY <1>0, <1>2 DEF FileEntry, Entry
  <2> QED BY <1>0, <2>1, <2>2, LastForStays
<1>5. Extracted(n + 1)'
  <2>1. Extracted(n + 1)
    BY <1>0, <1>2, OneMoreExtracted DEF BundleInv, Between, Entry
  <2>2. \A q : IsFile(q) => IsFile(q)'
    BY <1>0 DEF IsFile
  <2>3. n + 1 \in Nat
    OBVIOUS
  <2> QED BY <1>0, <2>1, <2>2, <2>3, ExtractedKeeps
<1>6. Between'
  <2>1. Bytes(disk') <= bundle'.before
    BY <1>0, <1>1 DEF BundleInv, Between
  <2>2. bundle'.at - 1 = n + 1
    BY <1>1, <1>2
  <2> QED BY <1>4, <1>5, <2>1, <2>2 DEF Between
<1>7. OnDisk'
  BY <1>0, <1>1 DEF BundleInv, OnDisk
<1> QED BY <1>1, <1>3, <1>6, <1>7 DEF BundleInv, Fresh, Writing, Finished

\* Opening a file empties it.
LEMMA OpenKeeps == ASSUME BundleInv, Open PROVE BundleInv'
<1>0. bundle \in Works /\ bundle.pc = "open" /\ Len(archive) \in Nat /\ bundle.at <= Len(archive)
      /\ ~Entry.dir
  BY DEF BundleInv, OnDisk, Open
<1>1. CASE Reject
  BY <1>0, <1>1, RejectKeeps
<1>2. CASE ~Reject
  <2>1. PICK p \in Paths : p = Normal[Entry.name] /\ p = PathAt(bundle.at)
    BY <1>0 DEF BundleInv, Underway, PathAt, Entry, Works
  <2>2. /\ DirFits(Parent[p]) /\ disk' = Placed(p, File(0))
        /\ bundle' = [bundle EXCEPT !.pc = "extract", !.written = 0]
        /\ archive' = archive
    BY <1>2, <2>1 DEF Open
  <2>3. /\ bundle' \in Works /\ bundle'.pc = "extract" /\ bundle'.at = bundle.at
        /\ bundle'.before = bundle.before /\ bundle'.written = 0
    BY <1>0, <2>2 DEF Works
  <2>4. /\ disk' \in Sized /\ disk'[p] = File(0)
        /\ \A q \in Paths : disk'[q].bytes <= MaxEntry
                           /\ (disk'[q].kind # "file" => disk'[q].bytes = 0)
        /\ Bytes(disk) \in Nat /\ Bytes(disk') \in Nat /\ Bytes(disk') <= Bytes(disk)
        /\ \A q \in Paths \ {p} : disk'[q].kind = "file" => disk'[q] = disk[q]
    BY <2>2, PlacedFits
  <2>5. OnDisk'
    <3>1. Bytes(disk') <= MaxTotal
      BY <2>4, BundleAssumption DEF BundleInv, OnDisk
    <3> QED BY <2>2, <2>3, <2>4, <3>1 DEF BundleInv, OnDisk
  <2>6. Underway'
    BY <1>0, <2>2, <2>3 DEF BundleInv, Underway, PathAt
  <2>7. PICK n \in Nat : n = bundle.at - 1
    BY <1>0 DEF Works
  <2>8. ASSUME NEW q \in Paths \ {p}, IsFile(q)' PROVE LastFor(q, n)'
    <3>1. disk'[q] = disk[q]
      BY <2>4, <2>8 DEF IsFile
    <3>2. LastFor(q, n)
      BY <1>0, <2>7, <2>8, <3>1 DEF BundleInv, Between, IsFile
    <3> QED BY <2>2, <3>1, <3>2, LastForKeeps
  <2>9. Writing'
    <3>1. Bytes(disk') <= bundle'.before + bundle'.written
      BY <1>0, <2>3, <2>4 DEF BundleInv, Between, Works
    <3>2. bundle'.before + bundle'.written <= MaxTotal /\ bundle'.written <= MaxEntry
      BY <1>0, <2>3, BundleAssumption DEF BundleInv, Underway, Works
    <3>3. PathAt(bundle.at)' = p /\ ~Entry'.dir
      BY <1>0, <2>1, <2>2, <2>3 DEF PathAt, Entry
    <3>4. bundle'.at - 1 = n
      BY <2>3, <2>7
    <3>5. \A q : IsFile(q) => IsFile(q)'
      <4>1. IsFile(p)'
        BY <2>4 DEF IsFile, File
      <4>2. \A q \in Paths \ {p} : IsFile(q) => disk'[q] = disk[q]
        <5>1. Top \notin Paths
          BY BundleAssumption
        <5>2. \A q \in Paths \ {p} : disk'[q] = IF q = Parent[p] THEN Dir ELSE disk[q]
          BY <2>2 DEF Placed
        <5> QED BY <2>2, <5>1, <5>2 DEF DirFits, IsFile
      <4> QED BY <4>1, <4>2 DEF IsFile
    <3>6. Extracted(n)'
      BY <1>0, <2>2, <2>7, <3>5, ExtractedKeeps DEF BundleInv, Between
    <3> QED BY <1>0, <2>2, <2>3, <2>4, <2>8, <3>1, <3>2, <3>3, <3>4, <3>6 DEF Writing
  <2> QED BY <2>3, <2>5, <2>6, <2>9 DEF BundleInv, Fresh, Between, Finished
<1> QED BY <1>1, <1>2

LEMMA ExtractKeeps == ASSUME BundleInv, Extract PROVE BundleInv'
<1>0. bundle \in Works /\ bundle.pc = "extract" /\ Len(archive) \in Nat /\ bundle.at <= Len(archive)
      /\ ~Entry.dir /\ disk[PathAt(bundle.at)] = File(bundle.written)
  BY DEF BundleInv, OnDisk, Extract, Writing
<1>1. CASE Reject
  BY <1>0, <1>1, RejectKeeps
<1>2. CASE ~Reject
  <2>1. PICK p \in Paths : p = Normal[Entry.name] /\ p = PathAt(bundle.at)
    BY <1>0 DEF BundleInv, Underway, PathAt, Entry, Works
  <2>2. PICK m \in Nat : m = bundle.written + 1
    BY <1>0 DEF Works
  <2>3. /\ m <= MaxEntry /\ bundle.before + m <= MaxTotal
        /\ disk' = [disk EXCEPT ![p] = File(m)]
        /\ bundle' = [bundle EXCEPT !.written = m]
        /\ archive' = archive
    BY <1>2, <2>1, <2>2 DEF Extract, Within
  <2>4. /\ bundle' \in Works /\ bundle'.pc = "extract" /\ bundle'.at = bundle.at
        /\ bundle'.before = bundle.before /\ bundle'.written = m
    BY <1>0, <2>3 DEF Works
  <2>5. disk \in Sized /\ \A q \in Paths : disk[q].bytes \in Nat
    BY DEF BundleInv, OnDisk, Sized
  <2>6. disk'[p] = File(m) /\ \A q \in Paths \ {p} : disk'[q] = disk[q]
    BY <2>3, <2>5 DEF Sized
  <2>7. disk' \in Sized
    BY <2>3, <2>5 DEF Sized, File
  <2>8. Bytes(disk) \in Nat /\ Bytes(disk') \in Nat /\ Bytes(disk') <= Bytes(disk) + 1
    <3>1. disk'[p].bytes <= disk[p].bytes + 1
      BY <1>0, <2>1, <2>2, <2>6 DEF File
    <3>2. 1 \in Nat /\ \A q \in Paths \ {p} : disk'[q].bytes <= disk[q].bytes
      BY <2>5, <2>6
    <3> QED BY <2>5, <2>7, <3>1, <3>2, BytesGrow
  <2>9. Bytes(disk') <= bundle.before + m
    BY <1>0, <2>2, <2>8 DEF BundleInv, Writing, Works
  <2>10. OnDisk'
    <3>1. \A q \in Paths : disk'[q].bytes <= MaxEntry
      BY <2>3, <2>6 DEF BundleInv, OnDisk, File
    <3>2. \A q \in Paths : disk'[q].kind # "file" => disk'[q].bytes = 0
      BY <2>6 DEF BundleInv, OnDisk, File
    <3>3. Bytes(disk') <= MaxTotal
      BY <1>0, <2>3, <2>8, <2>9, BundleAssumption DEF Works
    <3> QED BY <2>3, <2>4, <2>7, <3>1, <3>2, <3>3 DEF BundleInv, OnDisk
  <2>11. Underway'
    BY <1>0, <2>3, <2>4 DEF BundleInv, Underway, PathAt
  <2>12. PICK n \in Nat : n = bundle.at - 1
    BY <1>0 DEF Works
  <2>13. ASSUME NEW q \in Paths \ {p}, IsFile(q)' PROVE LastFor(q, n)'
    <3>1. disk'[q] = disk[q]
      BY <2>6
    <3>2. LastFor(q, n)
      BY <1>0, <2>1, <2>12, <2>13, <3>1 DEF BundleInv, Writing, IsFile
    <3> QED BY <2>3, <3>1, <3>2, LastForKeeps
  <2>14. Writing'
    <3>1. PathAt(bundle.at)' = p /\ ~Entry'.dir
      BY <1>0, <2>1, <2>3, <2>4 DEF PathAt, Entry
    <3>2. bundle'.at - 1 = n
      BY <2>4, <2>12
    <3>3. \A q : IsFile(q) => IsFile(q)'
      BY <2>6 DEF IsFile, File
    <3>4. Extracted(n)'
      BY <1>0, <2>3, <2>12, <3>3, ExtractedKeeps DEF BundleInv, Writing
    <3> QED BY <1>0, <2>3, <2>4, <2>6, <2>9, <2>13, <3>1, <3>2, <3>4 DEF Writing
  <2> QED BY <2>4, <2>10, <2>11, <2>14 DEF BundleInv, Fresh, Between, Finished
<1> QED BY <1>1, <1>2

LEMMA EndEntryKeeps == ASSUME BundleInv, EndEntry PROVE BundleInv'
<1>0. bundle \in Works /\ bundle.pc = "extract" /\ Len(archive) \in Nat /\ bundle.at <= Len(archive)
      /\ ~Entry.dir /\ disk[PathAt(bundle.at)] = File(bundle.written)
  BY DEF BundleInv, OnDisk, EndEntry, Writing
<1>1. PICK p \in Paths : p = PathAt(bundle.at)
  BY <1>0 DEF BundleInv, Underway, Works
<1>2. /\ bundle' \in Works /\ bundle'.pc = "open" /\ bundle'.at = bundle.at + 1
      /\ bundle'.before = bundle.before + bundle.written
  <2>1. PICK a \in Nat \ {0} : a = bundle.at + 1
    BY <1>0 DEF Works
  <2>2. PICK b \in Nat : b = bundle.before + bundle.written
    BY <1>0 DEF Works
  <2>3. bundle' = [bundle EXCEPT !.pc = "open", !.at = a, !.before = b]
    BY <2>1, <2>2 DEF EndEntry
  <2> QED BY <1>0, <2>1, <2>2, <2>3 DEF Works
<1>3. UNCHANGED <<archive, disk>> /\ bundle.written = Entry.bytes
  BY DEF EndEntry
<1>4. PICK n \in Nat : bundle.at = n + 1
  BY <1>0 DEF Works
<1>5. Underway'
  BY <1>0, <1>2, <1>3 DEF BundleInv, Underway, Writing, PathAt, Works
<1>6. ASSUME NEW q \in Paths \ {p}, IsFile(q)' PROVE LastFor(q, n + 1)'
  <2>1. LastFor(q, n)
    BY <1>0, <1>1, <1>3, <1>4, <1>6 DEF BundleInv, Writing, IsFile
  <2>2. ~FileEntry(n + 1, q)
    BY <1>1, <1>4, <1>6 DEF FileEntry, PathAt
  <2> QED BY <1>3, <2>1, <2>2, LastForStays
<1>7. LastFor(p, n + 1)'
  <2>1. FileEntry(n + 1, p) /\ archive[n + 1].bytes = disk[p].bytes
    BY <1>0, <1>1, <1>3, <1>4 DEF FileEntry, PathAt, Entry, File
  <2>2. n + 1 \in 1..n+1 /\ n + 1 + 1 .. n + 1 = {}
    OBVIOUS
  <2> QED BY <1>3, <2>1, <2>2 DEF LastFor, FileEntry
<1>8. Between'
  <2>1. Bytes(disk') <= bundle'.before
    BY <1>0, <1>2, <1>3 DEF BundleInv, Writing
  <2>2. bundle'.at - 1 = n + 1
    BY <1>2, <1>4
  <2>3. Extracted(n + 1)'
    <3>1. IsFile(PathAt(n + 1))
      BY <1>0, <1>1, <1>4 DEF IsFile, File
    <3>2. Extracted(n + 1)
      BY <1>0, <1>4, <3>1, OneMoreExtracted DEF BundleInv, Writing
    <3>3. \A q : IsFile(q) => IsFile(q)'
      BY <1>3 DEF IsFile
    <3>4. n + 1 \in Nat
      OBVIOUS
    <3> QED BY <1>3, <3>2, <3>3, <3>4, ExtractedKeeps
  <2> QED BY <1>6, <1>7, <2>1, <2>2, <2>3 DEF Between
<1>9. OnDisk'
  BY <1>2, <1>3 DEF BundleInv, OnDisk
<1> QED BY <1>2, <1>5, <1>8, <1>9 DEF BundleInv, Fresh, Writing, Finished

LEMMA CheckKeeps == ASSUME BundleInv, CheckManifest PROVE BundleInv'
<1>0. bundle \in Works /\ bundle.pc = "open" /\ Len(archive) \in Nat
  BY DEF BundleInv, OnDisk, CheckManifest
<1>1. CASE Reject
  BY <1>0, <1>1, RejectKeeps
<1>2. CASE ~Reject
  <2>1. PICK m \in Manifests : Complete(m) /\ bundle' = [pc |-> "accepted", manifest |-> m]
    BY <1>2 DEF CheckManifest
  <2>2. IsFile(Yaml) /\ UNCHANGED <<archive, disk>> /\ bundle.at > Len(archive)
    BY <1>2 DEF CheckManifest
  <2>3. bundle'.pc = "accepted" /\ bundle'.manifest = m
    BY <2>1
  <2>4. bundle.at - 1 = Len(archive)
    BY <1>0, <2>2 DEF BundleInv, Underway, Works
  <2>5. ASSUME NEW q \in Paths, IsFile(q)' PROVE LastFor(q, Len(archive))'
    <3>1. PICK n \in Nat : n = Len(archive)
      BY <1>0
    <3>2. LastFor(q, n)
      BY <1>0, <2>2, <2>4, <2>5, <3>1 DEF BundleInv, Between, IsFile
    <3>3. LastFor(q, n)'
      BY <2>2, <3>2, LastForKeeps
    <3> QED BY <2>2, <3>1, <3>3
  <2>6. \A p \in {Yaml} \cup Declared(m) : IsFile(p)'
    BY <2>1, <2>2 DEF Complete, Declared, IsFile
  <2>7. OnDisk'
    BY <2>2, <2>3 DEF BundleInv, OnDisk
  <2>8. Extracted(Len(archive))'
    <3>1. PICK n \in Nat : n = Len(archive)
      BY <1>0
    <3>2. Extracted(n)
      BY <1>0, <2>4, <3>1 DEF BundleInv, Between
    <3>3. \A q : IsFile(q) => IsFile(q)'
      BY <2>2 DEF IsFile
    <3>4. Extracted(n)'
      BY <2>2, <3>2, <3>3, ExtractedKeeps
    <3> QED BY <2>2, <3>1, <3>4
  <2> QED BY <2>3, <2>5, <2>6, <2>7, <2>8 DEF BundleInv, Fresh, Underway, Between, Writing, Finished
<1> QED BY <1>1, <1>2

\* What an upload has on disk never exceeds the limits, for any archive: a rejected one
\* leaves nothing, an accepted one all that its manifest declares and, for every file of
\* the archive, the whole last entry for it.
THEOREM ExtractionCorrect == BundleSpec => []ExtractionIsSafe
<1>1. BundleInv /\ [BundleNext]_bundleVars => BundleInv'
  <2> SUFFICES ASSUME BundleInv, [BundleNext]_bundleVars PROVE BundleInv'
    OBVIOUS
  <2>1. CASE Corrupt
    <3>1. bundle \in Works
      BY <2>1 DEF BundleInv, OnDisk, Corrupt
    <3> QED BY <2>1, <3>1, RejectKeeps DEF Corrupt
  <2>2. CASE UNCHANGED bundleVars
    <3>1. \A q, n : LastFor(q, n)' <=> LastFor(q, n)
      BY <2>2 DEF bundleVars, LastFor, FileEntry
    <3>2. \A q : IsFile(q)' <=> IsFile(q)
      BY <2>2 DEF bundleVars, IsFile
    <3>5. \A n : Extracted(n)' <=> Extracted(n)
      BY <2>2, <3>2 DEF bundleVars, Extracted, PathAt
    <3>3. (OnDisk /\ Fresh /\ Underway)'
      BY <2>2 DEF bundleVars, BundleInv, OnDisk, Fresh, Underway, PathAt
    <3>4. (Between /\ Writing /\ Finished)'
      BY <2>2, <3>1, <3>2, <3>5 DEF bundleVars, BundleInv, Between, Writing, Finished, PathAt, Entry
    <3> QED BY <3>3, <3>4 DEF BundleInv
  <2> QED BY <2>1, <2>2, ValidateKeeps, SkipDirectoryKeeps, OpenKeeps, ExtractKeeps, EndEntryKeeps,
             CheckKeeps DEF BundleNext
<1>2. BundleInv => ExtractionIsSafe
  <2> SUFFICES ASSUME BundleInv PROVE ExtractionIsSafe
    OBVIOUS
  <2>1. DOMAIN archive = 1..Len(archive)
    BY DEF BundleInv, OnDisk
  <2>2. \A p \in Paths : disk[p].bytes <= MaxEntry
    BY DEF BundleInv, OnDisk
  <2>3. FoldFunction(LAMBDA d, n : n + d.bytes, 0, disk) <= MaxTotal
    BY DEF BundleInv, OnDisk, Bytes
  <2>4. bundle.pc = "rejected" => disk = Nothing
    BY DEF BundleInv, Fresh
  <2>5. bundle.pc = "accepted" =>
          /\ \A p \in {Yaml} \cup Declared(bundle.manifest) : IsFile(p)
          /\ \A i \in DOMAIN archive : ~archive[i].dir => IsFile(Normal[archive[i].name])
          /\ \A p \in Paths : IsFile(p) =>
               \E i \in DOMAIN archive :
                  /\ FileEntry(i, p) /\ archive[i].bytes = disk[p].bytes
                  /\ \A j \in i+1 .. Len(archive) : ~FileEntry(j, p)
    BY <2>1 DEF BundleInv, Finished, LastFor, Extracted, PathAt
  <2> QED BY <2>2, <2>3, <2>4, <2>5 DEF ExtractionIsSafe
<1> QED BY <1>1, <1>2, BundleStarts, PTL DEF BundleSpec

----------------------------------------------------------------------------
(* The dashboards' figures.                                                    *)

\* Interpolated between two values of a list in hundredths of a step, a percentile
\* lies between them.
LEMMA Interpolation ==
    ASSUME NEW a \in Nat, NEW b \in Nat, a <= b, NEW r \in 0..99
    PROVE  /\ r * (b - a) \in Nat /\ 100 * a + r * (b - a) <= 100 * b
           /\ r = 0 => r * (b - a) = 0
<1>1. PICK d \in Nat : d = b - a
  OBVIOUS
<1>2. r * d \in Nat /\ r * d <= 100 * d
  OBVIOUS
<1>3. r = 0 => r * d = 0
  OBVIOUS
<1>4. 100 * b = 100 * a + 100 * d
  BY <1>1
<1> QED BY <1>1, <1>2, <1>3, <1>4

\* calculate_percentile is right for a sorted list of any length and any percentile:
\* no more values lie below its result than the rank rounded up, and no more above it
\* than are left.
THEOREM PercentileCorrect ==
    ASSUME NEW s \in Seq(Nat), s # <<>>,
           \A i, j \in 1..Len(s) : i <= j => s[i] <= s[j],
           NEW p \in 0..100
    PROVE  IsPercentile(Percentile(s, p), s, p)
<1>1. PICK n \in Nat : n = Len(s) /\ n >= 1 /\ DOMAIN s = 1..n
  OBVIOUS
<1>2. PICK k \in Nat : k = (n - 1) * p /\ k <= 100 * (n - 1)
  <2>1. PICK m \in Nat : m = n - 1
    BY <1>1
  <2>2. m * p \in Nat /\ m * p <= 100 * m
    OBVIOUS
  <2> QED BY <2>1, <2>2
<1>3. PICK f \in Nat, r \in 0..99 : k = 100 * f + r /\ f = k \div 100 /\ r = k % 100
  <2>1. k \div 100 \in Nat /\ k % 100 \in 0..99
    OBVIOUS
  <2>2. k = 100 * (k \div 100) + (k % 100)
    OBVIOUS
  <2> QED BY <2>1, <2>2
<1>4. (k + 99) \div 100 = IF r = 0 THEN f ELSE f + 1
  BY <1>3
<1>5. f <= n - 1 /\ (f + 1 < n \/ (f = n - 1 /\ r = 0))
  BY <1>1, <1>2, <1>3
<1>6. \A i \in 1..n : s[i] \in Nat
  BY <1>1
<1>7. PICK x \in Nat : /\ x = Percentile(s, p)
                       /\ 100 * s[f + 1] <= x
                       /\ f + 1 < n => x <= 100 * s[f + 2]
                       /\ r = 0 => x = 100 * s[f + 1]
  <2>1. CASE f + 1 < n
    <3>1. Percentile(s, p) = 100 * s[f + 1] + r * (s[f + 2] - s[f + 1])
      BY <1>1, <1>2, <1>3, <2>1 DEF Percentile
    <3>2. s[f + 1] \in Nat /\ s[f + 2] \in Nat /\ s[f + 1] <= s[f + 2]
      BY <1>1, <1>6, <2>1
    <3>3. PICK t : t = r * (s[f + 2] - s[f + 1])
      OBVIOUS
    <3>4. t \in Nat /\ 100 * s[f + 1] + t <= 100 * s[f + 2] /\ (r = 0 => t = 0)
      BY <3>2, <3>3, Interpolation
    <3>5. Percentile(s, p) = 100 * s[f + 1] + t
      BY <3>1, <3>3, Zenon
    <3>6. /\ 100 * s[f + 1] + t \in Nat /\ 100 * s[f + 1] <= 100 * s[f + 1] + t
          /\ r = 0 => 100 * s[f + 1] + t = 100 * s[f + 1]
      BY <3>2, <3>4
    <3> QED BY <3>4, <3>5, <3>6, Zenon
  <2>2. CASE ~(f + 1 < n)
    <3>1. Percentile(s, p) = 100 * s[f + 1]
      BY <1>1, <1>2, <1>3, <2>2 DEF Percentile
    <3>2. s[f + 1] \in Nat
      BY <1>1, <1>5, <1>6
    <3> QED BY <2>2, <3>1, <3>2
  <2> QED BY <2>1, <2>2
<1>8. Cardinality({i \in DOMAIN s : 100 * s[i] < x}) <= (k + 99) \div 100
  <2>1. PICK c \in Nat : c = IF r = 0 THEN f ELSE f + 1
    OBVIOUS
  <2>2. {i \in DOMAIN s : 100 * s[i] < x} \subseteq 1..c
    <3> SUFFICES ASSUME NEW i \in 1..n, 100 * s[i] < x, i > c PROVE FALSE
      BY <1>1, <2>1
    <3>1. CASE r = 0
      <4>1. f + 1 <= i /\ s[f + 1] <= s[i] /\ s[f + 1] \in Nat /\ s[i] \in Nat
        BY <1>1, <1>5, <1>6, <2>1, <3>1
      <4> QED BY <1>7, <3>1, <4>1
    <3>2. CASE r # 0
      <4>1. f + 1 < n /\ f + 2 <= i
        BY <1>5, <2>1, <3>2
      <4>2. s[f + 2] <= s[i] /\ s[f + 2] \in Nat /\ s[i] \in Nat
        BY <1>1, <1>6, <4>1
      <4> QED BY <1>7, <4>1, <4>2
    <3> QED BY <3>1, <3>2
  <2>3. IsFiniteSet(1..c) /\ Cardinality(1..c) = c
    BY FS_Interval
  <2>4. Cardinality({i \in DOMAIN s : 100 * s[i] < x}) <= c
    BY <2>2, <2>3, FS_Subset
  <2> QED BY <1>4, <2>1, <2>4
<1>9. Cardinality({i \in DOMAIN s : 100 * s[i] > x}) <= n - 1 - f
  <2>1. {i \in DOMAIN s : 100 * s[i] > x} \subseteq (f + 2)..n
    <3> SUFFICES ASSUME NEW i \in 1..n, 100 * s[i] > x, i < f + 2 PROVE FALSE
      BY <1>1
    <3>1. s[i] <= s[f + 1] /\ s[i] \in Nat /\ s[f + 1] \in Nat
      BY <1>1, <1>5, <1>6
    <3> QED BY <1>7, <3>1
  <2>2. IsFiniteSet((f + 2)..n) /\ Cardinality((f + 2)..n) = n - 1 - f
    BY <1>5, FS_Interval
  <2> QED BY <2>1, <2>2, FS_Subset
<1>10. (Len(s) - 1) * p = k
  BY <1>1, <1>2
<1>11. Cardinality({i \in DOMAIN s : 100 * s[i] > x}) <= Len(s) - 1 - k \div 100
  BY <1>1, <1>3, <1>9
<1>12. Percentile(s, p) = x
  BY <1>7
<1> QED BY <1>8, <1>10, <1>11, <1>12, Zenon DEF IsPercentile

----------------------------------------------------------------------------
(* The dashboards' lists. Arranged puts the values of a finite set of indices  *)
(* in a strict order: the rank of an index is the number of those before it.   *)

IsStrictOrder(R, S) ==
    /\ \A i \in S : <<i, i>> \notin R
    /\ \A i, j, k \in S : <<i, j>> \in R /\ <<j, k>> \in R => <<i, k>> \in R
    /\ \A i, j \in S : i = j \/ <<i, j>> \in R \/ <<j, i>> \in R

Rank(i, R, S) == Cardinality({j \in S : <<j, i>> \in R})

LEMMA RanksGrow ==
    ASSUME NEW S, IsFiniteSet(S), NEW R, IsStrictOrder(R, S),
           NEW i \in S, NEW j \in S, <<i, j>> \in R
    PROVE  /\ Rank(i, R, S) \in Nat /\ Rank(j, R, S) \in Nat
           /\ Rank(i, R, S) < Rank(j, R, S)
<1>1. PICK A, B : A = {k \in S : <<k, i>> \in R} /\ B = {k \in S : <<k, j>> \in R}
  OBVIOUS
<1>2. A \subseteq B /\ B \subseteq S /\ i \in B /\ i \notin A
  BY <1>1 DEF IsStrictOrder
<1>3. IsFiniteSet(A) /\ IsFiniteSet(B)
  BY <1>2, FS_Subset
<1>4. Cardinality(A) <= Cardinality(B) /\ Cardinality(A) # Cardinality(B)
  BY <1>2, <1>3, FS_Subset
<1>5. Cardinality(A) \in Nat /\ Cardinality(B) \in Nat
  BY <1>3, FS_CardinalityType
<1> QED BY <1>1, <1>4, <1>5 DEF Rank

\* Of the elements of a finite set there is one of every rank.
LEMMA RanksAreTaken ==
    ASSUME NEW S, IsFiniteSet(S), NEW R, IsStrictOrder(R, S), NEW k \in 1..Cardinality(S)
    PROVE  \E i \in S : Rank(i, R, S) = k - 1
<1>1. PICK n \in Nat : n = Cardinality(S)
  BY FS_CardinalityType
<1>2. PICK rank : rank = [i \in S |-> Rank(i, R, S)]
  OBVIOUS
<1>3. \A i \in S : rank[i] \in 0..(n - 1)
  <2> SUFFICES ASSUME NEW i \in S PROVE rank[i] \in 0..(n - 1)
    OBVIOUS
  <2>1. PICK A : A = {j \in S : <<j, i>> \in R}
    OBVIOUS
  <2>2. A \subseteq S /\ A # S
    BY <2>1 DEF IsStrictOrder
  <2>3. IsFiniteSet(A) /\ Cardinality(A) <= n /\ Cardinality(A) # n
    BY <1>1, <2>2, FS_Subset
  <2>4. Cardinality(A) \in Nat
    BY <2>3, FS_CardinalityType
  <2>5. rank[i] = Cardinality(A)
    BY <1>2, <2>1 DEF Rank
  <2> QED BY <1>1, <2>3, <2>4, <2>5
<1>4. ASSUME NEW i \in S, NEW j \in S, i # j PROVE rank[i] # rank[j]
  <2>1. <<i, j>> \in R \/ <<j, i>> \in R
    BY <1>4 DEF IsStrictOrder
  <2>2. rank[i] = Rank(i, R, S) /\ rank[j] = Rank(j, R, S)
    BY <1>2
  <2>3. CASE <<i, j>> \in R
    BY <2>2, <2>3, RanksGrow
  <2>4. CASE <<j, i>> \in R
    BY <2>2, <2>4, RanksGrow
  <2> QED BY <2>1, <2>3, <2>4
<1>5. rank \in Injection(S, 0..(n - 1))
  BY <1>2, <1>3, <1>4 DEF Injection, IsInjective
<1>6. IsFiniteSet(0..(n - 1)) /\ Cardinality(0..(n - 1)) = n
  <2>1. PICK m \in Int : m = n - 1 /\ (0 > m <=> n = 0)
    OBVIOUS
  <2>2. IsFiniteSet(0..m) /\ Cardinality(0..m) = IF 0 > m THEN 0 ELSE m - 0 + 1
    BY FS_Interval
  <2> QED BY <2>1, <2>2
<1>7. rank \in Surjection(S, 0..(n - 1))
  BY <1>1, <1>5, <1>6, FS_Injection
<1>8. k - 1 \in 0..(n - 1)
  BY <1>1
<1>9. PICK i \in S : rank[i] = k - 1
  BY <1>7, <1>8 DEF Surjection
<1> QED BY <1>2, <1>9

\* at[k] is the k-th element of S.
Enumerates(at, n, S, R) ==
    /\ at \in [1..n -> S]
    /\ \A k \in 1..n : Rank(at[k], R, S) = k - 1
    /\ \A k, l \in 1..n : k < l => <<at[k], at[l]>> \in R

\* A list arranged: of each rank the value at the index of that rank
LEMMA ArrangedByRank ==
    ASSUME NEW S, IsFiniteSet(S), NEW n \in Nat, Cardinality(S) = n,
           NEW R, IsStrictOrder(R, S), NEW values
    PROVE  \E at : /\ Enumerates(at, n, S, R)
                   /\ Arranged(values, S, R) = [k \in 1..n |-> values[at[k]]]
<1>1. PICK at : at = [k \in 1..n |-> CHOOSE i \in S : Rank(i, R, S) = k - 1]
  OBVIOUS
<1>2. \A k \in 1..n : at[k] \in S /\ Rank(at[k], R, S) = k - 1
  BY <1>1, RanksAreTaken
<1>3. Arranged(values, S, R) = [k \in 1..n |-> values[at[k]]]
  BY <1>1 DEF Arranged, Rank
<1>4. ASSUME NEW k \in 1..n, NEW l \in 1..n, k < l
      PROVE  <<at[k], at[l]>> \in R
  <2>1. k \in Nat /\ l \in Nat
    OBVIOUS
  <2>2. at[k] # at[l]
    BY <1>2, <1>4, <2>1
  <2>3. ~(<<at[l], at[k]>> \in R)
    <3> SUFFICES ASSUME <<at[l], at[k]>> \in R PROVE FALSE
      OBVIOUS
    <3>1. Rank(at[l], R, S) < Rank(at[k], R, S)
      BY <1>2, RanksGrow
    <3> QED BY <1>2, <1>4, <2>1, <3>1
  <2> QED BY <1>2, <2>2, <2>3 DEF IsStrictOrder
<1>5. at \in [1..n -> S]
  BY <1>1, <1>2
<1>6. Enumerates(at, n, S, R)
  BY <1>2, <1>4, <1>5 DEF Enumerates
<1> QED BY <1>3, <1>6

\* A function on 1..n is a list of length n.
LEMMA ListOf ==
    ASSUME NEW n \in Nat, NEW T, NEW f, f \in [1..n -> T]
    PROVE  f \in Seq(T) /\ Len(f) = n /\ DOMAIN f = 1..n
OBVIOUS

IndexOrder(S) == {ij \in S \X S : ij[1] < ij[2]}

LEMMA IndicesAreOrdered ==
    ASSUME NEW n \in Nat, NEW S, S \subseteq 1..n
    PROVE  /\ IsFiniteSet(S) /\ Cardinality(S) \in Nat /\ Cardinality(S) <= n
           /\ IsStrictOrder(IndexOrder(S), S)
<1>1. IsFiniteSet(1..n) /\ Cardinality(1..n) = n
  BY FS_Interval
<1>2. IsFiniteSet(S) /\ Cardinality(S) <= n
  BY <1>1, FS_Subset
<1>3. Cardinality(S) \in Nat
  BY <1>2, FS_CardinalityType
<1>4. \A i \in S : i \in Int
  OBVIOUS
<1>5. \A i, j \in S : <<i, j>> \in IndexOrder(S) <=> i < j
  BY DEF IndexOrder
<1>6. IsStrictOrder(IndexOrder(S), S)
  BY <1>4, <1>5 DEF IsStrictOrder
<1> QED BY <1>2, <1>3, <1>6

\* What is kept of a list is a list of its values, and no longer; of the whole list
\* it is the list.
LEMMA KeptIsAList ==
    ASSUME NEW n \in Nat, NEW T, NEW values, DOMAIN values = 1..n,
           NEW S, S \subseteq 1..n, \A i \in S : values[i] \in T
    PROVE  /\ Kept(values, S) \in Seq(T) /\ Len(Kept(values, S)) <= n
           /\ DOMAIN Kept(values, S) = 1..Len(Kept(values, S))
<1>1. PICK m \in Nat : m = Cardinality(S) /\ m <= n
  BY IndicesAreOrdered
<1>2. PICK at : /\ Enumerates(at, m, S, IndexOrder(S))
                /\ Kept(values, S) = [k \in 1..m |-> values[at[k]]]
  <2>1. Kept(values, S) = Arranged(values, S, IndexOrder(S))
    BY DEF Kept, IndexOrder
  <2>2. IsFiniteSet(S) /\ IsStrictOrder(IndexOrder(S), S)
    BY IndicesAreOrdered
  <2> QED BY <1>1, <2>1, <2>2, ArrangedByRank
<1>3. Kept(values, S) \in [1..m -> T]
  BY <1>2 DEF Enumerates
<1> QED BY <1>1, <1>3, ListOf

LEMMA KeptWhole ==
    ASSUME NEW n \in Nat, NEW T, NEW values, values \in [1..n -> T]
    PROVE  Kept(values, 1..n) = values
<1>1. PICK S : S = 1..n
  OBVIOUS
<1>2. IsFiniteSet(S) /\ Cardinality(S) = n
  BY <1>1, FS_Interval
<1>3. IsStrictOrder(IndexOrder(S), S)
  BY <1>1, IndicesAreOrdered
<1>4. PICK at : /\ Enumerates(at, n, S, IndexOrder(S))
                /\ Kept(values, S) = [k \in 1..n |-> values[at[k]]]
  <2>1. Kept(values, S) = Arranged(values, S, IndexOrder(S))
    BY DEF Kept, IndexOrder
  <2> QED BY <1>2, <1>3, <2>1, ArrangedByRank
<1>5. ASSUME NEW k \in 1..n PROVE at[k] = k
  <2>1. PICK i \in 1..n : i = at[k] /\ Rank(i, IndexOrder(S), S) = k - 1
    BY <1>1, <1>4 DEF Enumerates
  <2>2. {j \in S : <<j, i>> \in IndexOrder(S)} = 1..(i - 1)
    <3>1. \A j \in S : <<j, i>> \in IndexOrder(S) <=> j < i
      BY <1>1 DEF IndexOrder
    <3>2. \A j \in Int : j \in 1..(i - 1) <=> j \in 1..n /\ j < i
      OBVIOUS
    <3> QED BY <1>1, <3>1, <3>2
  <2>3. Cardinality(1..(i - 1)) = i - 1
    <3>1. PICK m \in Nat : m = i - 1
      OBVIOUS
    <3>2. Cardinality(1..m) = m
      BY FS_Interval
    <3> QED BY <3>1, <3>2
  <2>4. i - 1 = k - 1
    BY <2>1, <2>2, <2>3 DEF Rank
  <2> QED BY <2>1, <2>4
<1> QED BY <1>1, <1>4, <1>5

SizeOrder(values) ==
    {ij \in (DOMAIN values) \X (DOMAIN values) :
        \/ values[ij[1]] < values[ij[2]]
        \/ values[ij[1]] = values[ij[2]] /\ ij[1] < ij[2]}

\* Sorting gives a list of the same length, in ascending order.
LEMMA SortedIsSorted ==
    ASSUME NEW s \in Seq(Nat)
    PROVE  /\ Sorted(s) \in Seq(Nat) /\ Len(Sorted(s)) = Len(s)
           /\ \A i, j \in 1..Len(Sorted(s)) : i <= j => Sorted(s)[i] <= Sorted(s)[j]
<1>1. PICK n \in Nat : n = Len(s) /\ DOMAIN s = 1..n /\ \A i \in 1..n : s[i] \in Nat
  OBVIOUS
<1>2. PICK S : S = DOMAIN s /\ S = 1..n
  BY <1>1
<1>3. IsFiniteSet(S) /\ Cardinality(S) = n
  <2>1. IsFiniteSet(1..n) /\ Cardinality(1..n) = n
    BY FS_Interval
  <2>2. S = 1..n
    BY <1>2
  <2> QED BY <2>1, <2>2
<1>4. PICK R : R = SizeOrder(s)
  OBVIOUS
<1>5. \A i, j \in S : <<i, j>> \in R <=> s[i] < s[j] \/ (s[i] = s[j] /\ i < j)
  <2>1. S = DOMAIN s
    BY <1>2
  <2> QED BY <1>4, <2>1 DEF SizeOrder
<1>6. IsStrictOrder(R, S)
  <2>1. \A i \in S : i \in Int /\ s[i] \in Int
    BY <1>1, <1>2
  <2>2. ASSUME NEW i \in S PROVE <<i, i>> \notin R
    BY <1>5, <2>1
  <2>3. ASSUME NEW i \in S, NEW j \in S, NEW k \in S, <<i, j>> \in R, <<j, k>> \in R
        PROVE  <<i, k>> \in R
    <3>1. s[i] < s[j] \/ (s[i] = s[j] /\ i < j)
      BY <1>5, <2>3
    <3>2. s[j] < s[k] \/ (s[j] = s[k] /\ j < k)
      BY <1>5, <2>3
    <3>3. s[i] < s[k] \/ (s[i] = s[k] /\ i < k)
      BY <2>1, <3>1, <3>2
    <3>4. <<i, k>> \in R <=> s[i] < s[k] \/ (s[i] = s[k] /\ i < k)
      BY <1>5
    <3> QED BY <3>3, <3>4
  <2>4. ASSUME NEW i \in S, NEW j \in S PROVE i = j \/ <<i, j>> \in R \/ <<j, i>> \in R
    <3>1. i \in Int /\ j \in Int /\ s[i] \in Int /\ s[j] \in Int
      BY <2>1
    <3>2. i = j \/ (s[i] < s[j] \/ (s[i] = s[j] /\ i < j))
                \/ (s[j] < s[i] \/ (s[j] = s[i] /\ j < i))
      BY <3>1
    <3>3. CASE i = j
      BY <3>3
    <3>4. CASE s[i] < s[j] \/ (s[i] = s[j] /\ i < j)
      BY <1>5, <3>4
    <3>5. CASE s[j] < s[i] \/ (s[j] = s[i] /\ j < i)
      BY <1>5, <3>5
    <3> QED BY <3>2, <3>3, <3>4, <3>5
  <2> QED BY <2>2, <2>3, <2>4 DEF IsStrictOrder
<1>7. Sorted(s) = Arranged(s, S, R)
  BY <1>2, <1>4 DEF Sorted, SizeOrder
<1>8. PICK at : /\ Enumerates(at, n, S, R)
                /\ Arranged(s, S, R) = [k \in 1..n |-> s[at[k]]]
  BY <1>3, <1>6, ArrangedByRank
<1>9. PICK t : t = Sorted(s)
  OBVIOUS
<1>10. t = [k \in 1..n |-> s[at[k]]]
  BY <1>7, <1>8, <1>9
<1>11. t \in [1..n -> Nat]
  BY <1>1, <1>2, <1>8, <1>10 DEF Enumerates
<1>12. t \in Seq(Nat) /\ Len(t) = n
  BY <1>11, ListOf
<1>13. ASSUME NEW i \in 1..n, NEW j \in 1..n, i <= j PROVE t[i] <= t[j]
  <2>1. t[i] \in Nat /\ t[j] \in Nat
    BY <1>11
  <2>2. CASE i = j
    BY <2>1, <2>2
  <2>3. CASE i < j
    <3>1. <<at[i], at[j]>> \in R /\ at[i] \in S /\ at[j] \in S
      BY <1>8, <2>3 DEF Enumerates
    <3>2. PICK k \in S, l \in S : k = at[i] /\ l = at[j] /\ <<k, l>> \in R
      BY <3>1
    <3>3. s[k] \in Nat /\ s[l] \in Nat
      BY <1>1, <1>2
    <3>4. s[k] < s[l] \/ (s[k] = s[l] /\ k < l)
      BY <1>5, <3>2
    <3>5. s[k] <= s[l]
      BY <3>3, <3>4
    <3> QED BY <1>10, <3>2, <3>5
  <2> QED BY <1>13, <2>2, <2>3
<1> QED BY <1>1, <1>9, <1>12, <1>13

Cells == Nat \cup {Null}

\* The columns of the rows
LEMMA FieldIsAList ==
    ASSUME NEW n \in Nat, NEW rows, DOMAIN rows = 1..n, NEW f,
           \A i \in 1..n : rows[i][f] \in Cells
    PROVE  /\ Field(rows, f) \in [1..n -> Cells]
           /\ Present(Field(rows, f)) \in Seq(Nat) /\ Len(Present(Field(rows, f))) <= n
<1>1. PICK c : c = Field(rows, f)
  OBVIOUS
<1>2. c \in [1..n -> Cells]
  BY <1>1 DEF Field
<1>3. PICK S : S = {i \in DOMAIN c : c[i] # Null}
  OBVIOUS
<1>4. S \subseteq 1..n /\ \A i \in S : c[i] \in Nat
  BY <1>2, <1>3 DEF Cells
<1>5. Kept(c, S) \in Seq(Nat) /\ Len(Kept(c, S)) <= n
  BY <1>2, <1>4, KeptIsAList
<1>6. Present(c) = Kept(c, S)
  BY <1>3 DEF Present
<1> QED BY <1>1, <1>2, <1>5, <1>6

LEMMA SampleOfFew ==
    ASSUME NEW s \in Seq(Nat), Len(s) <= SampleSize
    PROVE  Sample(s) = s
BY DEF Sample

TheLogs == logs \in Seq(LogKinds)

\* Of rows of today's gateway the two ways take the same latencies ...
LEMMA SameLatencies ==
    ASSUME TheLogs, Len(logs) <= SampleSize,
           \A i \in DOMAIN logs : logs[i].gateway # Null
    PROVE  LET new == Present(Field(logs, "gateway")) IN
           /\ new = [i \in DOMAIN logs |->
                       IF logs[i].gateway \notin {Null, 0} THEN logs[i].gateway
                       ELSE IF logs[i].latency # Null THEN logs[i].latency ELSE 0]
           /\ (IF new # <<>> THEN Sample(new)
               ELSE Sample(Present(Field(logs, "latency")))) = new
<1>1. PICK n \in Nat : n = Len(logs) /\ DOMAIN logs = 1..n /\ n <= SampleSize
  BY DEF TheLogs
<1>2. \A i \in 1..n : /\ logs[i].gateway \in Nat /\ logs[i].latency = logs[i].gateway
                      /\ logs[i].gateway # Null
  BY <1>1, LogAssumption DEF TheLogs
<1>3. PICK c : c = [i \in 1..n |-> logs[i].gateway]
  OBVIOUS
<1>4. c \in [1..n -> Nat] /\ c \in Seq(Nat) /\ Len(c) = n
  BY <1>2, <1>3, ListOf
<1>5. Field(logs, "gateway") = c /\ Field(logs, "latency") = c
  BY <1>1, <1>2, <1>3 DEF Field
<1>6. Present(c) = c
  <2>1. {i \in DOMAIN c : c[i] # Null} = 1..n
    BY <1>2, <1>3
  <2> QED BY <1>4, <2>1, KeptWhole DEF Present
<1>7. c = [i \in DOMAIN logs |->
             IF logs[i].gateway \notin {Null, 0} THEN logs[i].gateway
             ELSE IF logs[i].latency # Null THEN logs[i].latency ELSE 0]
  <2>1. \A i \in 1..n :
          logs[i].gateway = IF logs[i].gateway \notin {Null, 0} THEN logs[i].gateway
                            ELSE IF logs[i].latency # Null THEN logs[i].latency ELSE 0
    BY <1>2
  <2> QED BY <1>1, <1>3, <2>1
<1>8. Sample(c) = c
  BY <1>1, <1>4, SampleOfFew
<1> QED BY <1>5, <1>6, <1>7, <1>8

\* ... and the same computing times.
LEMMA ComputeIsSmall ==
    ASSUME TheLogs, Len(logs) <= SampleSize
    PROVE  LET compute == Present(Field(Misses(logs), "compute")) IN Sample(compute) = compute
<1>1. PICK n \in Nat : n = Len(logs) /\ DOMAIN logs = 1..n /\ n <= SampleSize
  BY DEF TheLogs
<1>2. PICK rows : rows = Misses(logs)
  OBVIOUS
<1>3. rows \in Seq(LogKinds) /\ Len(rows) <= n /\ DOMAIN rows = 1..Len(rows)
  <2>1. PICK S : S = {i \in DOMAIN logs : ~logs[i].hit}
    OBVIOUS
  <2>2. S \subseteq 1..n /\ \A i \in S : logs[i] \in LogKinds
    BY <1>1, <2>1 DEF TheLogs
  <2>3. rows = Kept(logs, S)
    BY <1>2, <2>1 DEF Misses
  <2>4. /\ Kept(logs, S) \in Seq(LogKinds) /\ Len(Kept(logs, S)) <= n
        /\ DOMAIN Kept(logs, S) = 1..Len(Kept(logs, S))
    <3>1. PICK l : l = logs
      OBVIOUS
    <3>2. DOMAIN l = 1..n /\ \A i \in S : l[i] \in LogKinds
      BY <1>1, <2>2, <3>1
    <3>3. Kept(l, S) \in Seq(LogKinds) /\ Len(Kept(l, S)) <= n
      BY <2>2, <3>2, KeptIsAList
    <3>4. DOMAIN Kept(l, S) = 1..Len(Kept(l, S))
      BY <3>3
    <3> QED BY <3>1, <3>3, <3>4
  <2> QED BY <2>3, <2>4
<1>4. PICK m \in Nat : m = Len(rows) /\ m <= n
  BY <1>3, LenProperties
<1>5. \A i \in 1..m : rows[i].compute \in Cells
  BY <1>3, <1>4, LogAssumption DEF Cells
<1>6. Present(Field(rows, "compute")) \in Seq(Nat) /\ Len(Present(Field(rows, "compute"))) <= m
  BY <1>3, <1>4, <1>5, FieldIsAList
<1>7. Len(Present(Field(rows, "compute"))) <= SampleSize
  BY <1>1, <1>4, <1>6, LogAssumption
<1> QED BY <1>2, <1>6, <1>7, SampleOfFew

LEMMA EveryRowCounts ==
    ASSUME TheLogs
    PROVE  Count(logs, "status", "SUCCESS") + Count(logs, "status", "ERROR") = Len(logs)
<1>1. PICK n \in Nat : n = Len(logs) /\ DOMAIN logs = 1..n
  BY DEF TheLogs
<1>2. PICK A, B : /\ A = {i \in DOMAIN logs : logs[i]["status"] = "SUCCESS"}
                  /\ B = {i \in DOMAIN logs : logs[i]["status"] = "ERROR"}
  OBVIOUS
<1>3. \A i \in 1..n : logs[i]["status"] \in {"SUCCESS", "ERROR"}
  BY <1>1, LogAssumption DEF TheLogs
<1>4. A \cup B = 1..n /\ A \cap B = {}
  BY <1>1, <1>2, <1>3
<1>5. IsFiniteSet(1..n) /\ Cardinality(1..n) = n
  BY FS_Interval
<1>6. A \subseteq 1..n /\ B \subseteq 1..n
  BY <1>1, <1>2
<1>7. IsFiniteSet(A) /\ IsFiniteSet(B)
  BY <1>5, <1>6, FS_Subset
<1>8. Cardinality(A) \in Nat /\ Cardinality(B) \in Nat
  BY <1>7, FS_CardinalityType
<1>9. Cardinality(A \cup B) = Cardinality(A) + Cardinality(B) - Cardinality(A \cap B)
  BY <1>7, FS_Union
<1>10. Cardinality(A \cap B) = 0
  BY <1>4, FS_EmptySet
<1>11. Cardinality(A \cup B) = n
  BY <1>4, <1>5
<1>12. Cardinality(A) + Cardinality(B) = n
  BY <1>8, <1>9, <1>10, <1>11
<1> QED BY <1>1, <1>2, <1>12 DEF Count

\* The dashboards' figures are right for every list of logs: every row is a success
\* or an error, a percentile of a sorted column is one, and the query and the list
\* agree on rows of today's gateway that fit the sample.
THEOREM MetricsCorrect == MetricsSpec => []MetricsAreSound
<1>1. MetricsInit => TheLogs
  BY DEF MetricsInit, TheLogs
<1>2. TheLogs /\ [MetricsNext]_logs => TheLogs'
  <2> SUFFICES ASSUME TheLogs, [MetricsNext]_logs PROVE TheLogs'
    OBVIOUS
  <2>1. ASSUME NEW row \in LogKinds, logs' = <<row>> \o logs PROVE TheLogs'
    <3>1. <<row>> \in Seq(LogKinds)
      OBVIOUS
    <3> QED BY <2>1, <3>1, ConcatProperties DEF TheLogs
  <2> QED BY <2>1 DEF TheLogs, MetricsNext, WriteLog
<1>3. TheLogs => MetricsAreSound
  <2> SUFFICES ASSUME TheLogs PROVE MetricsAreSound
    OBVIOUS
  <2>1. OfQuery(logs).successes + OfQuery(logs).errors = OfQuery(logs).total
    BY EveryRowCounts DEF OfQuery, Figures
  <2>2. ASSUME NEW f \in {"gateway", "compute"}, NEW p \in {50, 95},
               Sorted(Present(Field(logs, f))) # <<>>
        PROVE  IsPercentile(Percentile(Sorted(Present(Field(logs, f))), p),
                            Sorted(Present(Field(logs, f))), p)
    <3>1. PICK n \in Nat : n = Len(logs) /\ DOMAIN logs = 1..n
      BY DEF TheLogs
    <3>2. \A i \in 1..n : logs[i][f] \in Cells
      BY <3>1, LogAssumption DEF TheLogs, Cells
    <3>3. Present(Field(logs, f)) \in Seq(Nat)
      BY <3>1, <3>2, FieldIsAList
    <3>4. PICK s : s = Sorted(Present(Field(logs, f)))
      OBVIOUS
    <3>5. s \in Seq(Nat) /\ \A i, j \in 1..Len(s) : i <= j => s[i] <= s[j]
      BY <3>3, <3>4, SortedIsSorted
    <3>6. p \in 0..100 /\ s # <<>>
      BY <2>2, <3>4
    <3>7. IsPercentile(Percentile(s, p), s, p)
      BY <3>5, <3>6, PercentileCorrect, Zenon
    <3> QED BY <3>4, <3>7
  <2>3. ASSUME Len(logs) <= SampleSize, \A i \in DOMAIN logs : logs[i].gateway # Null
        PROVE  OfQuery(logs) = OfList(logs)
    <3>1. PICK new : new = Present(Field(logs, "gateway"))
      OBVIOUS
    <3>2. PICK compute : compute = Present(Field(Misses(logs), "compute"))
      OBVIOUS
    <3>3. OfQuery(logs) = Figures(logs, new, Mean(new), compute, Mean(compute))
      <4>1. (IF new # <<>> THEN Sample(new)
             ELSE Sample(Present(Field(logs, "latency")))) = new
        BY <2>3, <3>1, SameLatencies
      <4>2. Sample(compute) = compute
        BY <2>3, <3>2, ComputeIsSmall
      <4> QED BY <3>1, <3>2, <4>1, <4>2 DEF OfQuery
    <3>4. OfList(logs) = Figures(logs, new, Mean(new), compute, Mean(compute))
      BY <2>3, <3>1, <3>2, SameLatencies DEF OfList
    <3> QED BY <3>3, <3>4
  <2> QED BY <2>1, <2>2, <2>3 DEF MetricsAreSound
<1> QED BY <1>1, <1>2, <1>3, PTL DEF MetricsSpec
=============================================================================
