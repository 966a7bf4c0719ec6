------------------------------- MODULE Billing -------------------------------
(***************************************************************************)
(* The monetised inference gateway (UniversalInferenceAPIView): a request  *)
(* reserves the price, looks in the prediction cache, calls the runner,    *)
(* and gives back all of it after a failure and half of it after a hit.    *)
(*                                                                         *)
(* _debit_credits and _refund_credits are transactions that lock the two   *)
(* wallets one after the other, in primary-key order, and compute with the *)
(* rows they read while locking: each lock is a step here, and the writes, *)
(* the ledger row and the commit are one more.                             *)
(*                                                                         *)
(* Requests that are free (the owner's own, a price of zero, billing off)  *)
(* touch no wallet and are left out.                                       *)
(***************************************************************************)
EXTENDS Accounts, FiniteSets

CONSTANTS
  Reqs,         \* charged requests, each for the one model of its creator
  Pk,           \* primary key of each user's wallet
  MaxDeposits,  \* bound: demo deposits
  MaxFaults,    \* bound: API processes that die in a request
  MaxDeletes,   \* bound: models and deployments deleted
  None

ASSUME PkAssumption ==
  Pk \in [Users -> Nat] /\ \A u, v \in Users : Pk[u] = Pk[v] => u = v
ASSUME BoundsAssumption ==
  MaxDeposits \in Nat /\ MaxFaults \in Nat /\ MaxDeletes \in Nat
ASSUME NoneAssumption == None \notin Wallets /\ None \notin Users

VARIABLES
  step,        \* step[r]: where request r is
  party,       \* party[r]: its consumer (request.user) and creator (model.owner)
  copy,        \* copy[r][u]: the wallet row r has locked and read, or None
  paid,        \* paid[r]: INFERENCE less REFUND rows of r
  model,       \* model[u]: u's model and the deployment row requests are served by
  deposits, faults, deletes

vars == <<wallet, ledger, step, party, copy, paid, model, deposits, faults, deletes>>
counters == <<deposits, faults, deletes>>

InTransaction == {"debit", "discount", "refund"}
Ended == {"refused", "hit", "cold", "failed", "error", "crashed"}
Steps == {"idle", "lookup", "runner", "log_hit", "log_cold"} \cup InTransaction \cup Ended

Parties(r) == {party[r].consumer, party[r].creator}

StepTo(r, s) == step' = [step EXCEPT ![r] = s]
Release(r)   == copy' = [copy EXCEPT ![r] = [u \in Users |-> None]]
HasBoth(r)   == \A u \in Parties(r) : copy[r][u] # None
ModelExists(r) == model[party[r].creator] # "deleted"
Served(r)      == model[party[r].creator] = "deployed"
------------------------------------------------------------------------------
\* Model, permission and deployment are looked up; the request will be charged.
Start(r, c, p) ==
  /\ step[r] = "idle"
  /\ c # p /\ model[p] = "deployed"
  /\ StepTo(r, "debit")
  /\ party' = [party EXCEPT ![r] = [consumer |-> c, creator |-> p]]
  /\ UNCHANGED <<wallet, ledger, copy, paid, model, counters>>

\* Mutant: the wallets are read without FOR UPDATE.
ReadWallet(r, u) ==
  /\ step[r] \in InTransaction
  /\ u \in Parties(r) /\ copy[r][u] = None
  /\ copy' = [copy EXCEPT ![r][u] = wallet[u]]
  /\ UNCHANGED <<wallet, ledger, step, party, paid, model, counters>>

\* Mutant: the consumer's wallet is locked first, then the creator's.
LockConsumerFirst(r, u) ==
  /\ step[r] \in InTransaction
  /\ u \in Parties(r) /\ copy[r][u] = None
  /\ u = party[r].creator => copy[r][party[r].consumer] # None
  /\ \A q \in Reqs : copy[q][u] = None
  /\ copy' = [copy EXCEPT ![r][u] = wallet[u]]
  /\ UNCHANGED <<wallet, ledger, step, party, paid, model, counters>>

\* filter(pk__in=...).select_for_update().order_by("pk") reaches its next row: it
\* waits for the row's lock and returns the row as it is then.
LockWallet(r, u) ==
  /\ step[r] \in InTransaction
  /\ u \in Parties(r) /\ copy[r][u] = None
  /\ \A v \in Parties(r) : copy[r][v] = None => Pk[u] <= Pk[v]
  /\ \A q \in Reqs : copy[q][u] = None
  /\ copy' = [copy EXCEPT ![r][u] = wallet[u]]
  /\ UNCHANGED <<wallet, ledger, step, party, paid, model, counters>>

\* The writes of a transaction that holds both rows, and its commit.
Commit(r, amount) ==
  LET c == party[r].consumer
      p == party[r].creator
  IN  /\ HasBoth(r) /\ ModelExists(r)
      /\ wallet' = [wallet EXCEPT ![c] = Paying(copy[r][c], amount),
                                  ![p] = Earning(copy[r][p], amount)]
      /\ Book(c, p, amount)
      /\ paid' = [paid EXCEPT ![r] = @ + amount]
      /\ Release(r)

\* Mutant: the balance is not looked at.
DebitUnchecked(r) ==
  /\ step[r] = "debit"
  /\ Commit(r, Price)
  /\ StepTo(r, "lookup")
  /\ UNCHANGED <<party, model, counters>>

Debit(r) ==
  /\ step[r] = "debit"
  /\ HasBoth(r) /\ copy[r][party[r].consumer].balance >= Price
  /\ Commit(r, Price)
  /\ StepTo(r, "lookup")
  /\ UNCHANGED <<party, model, counters>>

\* 402: the transaction commits nothing.
DebitRefused(r) ==
  /\ step[r] = "debit"
  /\ HasBoth(r) /\ copy[r][party[r].consumer].balance < Price
  /\ Release(r) /\ StepTo(r, "refused")
  /\ UNCHANGED <<wallet, ledger, party, paid, model, counters>>

\* The model was deleted after the handler read it: the ledger row's foreign key
\* fails at commit, the whole transaction rolls back and the answer is a 500
\* ("failed" after a runner failure, "error" otherwise).
RollBack(r) ==
  /\ step[r] \in InTransaction
  /\ HasBoth(r) /\ ~ModelExists(r)
  /\ step[r] = "debit" => copy[r][party[r].consumer].balance >= Price
  /\ Release(r) /\ StepTo(r, IF step[r] = "refund" THEN "failed" ELSE "error")
  /\ UNCHANGED <<wallet, ledger, party, paid, model, counters>>

\* cache.get(): a hit goes on to the discount; a miss or a cache error is cold.
Lookup(r) ==
  /\ step[r] = "lookup"
  /\ StepTo(r, "discount") \/ StepTo(r, "runner")
  /\ UNCHANGED <<wallet, ledger, party, copy, paid, model, counters>>

\* runner.predict(): an answer, or an exception or status >= 400.
Predict(r) ==
  /\ step[r] = "runner"
  /\ StepTo(r, "log_cold") \/ StepTo(r, "refund")
  /\ UNCHANGED <<wallet, ledger, party, copy, paid, model, counters>>

\* Mutant: the discount is the whole price.
DiscountInFull(r) ==
  /\ step[r] = "discount"
  /\ Commit(r, -Price)
  /\ StepTo(r, "log_hit")
  /\ UNCHANGED <<party, model, counters>>

\* Mutant: the cache-hit branch does not return and goes on to the runner.
DiscountFallsThrough(r) ==
  /\ step[r] = "discount"
  /\ Commit(r, -Discount)
  /\ StepTo(r, "runner")
  /\ UNCHANGED <<party, model, counters>>

GiveDiscount(r) ==
  /\ step[r] = "discount"
  /\ Commit(r, -Discount)
  /\ StepTo(r, "log_hit")
  /\ UNCHANGED <<party, model, counters>>

RefundFailure(r) ==
  /\ step[r] = "refund"
  /\ Commit(r, -Price)
  /\ StepTo(r, "failed")
  /\ UNCHANGED <<party, model, counters>>

\* PredictionLog.objects.create() and the answer.  The log row's foreign
\* keys fail when the model or the deployment is gone: a 500 for an answered request.
Answer(r) ==
  /\ \/ step[r] = "log_hit" /\ StepTo(r, IF Served(r) THEN "hit" ELSE "error")
     \/ step[r] = "log_cold" /\ StepTo(r, IF Served(r) THEN "cold" ELSE "error")
  /\ UNCHANGED <<wallet, ledger, party, copy, paid, model, counters>>
------------------------------------------------------------------------------
\* A demo deposit: one row lock, so the transaction is one step.
DepositCredits(u) ==
  /\ deposits < MaxDeposits /\ deposits' = deposits + 1
  /\ \A q \in Reqs : copy[q][u] = None
  /\ Deposit(u)
  /\ UNCHANGED <<step, party, copy, paid, model, faults, deletes>>

\* DELETE of the deployment, or of the model with everything that hangs on it;
\* ledger rows keep their amounts (SET_NULL).
Delete(u) ==
  /\ model[u] # "deleted"
  /\ deletes < MaxDeletes /\ deletes' = deletes + 1
  /\ \/ model[u] = "deployed" /\ model' = [model EXCEPT ![u] = "undeployed"]
     \/ model' = [model EXCEPT ![u] = "deleted"]
  /\ UNCHANGED <<wallet, ledger, step, party, copy, paid, deposits, faults>>

\* The API process dies: an open transaction rolls back, nothing else is undone.
Crash(r) ==
  /\ step[r] \notin Ended \cup {"idle"}
  /\ faults < MaxFaults /\ faults' = faults + 1
  /\ Release(r) /\ StepTo(r, "crashed")
  /\ UNCHANGED <<wallet, ledger, party, paid, model, deposits, deletes>>

BillingInit ==
  /\ Init
  /\ step = [r \in Reqs |-> "idle"]
  /\ party = [r \in Reqs |-> [consumer |-> None, creator |-> None]]
  /\ copy = [r \in Reqs |-> [u \in Users |-> None]]
  /\ paid = [r \in Reqs |-> 0]
  /\ model = [u \in Users |-> "deployed"]
  /\ deposits = 0 /\ faults = 0 /\ deletes = 0

RequestStep(r) ==
  \/ \E u \in Users : LockWallet(r, u)
  \/ Debit(r) \/ DebitRefused(r) \/ RollBack(r)
  \/ Lookup(r) \/ Predict(r)
  \/ GiveDiscount(r) \/ RefundFailure(r) \/ Answer(r)

BillingNext ==
  \/ \E r \in Reqs, c, p \in Users : Start(r, c, p)
  \/ \E r \in Reqs : RequestStep(r) \/ Crash(r)
  \/ \E u \in Users : DepositCredits(u) \/ Delete(u)

BillingSpec == BillingInit /\ [][BillingNext]_vars

\* A request that was accepted is carried on; every call it makes has a timeout.
BillingLiveSpec == BillingSpec /\ \A r \in Reqs : WF_vars(RequestStep(r))
------------------------------------------------------------------------------
(* Properties *)

BillingTypeOK ==
  /\ wallet \in [Users -> Wallets]
  /\ ledger \in [Users -> Ledgers]
  /\ step \in [Reqs -> Steps]
  /\ party \in [Reqs -> [consumer : Users \cup {None}, creator : Users \cup {None}]]
  /\ copy \in [Reqs -> [Users -> Wallets \cup {None}]]
  /\ paid \in [Reqs -> 0 .. Price]
  /\ model \in [Users -> {"deployed", "undeployed", "deleted"}]
  /\ deposits \in 0 .. MaxDeposits /\ faults \in 0 .. MaxFaults /\ deletes \in 0 .. MaxDeletes

\* The requests of u, on either side, that got the cache-hit discount, and how far
\* u's columns may be from the ledger for it: a half that the columns can store moves
\* exactly, any other is rounded by wallet and ledger separately, which makes a
\* difference of at most 0.0001 credits (2 units) in a column for each discount.
Discounted(u) == {r \in Reqs : u \in Parties(r) /\ paid[r] = Price - Discount}
RoundedOff(u) == IF Discount % 2 = 0 THEN 0 ELSE 2 * Cardinality(Discounted(u))
Near(x, y, d) == y - d <= x /\ x <= y + d

\* What the ledger's rows add up to is what every wallet holds and what its lifetime
\* totals say, however the transactions of several requests and deposits interleave,
\* crash or roll back: exactly if the price halves to a whole number of 0.0001
\* credits, else up to the rounding of the discounts given (see LedgerIsExact).
WalletsAgreeWithLedger ==
  \A u \in Users :
    /\ Near(wallet[u].balance,
            Starting + ledger[u].deposits + ledger[u].earned - ledger[u].spent, RoundedOff(u))
    /\ Near(wallet[u].earned, ledger[u].earned, RoundedOff(u))
    /\ Near(wallet[u].spent, ledger[u].spent, RoundedOff(u))

\* LedgerTransaction is the "Immutable audit log of every credit movement."
\* (billing/models.py:25): its rows account for every credit in every wallet.  The
\* code does not keep it for a price with an odd number of 0.0001 credits.
LedgerIsExact ==
  \A u \in Users :
    /\ wallet[u].balance = Starting + ledger[u].deposits + ledger[u].earned - ledger[u].spent
    /\ wallet[u].earned = ledger[u].earned
    /\ wallet[u].spent = ledger[u].spent

\* BILL-01: what a request was charged in the end fits how it was answered: all
\* of the price for a computed answer, half of it for a cached one, nothing for a
\* refusal, nothing for a runner failure unless the model was deleted meanwhile; any
\* other 500 needs a model or deployment that was deleted meanwhile.
ChargeMatchesOutcome ==
  \A r \in Reqs :
    /\ step[r] = "cold" => paid[r] = Price
    /\ step[r] = "hit" => paid[r] = Price - Discount
    /\ step[r] = "refused" => paid[r] = 0
    /\ step[r] = "failed" /\ ModelExists(r) => paid[r] = 0
    /\ step[r] = "error" => ~Served(r)

\* A wallet below zero belongs to a creator who gave a charge back, in full or by
\* half, after spending it: the balance that a charge looks at is the balance it is
\* taken from, so no charge and no deposit overdraws a wallet.
OverdrawnByRefundOnly ==
  \A u \in Users :
    wallet[u].balance < 0 =>
      \E r \in Reqs : /\ party[r].creator = u /\ paid[r] < Price
                      /\ step[r] \in {"log_hit", "hit", "failed", "error", "crashed"}

\* Charges, refunds and deposits are atomic transfers: Billing implements Accounts.
AccountsSpec == Spec

\* However many transactions have locked one of their two wallets, one of them finds
\* the other wallet free: no chain of transactions that wait for each other's
\* wallets closes (order_by("pk") of both select_for_update()).
Holding(r) == \E u \in Users : copy[r][u] # None
Missing(r) == {u \in Parties(r) : copy[r][u] = None}
SomeHolderGoesOn ==
  (\E r \in Reqs : Holding(r)) =>
    \E r \in Reqs : /\ Holding(r)
                   /\ \A u \in Missing(r), q \in Reqs : copy[q][u] = None

\* "BILL-01: 100% refund on runner failure response", and on an exception: a request
\* whose runner call failed has not paid when it is over.
FailureIsFree == \A r \in Reqs : step[r] = "failed" => paid[r] = 0

\* Two requests between the same two users never wait for each other's wallets:
\* every request that is not cut off by a crash is answered.
EveryRequestEnds == \A r \in Reqs : step[r] = "debit" ~> step[r] \in Ended
==============================================================================
