---------------------------- MODULE BillingProofs ----------------------------
(***************************************************************************)
(* Theorems about module Billing, for every set of users and requests,     *)
(* every order of the primary keys, every price and every bound.           *)
(***************************************************************************)
EXTENDS Billing, FiniteSetTheorems, WellFoundedInduction, TLAPS

LEMMA ConstantTypes ==
  /\ Price \in Nat /\ Starting \in Nat /\ Amount \in Nat
  /\ Discount \in Nat /\ Discount <= Price
  /\ MaxDeposits \in Nat /\ MaxFaults \in Nat /\ MaxDeletes \in Nat
BY PriceAssumption, StartingAssumption, AmountAssumption, BoundsAssumption DEF Discount

\* Rounding gives integers.
LEMMA StoredType == ASSUME NEW x \in Int PROVE Stored(x) \in Int
BY DEF Stored

\* What a movement does to the columns of the two wallets.
LEMMA WalletMoves ==
  ASSUME NEW w \in Wallets, NEW amount \in Int
  PROVE  /\ Paying(w, amount) \in Wallets /\ Earning(w, amount) \in Wallets
         /\ Paying(w, amount).balance = Stored(w.balance - amount)
         /\ Paying(w, amount).spent = Stored(w.spent + amount)
         /\ Paying(w, amount).earned = w.earned
         /\ Earning(w, amount).balance = Stored(w.balance + amount)
         /\ Earning(w, amount).earned = Stored(w.earned + amount)
         /\ Earning(w, amount).spent = w.spent
<1>1. w.balance \in Int /\ w.earned \in Int /\ w.spent \in Int
  BY DEF Wallets
<1>2. /\ Stored(w.balance - amount) \in Int /\ Stored(w.balance + amount) \in Int
      /\ Stored(w.spent + amount) \in Int /\ Stored(w.earned + amount) \in Int
  BY <1>1, StoredType
<1> QED BY <1>2 DEF Wallets, Paying, Earning

------------------------------------------------------------------------------
(***************************************************************************)
(* The types, apart from the range of paid, and the parties of a request.  *)
(***************************************************************************)
Types ==
  /\ wallet \in [Users -> Wallets]
  /\ ledger \in [Users -> Ledgers]
  /\ step \in [Reqs -> Steps]
  /\ party \in [Reqs -> [consumer : Users \cup {None}, creator : Users \cup {None}]]
  /\ copy \in [Reqs -> [Users -> Wallets \cup {None}]]
  /\ paid \in [Reqs -> Int]
  /\ model \in [Users -> {"deployed", "undeployed", "deleted"}]
  /\ deposits \in 0 .. MaxDeposits /\ faults \in 0 .. MaxFaults /\ deletes \in 0 .. MaxDeletes

\* A request that has started is between two users.
TwoParties ==
  \A r \in Reqs :
    step[r] # "idle" =>
      /\ party[r].consumer \in Users /\ party[r].creator \in Users
      /\ party[r].consumer # party[r].creator

\* FOR UPDATE: a row is locked by one transaction, whose copy of it is current.
RowLocks ==
  \A r \in Reqs, u \in Users :
    copy[r][u] # None =>
      /\ step[r] \in InTransaction
      /\ copy[r][u] = wallet[u]
      /\ \A q \in Reqs : copy[q][u] # None => q = r

\* What a request has paid follows from where it is and from what was deleted.
PaidSoFar ==
  \A r \in Reqs :
    /\ step[r] \in {"idle", "debit", "refused"} => paid[r] = 0
    /\ step[r] \in {"lookup", "runner", "discount", "refund", "log_cold", "cold"} => paid[r] = Price
    /\ step[r] \in {"log_hit", "hit"} => paid[r] = Price - Discount
    /\ step[r] = "failed" => paid[r] \in {0, Price}
    /\ step[r] = "failed" /\ ModelExists(r) => paid[r] = 0
    /\ step[r] \in {"error", "crashed"} => paid[r] \in {0, Price, Price - Discount}
    /\ step[r] = "error" => ~Served(r)

BillingInv == Types /\ TwoParties /\ RowLocks /\ PaidSoFar

\* With current copies, the writes of a transaction are an atomic transfer.
LEMMA CommitIsTransfer ==
  ASSUME Types, TwoParties, RowLocks, NEW r \in Reqs, step[r] # "idle",
         NEW amount \in Int, Commit(r, amount)
  PROVE  Transfer(party[r].consumer, party[r].creator, amount)
<1> DEFINE c == party[r].consumer
           p == party[r].creator
<1>1. c \in Users /\ p \in Users /\ c # p
  BY DEF TwoParties
<1>2. copy[r][c] = wallet[c] /\ copy[r][p] = wallet[p]
  BY <1>1 DEF Commit, HasBoth, Parties, RowLocks
<1>3. wallet' = [wallet EXCEPT ![c] = Paying(wallet[c], amount), ![p] = Earning(wallet[p], amount)]
  BY <1>2 DEF Commit
<1>4. wallet' = [wallet EXCEPT ![c] = Paying(@, amount), ![p] = Earning(@, amount)]
  BY <1>1, <1>3 DEF Types
<1> QED BY <1>4 DEF Transfer, Commit

\* The two wallets and ledgers after a transfer, and everybody else's.
LEMMA TransferEffect ==
  ASSUME Types, NEW c \in Users, NEW p \in Users, c # p, NEW amount \in Int,
         Transfer(c, p, amount)
  PROVE  /\ wallet' \in [Users -> Wallets] /\ ledger' \in [Users -> Ledgers]
         /\ wallet'[c] = Paying(wallet[c], amount)
         /\ wallet'[p] = Earning(wallet[p], amount)
         /\ ledger'[c] = [ledger[c] EXCEPT !.spent = @ + Stored(amount)]
         /\ ledger'[p] = [ledger[p] EXCEPT !.earned = @ + Stored(amount)]
         /\ \A u \in Users \ {c, p} : wallet'[u] = wallet[u] /\ ledger'[u] = ledger[u]
<1>1. Stored(amount) \in Int
  BY StoredType
<1>2. Paying(wallet[c], amount) \in Wallets /\ Earning(wallet[p], amount) \in Wallets
  BY WalletMoves DEF Types
<1>3. [ledger[c] EXCEPT !.spent = @ + Stored(amount)] \in Ledgers
  BY <1>1 DEF Ledgers, Types
<1>4. [ledger[p] EXCEPT !.earned = @ + Stored(amount)] \in Ledgers
  BY <1>1 DEF Ledgers, Types
<1>5. wallet' = [wallet EXCEPT ![c] = Paying(wallet[c], amount), ![p] = Earning(wallet[p], amount)]
  BY DEF Transfer, Types
<1>6. ledger' = [ledger EXCEPT ![c] = [ledger[c] EXCEPT !.spent = @ + Stored(amount)],
                               ![p] = [ledger[p] EXCEPT !.earned = @ + Stored(amount)]]
  BY DEF Transfer, Book, Types
<1> QED BY <1>2, <1>3, <1>4, <1>5, <1>6 DEF Types

\* Only a commit and a deposit move money.
LEMMA MoneyMovers ==
  ASSUME [BillingNext]_vars
  PROVE  \/ UNCHANGED <<wallet, ledger>>
         \/ \E r \in Reqs : Debit(r) \/ GiveDiscount(r) \/ RefundFailure(r)
         \/ \E u \in Users : DepositCredits(u)
<1>1. CASE UNCHANGED vars
  BY <1>1 DEF vars
<1>2. ASSUME NEW r \in Reqs, NEW c \in Users, NEW p \in Users, Start(r, c, p)
      PROVE  UNCHANGED <<wallet, ledger>>
  BY <1>2 DEF Start
<1>3. ASSUME NEW r \in Reqs, NEW u \in Users, LockWallet(r, u) PROVE UNCHANGED <<wallet, ledger>>
  BY <1>3 DEF LockWallet
<1>4. ASSUME NEW r \in Reqs,
             DebitRefused(r) \/ RollBack(r) \/ Lookup(r) \/ Predict(r) \/ Answer(r) \/ Crash(r)
      PROVE  UNCHANGED <<wallet, ledger>>
  BY <1>4 DEF DebitRefused, RollBack, Lookup, Predict, Answer, Crash
<1>5. ASSUME NEW u \in Users, Delete(u) PROVE UNCHANGED <<wallet, ledger>>
  BY <1>5 DEF Delete
<1> QED BY <1>1, <1>2, <1>3, <1>4, <1>5 DEF BillingNext, RequestStep

\* The three commits: which amount moves, from which step to which.
LEMMA Commits ==
  ASSUME NEW r \in Reqs, Debit(r) \/ GiveDiscount(r) \/ RefundFailure(r)
  PROVE  \E amount \in {Price, -Discount, -Price} :
           /\ Commit(r, amount)
           /\ \/ step[r] = "debit" /\ amount = Price /\ StepTo(r, "lookup")
              \/ step[r] = "discount" /\ amount = -Discount /\ StepTo(r, "log_hit")
              \/ step[r] = "refund" /\ amount = -Price /\ StepTo(r, "failed")
           /\ UNCHANGED <<party, model, counters>>
BY DEF Debit, GiveDiscount, RefundFailure

LEMMA DepositType ==
  ASSUME Types, NEW u \in Users, DepositCredits(u)
  PROVE  wallet' \in [Users -> Wallets] /\ ledger' \in [Users -> Ledgers]
<1>1. [wallet[u] EXCEPT !.balance = @ + Amount] \in Wallets
  <2>1. wallet[u] \in Wallets /\ wallet[u].balance \in Int
    BY DEF Types, Wallets
  <2> QED BY <2>1, ConstantTypes DEF Wallets
<1>2. [ledger[u] EXCEPT !.deposits = @ + Amount] \in Ledgers
  <2>1. ledger[u] \in Ledgers /\ ledger[u].deposits \in Int
    BY DEF Types, Ledgers
  <2> QED BY <2>1, ConstantTypes DEF Ledgers
<1> QED BY <1>1, <1>2 DEF DepositCredits, Deposit, Types

LEMMA MoneyTypes ==
  ASSUME Types, TwoParties, RowLocks, [BillingNext]_vars
  PROVE  wallet' \in [Users -> Wallets] /\ ledger' \in [Users -> Ledgers]
<1>1. ASSUME NEW r \in Reqs, Debit(r) \/ GiveDiscount(r) \/ RefundFailure(r)
      PROVE  wallet' \in [Users -> Wallets] /\ ledger' \in [Users -> Ledgers]
  <2>1. PICK amount \in {Price, -Discount, -Price} : Commit(r, amount) /\ step[r] # "idle"
    BY <1>1, Commits
  <2>2. amount \in Int
    BY ConstantTypes
  <2>3. Transfer(party[r].consumer, party[r].creator, amount)
    BY <2>1, <2>2, CommitIsTransfer
  <2> QED BY <2>1, <2>2, <2>3, TransferEffect DEF TwoParties
<1> QED BY <1>1, MoneyMovers, DepositType DEF Types

LEMMA StepToType ==
  ASSUME Types, NEW r \in Reqs, NEW s \in Steps, StepTo(r, s)
  PROVE  step' \in [Reqs -> Steps]
BY DEF Types, StepTo

LEMMA ReleaseType ==
  ASSUME Types, NEW r \in Reqs, Release(r)
  PROVE  copy' \in [Reqs -> [Users -> Wallets \cup {None}]]
BY DEF Types, Release

LEMMA TypesHold ==
  ASSUME Types, TwoParties, RowLocks, [BillingNext]_vars
  PROVE  Types'
<1>0. {"debit", "lookup", "runner", "discount", "refund", "log_hit", "log_cold", "refused",
       "hit", "cold", "failed", "error", "crashed"} \subseteq Steps
  BY DEF Steps, InTransaction, Ended
<1>1. wallet' \in [Users -> Wallets] /\ ledger' \in [Users -> Ledgers]
  BY MoneyTypes
<1>2. CASE UNCHANGED vars
  BY <1>2 DEF vars, counters, Types
<1>3. ASSUME NEW r \in Reqs, NEW c \in Users, NEW p \in Users, Start(r, c, p) PROVE Types'
  BY <1>0, <1>1, <1>3 DEF Start, StepTo, counters, Types
<1>4. ASSUME NEW r \in Reqs, NEW u \in Users, LockWallet(r, u) PROVE Types'
  BY <1>1, <1>4 DEF LockWallet, counters, Types
<1>5. ASSUME NEW r \in Reqs, Debit(r) \/ GiveDiscount(r) \/ RefundFailure(r) PROVE Types'
  <2>1. PICK amount \in {Price, -Discount, -Price} :
          /\ Commit(r, amount)
          /\ \E s \in {"lookup", "log_hit", "failed"} : StepTo(r, s)
          /\ UNCHANGED <<party, model, counters>>
    BY <1>5, Commits
  <2>2. amount \in Int
    BY ConstantTypes
  <2>3. paid' \in [Reqs -> Int] /\ copy' \in [Reqs -> [Users -> Wallets \cup {None}]]
    BY <2>1, <2>2, ReleaseType DEF Commit, Types
  <2>4. step' \in [Reqs -> Steps]
    BY <1>0, <2>1, StepToType
  <2> QED BY <1>1, <2>1, <2>3, <2>4 DEF counters, Types
<1>6. ASSUME NEW r \in Reqs, DebitRefused(r) \/ RollBack(r) PROVE Types'
  <2>1. Release(r) /\ \E s \in {"refused", "failed", "error"} : StepTo(r, s)
    BY <1>6 DEF DebitRefused, RollBack
  <2>2. step' \in [Reqs -> Steps] /\ copy' \in [Reqs -> [Users -> Wallets \cup {None}]]
    BY <1>0, <2>1, StepToType, ReleaseType
  <2> QED BY <1>1, <1>6, <2>2 DEF DebitRefused, RollBack, counters, Types
<1>7. ASSUME NEW r \in Reqs, Lookup(r) \/ Predict(r) \/ Answer(r) PROVE Types'
  BY ZenonT(60), <1>0, <1>1, <1>7 DEF Lookup, Predict, Answer, StepTo, counters, Types
<1>8. ASSUME NEW r \in Reqs, Crash(r) PROVE Types'
  <2>1. step' \in [Reqs -> Steps] /\ copy' \in [Reqs -> [Users -> Wallets \cup {None}]]
    BY <1>0, <1>8, StepToType, ReleaseType DEF Crash
  <2> QED BY <1>1, <1>8, <2>1, ConstantTypes DEF Crash, Types
<1>9. ASSUME NEW u \in Users, DepositCredits(u) PROVE Types'
  BY <1>1, <1>9, ConstantTypes DEF DepositCredits, Types
<1>10. ASSUME NEW u \in Users, Delete(u) PROVE Types'
  <2>1. model' \in [Users -> {"deployed", "undeployed", "deleted"}]
    BY <1>10 DEF Delete, Types
  <2> QED BY <1>1, <1>10, <2>1, ConstantTypes DEF Delete, Types
<1> QED BY <1>2, <1>3, <1>4, <1>5, <1>6, <1>7, <1>8, <1>9, <1>10 DEF BillingNext, RequestStep

------------------------------------------------------------------------------
(***************************************************************************)
(* Parties, row locks and what was paid are inductive.                     *)
(***************************************************************************)
LEMMA PartiesHold ==
  ASSUME Types, TwoParties, [BillingNext]_vars
  PROVE  TwoParties'
<1>1. ASSUME NEW r \in Reqs, NEW c \in Users, NEW p \in Users, Start(r, c, p) PROVE TwoParties'
  BY <1>1 DEF Start, StepTo, TwoParties, Types
<1>2. CASE UNCHANGED party /\ \A r \in Reqs : step'[r] # "idle" => step[r] # "idle"
  BY <1>2 DEF TwoParties
<1>3. CASE UNCHANGED vars
  BY <1>2, <1>3 DEF vars
<1>4. ASSUME NEW r \in Reqs, RequestStep(r) \/ Crash(r)
      PROVE  UNCHANGED party /\ \A q \in Reqs : step'[q] # "idle" => step[q] # "idle"
  <2>1. step[r] # "idle"
    BY <1>4 DEF RequestStep, LockWallet, Debit, DebitRefused, RollBack, Lookup, Predict,
                GiveDiscount, RefundFailure, Answer, Crash, InTransaction
  <2>2. UNCHANGED party
    BY <1>4 DEF RequestStep, LockWallet, Debit, DebitRefused, RollBack, Lookup, Predict,
                GiveDiscount, RefundFailure, Answer, Crash
  <2>3. UNCHANGED step \/ \E s : StepTo(r, s)
    BY <1>4 DEF RequestStep, LockWallet, Debit, DebitRefused, RollBack, Lookup, Predict,
                GiveDiscount, RefundFailure, Answer, Crash
  <2> QED BY <2>1, <2>2, <2>3 DEF StepTo, Types
<1>5. ASSUME NEW u \in Users, DepositCredits(u) \/ Delete(u) PROVE TwoParties'
  BY <1>2, <1>5 DEF DepositCredits, Delete
<1> QED BY <1>1, <1>2, <1>3, <1>4, <1>5 DEF BillingNext

\* A step that ends a transaction keeps the other transactions' copies current.
LEMMA EndKeepsRowLocks ==
  ASSUME Types, RowLocks, NEW r \in Reqs, Release(r), NEW s, StepTo(r, s),
         \A u \in Users : wallet'[u] = wallet[u] \/ copy[r][u] # None
  PROVE  RowLocks'
<1> SUFFICES ASSUME NEW q \in Reqs, NEW u \in Users, copy'[q][u] # None
             PROVE  /\ step'[q] \in InTransaction
                    /\ copy'[q][u] = wallet'[u]
                    /\ \A k \in Reqs : copy'[k][u] # None => k = q
  BY DEF RowLocks
<1>1. q # r /\ copy'[q][u] = copy[q][u] /\ step'[q] = step[q]
  BY DEF Release, StepTo, Types
<1>2. copy[r][u] = None
  BY <1>1 DEF RowLocks
<1>3. \A k \in Reqs : copy'[k][u] # None => copy[k][u] # None
  BY <1>2 DEF Release, Types
<1> QED BY <1>1, <1>2, <1>3 DEF RowLocks

LEMMA RowLocksHold ==
  ASSUME Types, TwoParties, RowLocks, [BillingNext]_vars
  PROVE  RowLocks'
<1>1. CASE UNCHANGED <<copy, wallet, step>>
  BY <1>1 DEF RowLocks
<1>2. ASSUME NEW r \in Reqs, NEW s, step[r] \notin InTransaction, StepTo(r, s),
             UNCHANGED <<copy, wallet>>
      PROVE  RowLocks'
  BY <1>2 DEF RowLocks, StepTo, Types
<1>3. CASE UNCHANGED vars
  BY <1>1, <1>3 DEF vars
<1>4. ASSUME NEW r \in Reqs, NEW c \in Users, NEW p \in Users, Start(r, c, p) PROVE RowLocks'
  BY <1>2, <1>4 DEF Start, InTransaction
<1>5. ASSUME NEW r \in Reqs, NEW v \in Users, LockWallet(r, v) PROVE RowLocks'
  <2>1. copy' = [copy EXCEPT ![r] = [copy[r] EXCEPT ![v] = wallet[v]]]
    BY <1>5 DEF LockWallet, Types
  <2>2. /\ step[r] \in InTransaction /\ UNCHANGED <<wallet, step>>
        /\ \A q \in Reqs : copy[q][v] = None
    BY <1>5 DEF LockWallet
  <2>3. \A q \in Reqs, u \in Users :
          copy'[q][u] = IF q = r /\ u = v THEN wallet[v] ELSE copy[q][u]
    BY <2>1 DEF Types
  <2>4. \A q \in Reqs, u \in Users : copy'[q][u] # None /\ u # v => copy[q][u] # None
    BY <2>3
  <2>5. \A q \in Reqs : copy'[q][v] # None => q = r
    BY <2>2, <2>3
  <2> QED BY <2>2, <2>3, <2>4, <2>5 DEF RowLocks
<1>6. ASSUME NEW r \in Reqs, Debit(r) \/ GiveDiscount(r) \/ RefundFailure(r) PROVE RowLocks'
  <2>1. PICK amount \in {Price, -Discount, -Price} :
          Commit(r, amount) /\ step[r] # "idle" /\ \E s : StepTo(r, s)
    BY <1>6, Commits
  <2>2. Transfer(party[r].consumer, party[r].creator, amount) /\ amount \in Int
    BY <2>1, CommitIsTransfer, ConstantTypes
  <2>3. \A u \in Users : wallet'[u] = wallet[u] \/ u \in Parties(r)
    <3>1. /\ party[r].consumer \in Users /\ party[r].creator \in Users
          /\ party[r].consumer # party[r].creator
      BY <2>1 DEF TwoParties
    <3>2. \A u \in Users \ {party[r].consumer, party[r].creator} : wallet'[u] = wallet[u]
      BY <2>2, <3>1 DEF Transfer, Types
    <3> QED BY <3>2 DEF Parties
  <2>4. Release(r) /\ HasBoth(r)
    BY <2>1 DEF Commit
  <2>5. \A u \in Users : wallet'[u] = wallet[u] \/ copy[r][u] # None
    BY <2>3, <2>4 DEF HasBoth
  <2>6. PICK s : StepTo(r, s)
    BY <2>1
  <2> QED BY <2>4, <2>5, <2>6, EndKeepsRowLocks
<1>7. ASSUME NEW r \in Reqs, DebitRefused(r) \/ RollBack(r) \/ Crash(r) PROVE RowLocks'
  BY <1>7, EndKeepsRowLocks DEF DebitRefused, RollBack, Crash
<1>8. ASSUME NEW r \in Reqs, Lookup(r) \/ Predict(r) \/ Answer(r) PROVE RowLocks'
  BY <1>2, <1>8 DEF Lookup, Predict, Answer, InTransaction
<1>9. ASSUME NEW u \in Users, DepositCredits(u) PROVE RowLocks'
  BY <1>9 DEF DepositCredits, Deposit, RowLocks, Types
<1>10. ASSUME NEW u \in Users, Delete(u) PROVE RowLocks'
  BY <1>1, <1>10 DEF Delete
<1> QED BY <1>3, <1>4, <1>5, <1>6, <1>7, <1>8, <1>9, <1>10 DEF BillingNext, RequestStep

\* Every step of a request, as a change of step and of what was paid.
LEMMA PaidSteps ==
  ASSUME Types, TwoParties, [BillingNext]_vars, NEW r \in Reqs
  PROVE  \/ step'[r] = step[r] /\ paid'[r] = paid[r]
         \/ step[r] = "idle" /\ step'[r] = "debit" /\ paid'[r] = paid[r]
         \/ step[r] = "debit" /\ step'[r] = "lookup" /\ paid'[r] = paid[r] + Price
         \/ step[r] = "debit" /\ step'[r] = "refused" /\ paid'[r] = paid[r]
         \/ step[r] = "refund" /\ step'[r] = "failed" /\ paid'[r] = paid[r] /\ ~ModelExists(r)
         \/ step[r] \in {"debit", "discount"} /\ step'[r] = "error" /\ paid'[r] = paid[r]
            /\ ~ModelExists(r)
         \/ step[r] = "lookup" /\ step'[r] \in {"discount", "runner"} /\ paid'[r] = paid[r]
         \/ step[r] = "runner" /\ step'[r] \in {"log_cold", "refund"} /\ paid'[r] = paid[r]
         \/ step[r] = "discount" /\ step'[r] = "log_hit" /\ paid'[r] = paid[r] - Discount
         \/ step[r] = "refund" /\ step'[r] = "failed" /\ paid'[r] = paid[r] - Price
         \/ step[r] = "log_hit" /\ step'[r] = "hit" /\ paid'[r] = paid[r]
         \/ step[r] = "log_cold" /\ step'[r] = "cold" /\ paid'[r] = paid[r]
         \/ step[r] \in {"log_hit", "log_cold"} /\ step'[r] = "error" /\ paid'[r] = paid[r]
            /\ ~Served(r)
         \/ step[r] \notin Ended \cup {"idle"} /\ step'[r] = "crashed" /\ paid'[r] = paid[r]
<1>0. \A q \in Reqs : \A s : StepTo(q, s) => step'[r] = IF q = r THEN s ELSE step[r]
  BY DEF StepTo, Types
<1>1. CASE UNCHANGED <<step, paid>>
  BY <1>1
<1>2. CASE UNCHANGED vars
  BY <1>1, <1>2 DEF vars
<1>3. ASSUME NEW q \in Reqs, NEW c \in Users, NEW p \in Users, Start(q, c, p)
      PROVE  step[q] = "idle" /\ StepTo(q, "debit") /\ UNCHANGED paid
  BY <1>3 DEF Start
<1>4. ASSUME NEW q \in Reqs, NEW u \in Users, LockWallet(q, u) PROVE UNCHANGED <<step, paid>>
  BY <1>4 DEF LockWallet
<1>5. ASSUME NEW q \in Reqs, Debit(q) \/ GiveDiscount(q) \/ RefundFailure(q)
      PROVE  \/ step'[r] = step[r] /\ paid'[r] = paid[r]
             \/ step[r] = "debit" /\ step'[r] = "lookup" /\ paid'[r] = paid[r] + Price
             \/ step[r] = "discount" /\ step'[r] = "log_hit" /\ paid'[r] = paid[r] - Discount
             \/ step[r] = "refund" /\ step'[r] = "failed" /\ paid'[r] = paid[r] - Price
  <2>1. PICK amount \in {Price, -Discount, -Price} :
          /\ Commit(q, amount)
          /\ \/ step[q] = "debit" /\ amount = Price /\ StepTo(q, "lookup")
             \/ step[q] = "discount" /\ amount = -Discount /\ StepTo(q, "log_hit")
             \/ step[q] = "refund" /\ amount = -Price /\ StepTo(q, "failed")
    BY <1>5, Commits
  <2>2. paid'[r] = IF q = r THEN paid[r] + amount ELSE paid[r]
    BY <2>1 DEF Commit, Types
  <2>3. paid[r] \in Int
    BY DEF Types
  <2> QED BY <1>0, <2>1, <2>2, <2>3, ConstantTypes
<1>6. ASSUME NEW q \in Reqs, DebitRefused(q)
      PROVE  step[q] = "debit" /\ StepTo(q, "refused") /\ UNCHANGED paid
  BY <1>6 DEF DebitRefused
<1>7. ASSUME NEW q \in Reqs, RollBack(q)
      PROVE  /\ ~ModelExists(q) /\ UNCHANGED paid
             /\ \/ step[q] = "refund" /\ StepTo(q, "failed")
                \/ step[q] \in {"debit", "discount"} /\ StepTo(q, "error")
  BY <1>7 DEF RollBack, InTransaction
<1>8. ASSUME NEW q \in Reqs, Lookup(q) \/ Predict(q)
      PROVE  /\ UNCHANGED paid
             /\ \/ step[q] = "lookup" /\ StepTo(q, "discount")
                \/ step[q] = "lookup" /\ StepTo(q, "runner")
                \/ step[q] = "runner" /\ StepTo(q, "log_cold")
                \/ step[q] = "runner" /\ StepTo(q, "refund")
  BY <1>8 DEF Lookup, Predict
<1>9. ASSUME NEW q \in Reqs, Answer(q)
      PROVE  /\ UNCHANGED paid
             /\ \/ step[q] = "log_hit" /\ StepTo(q, "hit")
                \/ step[q] = "log_cold" /\ StepTo(q, "cold")
                \/ step[q] \in {"log_hit", "log_cold"} /\ StepTo(q, "error") /\ ~Served(q)
  BY <1>9 DEF Answer
<1>10. ASSUME NEW q \in Reqs, Crash(q)
       PROVE  step[q] \notin Ended \cup {"idle"} /\ StepTo(q, "crashed") /\ UNCHANGED paid
  BY <1>10 DEF Crash
<1>11. ASSUME NEW u \in Users, DepositCredits(u) \/ Delete(u) PROVE UNCHANGED <<step, paid>>
  BY <1>11 DEF DepositCredits, Delete
<1>12. \/ UNCHANGED <<step, paid>>
       \/ \E q \in Reqs : Debit(q) \/ GiveDiscount(q) \/ RefundFailure(q)
       \/ \E q \in Reqs, c, p \in Users : Start(q, c, p)
       \/ \E q \in Reqs : DebitRefused(q) \/ RollBack(q) \/ Lookup(q) \/ Predict(q)
                          \/ Answer(q) \/ Crash(q)
  BY <1>2, <1>4, <1>11 DEF BillingNext, RequestStep, vars
<1> QED BY <1>0, <1>1, <1>3, <1>5, <1>6, <1>7, <1>8, <1>9, <1>10, <1>12

\* The parties of a request stay.
LEMMA PartiesStay ==
  ASSUME Types, [BillingNext]_vars, NEW r \in Reqs, step[r] # "idle"
  PROVE  party'[r] = party[r]
<1>1. CASE UNCHANGED party
  BY <1>1
<1>2. ASSUME NEW q \in Reqs, NEW c \in Users, NEW p \in Users, Start(q, c, p)
      PROVE  party'[r] = party[r]
  BY <1>2 DEF Start, Types
<1>3. ASSUME NEW q \in Reqs, RequestStep(q) \/ Crash(q) PROVE UNCHANGED party
  BY <1>3 DEF RequestStep, LockWallet, Debit, DebitRefused, RollBack, Lookup, Predict,
              GiveDiscount, RefundFailure, Answer, Crash
<1>4. ASSUME NEW u \in Users, DepositCredits(u) \/ Delete(u) PROVE UNCHANGED party
  BY <1>4 DEF DepositCredits, Delete
<1> QED BY <1>1, <1>2, <1>3, <1>4 DEF BillingNext, vars

\* Models are never created again.
LEMMA DeletionIsFinal ==
  ASSUME Types, TwoParties, [BillingNext]_vars, NEW r \in Reqs, step[r] # "idle"
  PROVE  /\ ModelExists(r)' => ModelExists(r)
         /\ Served(r)' => Served(r)
<1>1. party'[r] = party[r]
  BY PartiesStay
<1>2. \A u \in Users : \/ model'[u] = model[u]
                       \/ model[u] = "deployed" /\ model'[u] = "undeployed"
                       \/ model[u] # "deleted" /\ model'[u] = "deleted"
  <2>1. CASE UNCHANGED model
    BY <2>1
  <2>2. ASSUME NEW v \in Users, Delete(v)
        PROVE  \A u \in Users : \/ model'[u] = model[u]
                                \/ model[u] = "deployed" /\ model'[u] = "undeployed"
                                \/ model[u] # "deleted" /\ model'[u] = "deleted"
    BY <2>2 DEF Delete, Types
  <2>3. ASSUME NEW q \in Reqs, NEW c \in Users, NEW p \in Users, Start(q, c, p) PROVE UNCHANGED model
    BY <2>3 DEF Start
  <2>4. ASSUME NEW q \in Reqs, RequestStep(q) \/ Crash(q) PROVE UNCHANGED model
    BY <2>4 DEF RequestStep, LockWallet, Debit, DebitRefused, RollBack, Lookup, Predict,
                GiveDiscount, RefundFailure, Answer, Crash
  <2>5. ASSUME NEW u \in Users, DepositCredits(u) PROVE UNCHANGED model
    BY <2>5 DEF DepositCredits
  <2> QED BY <2>1, <2>2, <2>3, <2>4, <2>5 DEF BillingNext, vars
<1> QED BY <1>1, <1>2 DEF ModelExists, Served, TwoParties

LEMMA PaidHolds ==
  ASSUME Types, TwoParties, PaidSoFar, [BillingNext]_vars
  PROVE  PaidSoFar'
<1> SUFFICES ASSUME NEW r \in Reqs
             PROVE
    /\ step'[r] \in {"idle", "debit", "refused"} => paid'[r] = 0
    /\ step'[r] \in {"lookup", "runner", "discount", "refund", "log_cold", "cold"} => paid'[r] = Price
    /\ step'[r] \in {"log_hit", "hit"} => paid'[r] = Price - Discount
    /\ step'[r] = "failed" => paid'[r] \in {0, Price}
    /\ step'[r] = "failed" /\ ModelExists(r)' => paid'[r] = 0
    /\ step'[r] \in {"error", "crashed"} => paid'[r] \in {0, Price, Price - Discount}
    /\ step'[r] = "error" => ~Served(r)'
  BY DEF PaidSoFar
<1>1. step[r] # "idle" => (ModelExists(r)' => ModelExists(r)) /\ (Served(r)' => Served(r))
  BY DeletionIsFinal
<1>2. ~ModelExists(r) => ~Served(r)
  BY DEF ModelExists, Served
<1>3. paid[r] \in Int
  BY DEF Types
<1>4. step[r] \in {"idle", "lookup", "runner", "log_hit", "log_cold", "debit", "discount", "refund",
                   "refused", "hit", "cold", "failed", "error", "crashed"}
  BY DEF Types, Steps, InTransaction, Ended
<1>5. CASE step'[r] = step[r] /\ paid'[r] = paid[r]
  BY <1>1, <1>5 DEF PaidSoFar
<1>6. CASE \/ step[r] \in {"debit", "discount"} /\ step'[r] = "error" /\ ~ModelExists(r)
           \/ step[r] \in {"log_hit", "log_cold"} /\ step'[r] = "error" /\ ~Served(r)
  <2>1. ~Served(r)' /\ paid[r] \in {0, Price, Price - Discount}
    BY <1>1, <1>2, <1>6 DEF PaidSoFar
  <2> QED BY <1>6, <2>1, PaidSteps
<1>7. CASE step[r] = "refund" /\ step'[r] = "failed"
  <2>1. paid[r] = Price
    BY <1>7 DEF PaidSoFar
  <2>2. \/ paid'[r] = paid[r] - Price
        \/ paid'[r] = paid[r] /\ ~ModelExists(r)
    BY <1>7, PaidSteps
  <2>3. ~ModelExists(r) => ~ModelExists(r)'
    BY <1>1, <1>7
  <2> QED BY <1>7, <2>1, <2>2, <2>3, ConstantTypes
<1>8. CASE step[r] \notin Ended \cup {"idle"} /\ step'[r] = "crashed"
  <2>1. paid'[r] = paid[r]
    BY <1>8, PaidSteps
  <2>2. paid[r] \in {0, Price, Price - Discount}
    BY <1>4, <1>8 DEF PaidSoFar, Ended
  <2> QED BY <1>8, <2>1, <2>2, Zenon
<1>9. CASE step'[r] \in {"debit", "lookup", "refused", "discount", "runner", "log_cold", "refund",
                         "log_hit", "hit", "cold"} /\ step'[r] # step[r]
  BY <1>3, <1>9, PaidSteps, ConstantTypes DEF PaidSoFar
<1> QED BY <1>5, <1>6, <1>7, <1>8, <1>9, PaidSteps

------------------------------------------------------------------------------
\* The invariant that the properties below follow from.
THEOREM Invariant == BillingSpec => []BillingInv
<1>1. BillingInit => BillingInv
  <2> SUFFICES ASSUME BillingInit PROVE BillingInv
    OBVIOUS
  <2>1. /\ \A r \in Reqs : step[r] = "idle" /\ paid[r] = 0
        /\ \A r \in Reqs, u \in Users : copy[r][u] = None
    BY DEF BillingInit
  <2>2. wallet \in [Users -> Wallets] /\ ledger \in [Users -> Ledgers]
    BY ConstantTypes DEF BillingInit, Init, Wallets, Ledgers
  <2>3. Types
    BY <2>2, ConstantTypes DEF BillingInit, Types, Steps
  <2> QED BY <2>1, <2>3 DEF BillingInv, TwoParties, RowLocks, PaidSoFar
<1>2. BillingInv /\ [BillingNext]_vars => BillingInv'
  BY TypesHold, PartiesHold, RowLocksHold, PaidHolds DEF BillingInv
<1> QED BY <1>1, <1>2, PTL DEF BillingSpec

\* Every reachable state is well typed; no request pays more than its price or less
\* than nothing.
THEOREM TypeCorrect == BillingSpec => []BillingTypeOK
<1>1. BillingInv => BillingTypeOK
  <2> SUFFICES ASSUME BillingInv PROVE BillingTypeOK
    OBVIOUS
  <2>1. \A r \in Reqs : paid[r] \in {0, Price, Price - Discount}
    BY DEF BillingInv, PaidSoFar, Types, Steps, InTransaction, Ended
  <2>2. paid \in [Reqs -> 0 .. Price]
    BY <2>1, ConstantTypes DEF BillingInv, Types
  <2> QED BY <2>2 DEF BillingInv, Types, BillingTypeOK
<1> QED BY <1>1, Invariant, PTL

\* What a request was charged in the end fits how it was answered (BILL-01).
THEOREM ChargesCorrect == BillingSpec => []ChargeMatchesOutcome
<1>1. BillingInv => ChargeMatchesOutcome
  BY DEF BillingInv, PaidSoFar, ChargeMatchesOutcome
<1> QED BY <1>1, Invariant, PTL

\* Charges, refunds and deposits are atomic, whatever the interleaving of their
\* locks, crashes and rollbacks: Billing implements Accounts.
THEOREM Refinement == BillingSpec => AccountsSpec
<1>1. BillingInit => Init
  BY DEF BillingInit
<1>2. BillingInv /\ [BillingNext]_vars => [Next]_<<wallet, ledger>>
  <2> SUFFICES ASSUME BillingInv, [BillingNext]_vars PROVE [Next]_<<wallet, ledger>>
    OBVIOUS
  <2>1. ASSUME NEW r \in Reqs, Debit(r) \/ GiveDiscount(r) \/ RefundFailure(r) PROVE Next
    <3> DEFINE c == party[r].consumer
               p == party[r].creator
    <3>1. step[r] # "idle"
      BY <2>1, Commits
    <3>2. c \in Users /\ p \in Users /\ c # p
      BY <3>1 DEF BillingInv, TwoParties
    <3>3. \A amount \in Int : Commit(r, amount) => Transfer(c, p, amount)
      BY <3>1, CommitIsTransfer DEF BillingInv
    <3>4. CASE Debit(r)
      <4>1. Transfer(c, p, Price)
        BY <3>3, <3>4, ConstantTypes DEF Debit
      <4>2. copy[r][c] = wallet[c] /\ copy[r][c].balance >= Price
        BY <3>2, <3>4 DEF Debit, HasBoth, Parties, BillingInv, RowLocks
      <4> QED BY <3>2, <4>1, <4>2 DEF Charge, Next
    <3>5. CASE GiveDiscount(r) \/ RefundFailure(r)
      <4>1. \E amount \in {Price, Discount} : Transfer(c, p, -amount)
        BY <3>3, <3>5, ConstantTypes DEF GiveDiscount, RefundFailure
      <4> QED BY <3>2, <4>1 DEF Refund, Next
    <3> QED BY <2>1, <3>4, <3>5
  <2>2. ASSUME NEW u \in Users, DepositCredits(u) PROVE Next
    BY <2>2 DEF DepositCredits, Next
  <2> QED BY <2>1, <2>2, MoneyMovers
<1> QED BY <1>1, <1>2, Invariant, PTL DEF BillingSpec, AccountsSpec, Spec

------------------------------------------------------------------------------
(***************************************************************************)
(* The ledger.  Every stored amount is a whole number of 0.0001 credits    *)
(* (Even), so only a discount is rounded, and by wallet and ledger alike   *)
(* but for 2 units.  Discounted grows by the request that is given one.    *)
(***************************************************************************)
Even ==
  \A u \in Users : /\ wallet[u].balance % 2 = 0
                   /\ wallet[u].earned % 2 = 0
                   /\ wallet[u].spent % 2 = 0

FewDiscounted == \A u \in Users : IsFiniteSet(Discounted(u))

Agreement == Even /\ FewDiscounted /\ WalletsAgreeWithLedger

\* Stored amounts are even; rounding a sum or its second term is the same up to 2,
\* and the same if that term is even.
LEMMA StoredSum ==
  ASSUME NEW a \in Int, NEW x \in Int, a % 2 = 0
  PROVE  /\ Stored(a + x) % 2 = 0 /\ Stored(a - x) % 2 = 0
         /\ Near(Stored(a + x), a + Stored(x), IF x % 2 = 0 THEN 0 ELSE 2)
         /\ Near(Stored(a - x), a - Stored(x), IF x % 2 = 0 THEN 0 ELSE 2)
<1>1. CASE x % 2 = 0
  BY <1>1 DEF Stored, Near
<1>2. CASE x % 2 # 0
  BY <1>2 DEF Stored, Near
<1> QED BY <1>1, <1>2

\* One wallet and its ledger entry agree up to d.
Agrees(w, l, d) ==
  /\ w.balance % 2 = 0 /\ w.earned % 2 = 0 /\ w.spent % 2 = 0
  /\ Near(w.balance, Starting + l.deposits + l.earned - l.spent, d)
  /\ Near(w.earned, l.earned, d)
  /\ Near(w.spent, l.spent, d)

LEMMA PayingAgrees ==
  ASSUME NEW w \in Wallets, NEW l \in Ledgers, NEW x \in Int, NEW d \in Int, NEW e \in Int,
         Agrees(w, l, d), e >= d, x % 2 = 0 \/ e >= d + 2
  PROVE  Agrees(Paying(w, x), [l EXCEPT !.spent = @ + Stored(x)], e)
<1>1. /\ w.balance \in Int /\ w.earned \in Int /\ w.spent \in Int
      /\ l.deposits \in Int /\ l.earned \in Int /\ l.spent \in Int
  BY DEF Wallets, Ledgers
<1>2. /\ w.balance % 2 = 0 /\ w.earned % 2 = 0 /\ w.spent % 2 = 0
      /\ Near(w.balance, Starting + l.deposits + l.earned - l.spent, d)
      /\ Near(w.earned, l.earned, d) /\ Near(w.spent, l.spent, d)
  BY DEF Agrees
<1>3. PICK s \in Int : s = Stored(x)
  BY StoredType
<1>4. PICK m \in Wallets : m = Paying(w, x)
  BY WalletMoves
<1>5. PICK k : k = [l EXCEPT !.spent = @ + s]
  OBVIOUS
<1>6. m.balance = Stored(w.balance - x) /\ m.spent = Stored(w.spent + x) /\ m.earned = w.earned
  BY <1>4, WalletMoves
<1>7. k.spent = l.spent + s /\ k.earned = l.earned /\ k.deposits = l.deposits
  BY <1>5 DEF Ledgers
<1>8. PICK t \in {0, 2} : t = IF x % 2 = 0 THEN 0 ELSE 2
  OBVIOUS
<1>9. m.balance % 2 = 0 /\ Near(m.balance, w.balance - s, t)
  <2>1. PICK a \in Int : a = w.balance /\ a % 2 = 0
    BY <1>1, <1>2
  <2>2. Stored(a - x) % 2 = 0 /\ Near(Stored(a - x), a - s, t)
    BY <1>3, <1>8, <2>1, StoredSum
  <2> QED BY <1>6, <2>1, <2>2
<1>10. m.spent % 2 = 0 /\ Near(m.spent, w.spent + s, t)
  <2>1. PICK a \in Int : a = w.spent /\ a % 2 = 0
    BY <1>1, <1>2
  <2>2. Stored(a + x) % 2 = 0 /\ Near(Stored(a + x), a + s, t)
    BY <1>3, <1>8, <2>1, StoredSum
  <2> QED BY <1>6, <2>1, <2>2
<1>11. m.balance \in Int /\ m.spent \in Int /\ m.earned \in Int /\ e >= d + t
  BY <1>4, <1>8 DEF Wallets
<1>12. Near(m.balance, Starting + k.deposits + k.earned - k.spent, e)
  <2>1. PICK n \in Int : n = Starting + l.deposits + l.earned - l.spent
    BY <1>1, ConstantTypes
  <2>2. n - d <= w.balance /\ w.balance <= n + d
    BY <1>1, <1>3, <1>8, <1>11, <1>2, <2>1 DEF Near
  <2>3. w.balance - s - t <= m.balance /\ m.balance <= w.balance - s + t
    BY <1>1, <1>3, <1>8, <1>11, <1>9 DEF Near
  <2>4. Starting + k.deposits + k.earned - k.spent = n - s
    BY <1>1, <1>3, <1>7, <2>1, ConstantTypes
  <2>5. n - s - e <= m.balance /\ m.balance <= n - s + e
    BY <1>1, <1>3, <1>8, <1>11, <2>1, <2>2, <2>3
  <2> QED BY <2>4, <2>5 DEF Near
<1>13. Near(m.spent, k.spent, e)
  <2>1. l.spent - d <= w.spent /\ w.spent <= l.spent + d
    BY <1>1, <1>3, <1>8, <1>11, <1>2 DEF Near
  <2>2. w.spent + s - t <= m.spent /\ m.spent <= w.spent + s + t
    BY <1>1, <1>3, <1>8, <1>11, <1>10 DEF Near
  <2>3. l.spent + s - e <= m.spent /\ m.spent <= l.spent + s + e
    BY <1>1, <1>3, <1>8, <1>11, <2>1, <2>2
  <2> QED BY <1>1, <1>3, <1>8, <1>11, <1>7, <2>3 DEF Near
<1>14. m.earned % 2 = 0 /\ Near(m.earned, k.earned, e)
  BY <1>1, <1>2, <1>6, <1>7, <1>8, <1>11 DEF Near
<1>15. Agrees(m, k, e)
  BY <1>9, <1>10, <1>12, <1>13, <1>14 DEF Agrees
<1> QED BY <1>3, <1>4, <1>5, <1>15

LEMMA EarningAgrees ==
  ASSUME NEW w \in Wallets, NEW l \in Ledgers, NEW x \in Int, NEW d \in Int, NEW e \in Int,
         Agrees(w, l, d), e >= d, x % 2 = 0 \/ e >= d + 2
  PROVE  Agrees(Earning(w, x), [l EXCEPT !.earned = @ + Stored(x)], e)
<1>1. /\ w.balance \in Int /\ w.earned \in Int /\ w.spent \in Int
      /\ l.deposits \in Int /\ l.earned \in Int /\ l.spent \in Int
  BY DEF Wallets, Ledgers
<1>2. /\ w.balance % 2 = 0 /\ w.earned % 2 = 0 /\ w.spent % 2 = 0
      /\ Near(w.balance, Starting + l.deposits + l.earned - l.spent, d)
      /\ Near(w.earned, l.earned, d) /\ Near(w.spent, l.spent, d)
  BY DEF Agrees
<1>3. PICK s \in Int : s = Stored(x)
  BY StoredType
<1>4. PICK m \in Wallets : m = Earning(w, x)
  BY WalletMoves
<1>5. PICK k : k = [l EXCEPT !.earned = @ + s]
  OBVIOUS
<1>6. m.balance = Stored(w.balance + x) /\ m.earned = Stored(w.earned + x) /\ m.spent = w.spent
  BY <1>4, WalletMoves
<1>7. k.earned = l.earned + s /\ k.spent = l.spent /\ k.deposits = l.deposits
  BY <1>5 DEF Ledgers
<1>8. PICK t \in {0, 2} : t = IF x % 2 = 0 THEN 0 ELSE 2
  OBVIOUS
<1>9. m.balance % 2 = 0 /\ Near(m.balance, w.balance + s, t)
  <2>1. PICK a \in Int : a = w.balance /\ a % 2 = 0
    BY <1>1, <1>2
  <2>2. Stored(a + x) % 2 = 0 /\ Near(Stored(a + x), a + s, t)
    BY <1>3, <1>8, <2>1, StoredSum
  <2> QED BY <1>6, <2>1, <2>2
<1>10. m.earned % 2 = 0 /\ Near(m.earned, w.earned + s, t)
  <2>1. PICK a \in Int : a = w.earned /\ a % 2 = 0
    BY <1>1, <1>2
  <2>2. Stored(a + x) % 2 = 0 /\ Near(Stored(a + x), a + s, t)
    BY <1>3, <1>8, <2>1, StoredSum
  <2> QED BY <1>6, <2>1, <2>2
<1>11. m.balance \in Int /\ m.spent \in Int /\ m.earned \in Int /\ e >= d + t
  BY <1>4, <1>8 DEF Wallets
<1>12. Near(m.balance, Starting + k.deposits + k.earned - k.spent, e)
  <2>1. PICK n \in Int : n = Starting + l.deposits + l.earned - l.spent
    BY <1>1, ConstantTypes
  <2>2. n - d <= w.balance /\ w.balance <= n + d
    BY <1>1, <1>3, <1>8, <1>11, <1>2, <2>1 DEF Near
  <2>3. w.balance + s - t <= m.balance /\ m.balance <= w.balance + s + t
    BY <1>1, <1>3, <1>8, <1>11, <1>9 DEF Near
  <2>4. Starting + k.deposits + k.earned - k.spent = n + s
    BY <1>1, <1>3, <1>7, <2>1, ConstantTypes
  <2>5. n + s - e <= m.balance /\ m.balance <= n + s + e
    BY <1>1, <1>3, <1>8, <1>11, <2>1, <2>2, <2>3
  <2> QED BY <2>4, <2>5 DEF Near
<1>13. Near(m.earned, k.earned, e)
  <2>1. l.earned - d <= w.earned /\ w.earned <= l.earned + d
    BY <1>1, <1>3, <1>8, <1>11, <1>2 DEF Near
  <2>2. w.earned + s - t <= m.earned /\ m.earned <= w.earned + s + t
    BY <1>1, <1>3, <1>8, <1>11, <1>10 DEF Near
  <2>3. l.earned + s - e <= m.earned /\ m.earned <= l.earned + s + e
    BY <1>1, <1>3, <1>8, <1>11, <2>1, <2>2
  <2> QED BY <1>1, <1>3, <1>8, <1>11, <1>7, <2>3 DEF Near
<1>14. m.spent % 2 = 0 /\ Near(m.spent, k.spent, e)
  BY <1>1, <1>2, <1>6, <1>7, <1>8, <1>11 DEF Near
<1>15. Agrees(m, k, e)
  BY <1>9, <1>10, <1>12, <1>13, <1>14 DEF Agrees
<1> QED BY <1>3, <1>4, <1>5, <1>15

LEMMA DepositAgrees ==
  ASSUME NEW w \in Wallets, NEW l \in Ledgers, NEW d \in Int, NEW e \in Int,
         Agrees(w, l, d), e >= d
  PROVE  /\ Agrees(w, l, e)
         /\ Agrees([w EXCEPT !.balance = @ + Amount], [l EXCEPT !.deposits = @ + Amount], e)
<1>1. /\ w.balance \in Int /\ w.earned \in Int /\ w.spent \in Int
      /\ l.deposits \in Int /\ l.earned \in Int /\ l.spent \in Int
  BY DEF Wallets, Ledgers
<1>2. PICK m : m = [w EXCEPT !.balance = @ + Amount]
  OBVIOUS
<1>3. PICK k : k = [l EXCEPT !.deposits = @ + Amount]
  OBVIOUS
<1>4. m.balance = w.balance + Amount /\ m.spent = w.spent /\ m.earned = w.earned
  BY <1>2 DEF Wallets
<1>5. k.deposits = l.deposits + Amount /\ k.spent = l.spent /\ k.earned = l.earned
  BY <1>3 DEF Ledgers
<1>6. m.balance % 2 = 0
  BY <1>1, <1>4, AmountAssumption DEF Agrees
<1>7. Near(w.balance, Starting + l.deposits + l.earned - l.spent, d)
      /\ Near(w.earned, l.earned, d) /\ Near(w.spent, l.spent, d)
  BY DEF Agrees
<1>8. Agrees(w, l, e)
  BY <1>1, <1>7, ConstantTypes DEF Agrees, Near
<1>9. Near(m.balance, Starting + k.deposits + k.earned - k.spent, e)
  BY <1>1, <1>4, <1>5, <1>7, ConstantTypes DEF Near
<1>10. Near(m.earned, k.earned, e) /\ Near(m.spent, k.spent, e)
  BY <1>1, <1>4, <1>5, <1>7 DEF Near
<1>11. Agrees(m, k, e)
  BY <1>4, <1>6, <1>9, <1>10 DEF Agrees
<1> QED BY <1>2, <1>3, <1>8, <1>11

\* Who has been given a discount after a step
LEMMA DiscountedSteps ==
  ASSUME BillingInv, [BillingNext]_vars, NEW u \in Users, NEW q \in Reqs
  PROVE  q \in Discounted(u)' <=>
           \/ q \in Discounted(u)
           \/ u \in Parties(q) /\ step[q] = "discount" /\ step'[q] = "log_hit"
<1>1. Price \in Nat \ {0} /\ Discount \in Nat \ {0} /\ Discount < Price
  BY PriceAssumption DEF Discount
<1>2. /\ q \in Discounted(u) <=> u \in Parties(q) /\ paid[q] = Price - Discount
      /\ q \in Discounted(u)' <=> u \in Parties(q)' /\ paid'[q] = Price - Discount
  BY DEF Discounted
<1>3. /\ step[q] \in {"idle", "debit", "refused"} => paid[q] = 0
      /\ step[q] \in {"discount", "refund"} => paid[q] = Price
  BY DEF BillingInv, PaidSoFar
<1>4. paid[q] \in Int
  BY DEF BillingInv, Types
<1>5. CASE step[q] = "idle"
  <2>1. paid'[q] = paid[q]
    BY <1>5, PaidSteps DEF BillingInv
  <2> QED BY <1>1, <1>2, <1>3, <1>5, <2>1
<1>6. CASE step[q] # "idle"
  <2>1. Parties(q)' = Parties(q)
    BY <1>6, PartiesStay DEF BillingInv, Parties
  <2>2. (paid'[q] = Price - Discount) <=>
          (paid[q] = Price - Discount \/ (step[q] = "discount" /\ step'[q] = "log_hit"))
    BY <1>1, <1>3, <1>4, PaidSteps DEF BillingInv
  <2> QED BY <1>2, <2>1, <2>2
<1> QED BY <1>5, <1>6

\* A step gives at most one request a discount.
LEMMA DiscountedGrows ==
  ASSUME BillingInv, FewDiscounted, [BillingNext]_vars, NEW u \in Users
  PROVE  /\ IsFiniteSet(Discounted(u)')
         /\ RoundedOff(u) \in Nat /\ RoundedOff(u)' \in Nat
         /\ RoundedOff(u)' >= RoundedOff(u)
<1>1. PICK D : D = Discounted(u)
  OBVIOUS
<1>2. PICK E : E = Discounted(u)'
  OBVIOUS
<1>3. PICK r : E \subseteq D \cup {r}
  <2>1. \A q \in Reqs : q \in E <=> q \in D \/ (u \in Parties(q) /\ step[q] = "discount" /\ step'[q] = "log_hit")
    BY <1>1, <1>2, DiscountedSteps
  <2>2. E \subseteq Reqs
    BY <1>2 DEF Discounted
  <2>3. CASE UNCHANGED step
    BY <2>1, <2>2, <2>3
  <2>4. ASSUME NEW q \in Reqs, NEW s, StepTo(q, s) PROVE E \subseteq D \cup {q}
    <3>1. \A k \in Reqs \ {q} : step'[k] = step[k]
      BY <2>4 DEF StepTo, BillingInv, Types
    <3> QED BY <2>1, <2>2, <3>1
  <2>5. UNCHANGED step \/ \E q \in Reqs : \E s : StepTo(q, s)
    BY DEF BillingNext, RequestStep, vars, Start, LockWallet, Debit, DebitRefused, RollBack, Lookup,
           Predict, GiveDiscount, RefundFailure, Answer, Crash, DepositCredits, Delete
  <2> QED BY <2>3, <2>4, <2>5
<1>4. D \subseteq E
  BY <1>1, <1>2, DiscountedSteps DEF Discounted
<1>5. IsFiniteSet(D) /\ IsFiniteSet(E)
  BY <1>1, <1>3, FS_AddElement, FS_Subset DEF FewDiscounted
<1>6. Cardinality(D) \in Nat /\ Cardinality(E) \in Nat /\ Cardinality(D) <= Cardinality(E)
  BY <1>4, <1>5, FS_CardinalityType, FS_Subset
<1> QED BY <1>1, <1>2, <1>5, <1>6 DEF RoundedOff

\* A discount that is rounded is counted at both parties.
LEMMA DiscountIsCounted ==
  ASSUME BillingInv, FewDiscounted, [BillingNext]_vars, NEW r \in Reqs, GiveDiscount(r),
         Discount % 2 # 0, NEW u \in Parties(r)
  PROVE  RoundedOff(u)' >= RoundedOff(u) + 2
<1>1. step[r] = "discount" /\ step'[r] = "log_hit"
  BY DEF GiveDiscount, StepTo, BillingInv, Types
<1>2. u \in Users
  BY <1>1 DEF Parties, BillingInv, TwoParties
<1>3. PICK D : D = Discounted(u)
  OBVIOUS
<1>4. PICK E : E = Discounted(u)'
  OBVIOUS
<1>5. r \notin D
  <2>1. paid[r] = Price /\ Discount \in Nat \ {0}
    BY <1>1, PriceAssumption DEF BillingInv, PaidSoFar, Discount
  <2> QED BY <1>3, <2>1, ConstantTypes DEF Discounted
<1>6. D \cup {r} \subseteq E
  BY <1>1, <1>2, <1>3, <1>4, DiscountedSteps DEF Discounted
<1>7. IsFiniteSet(D) /\ IsFiniteSet(E)
  BY <1>2, <1>3, <1>4, DiscountedGrows DEF FewDiscounted
<1>8. /\ Cardinality(D \cup {r}) = Cardinality(D) + 1 /\ IsFiniteSet(D \cup {r})
      /\ Cardinality(D) \in Nat /\ Cardinality(E) \in Nat
  BY <1>5, <1>7, FS_AddElement, FS_CardinalityType
<1>9. Cardinality(D) + 1 <= Cardinality(E)
  BY <1>6, <1>7, <1>8, FS_Subset
<1> QED BY <1>3, <1>4, <1>8, <1>9 DEF RoundedOff

\* A commit keeps the agreement.
LEMMA CommitKeepsAgreement ==
  ASSUME BillingInv, Agreement, [BillingNext]_vars, NEW r \in Reqs,
         Debit(r) \/ GiveDiscount(r) \/ RefundFailure(r), NEW u \in Users
  PROVE  Agrees(wallet'[u], ledger'[u], RoundedOff(u)')
<1>1. PICK x \in {Price, -Discount, -Price} :
        /\ Commit(r, x) /\ step[r] # "idle"
        /\ x = -Discount \/ x % 2 = 0
        /\ x % 2 # 0 => GiveDiscount(r) /\ Discount % 2 # 0
  <2>1. Price % 2 = 0 /\ (-Price) % 2 = 0 /\ (Discount % 2 = 0 => (-Discount) % 2 = 0)
    BY PriceAssumption DEF Discount
  <2>2. CASE Debit(r)
    BY <2>1, <2>2 DEF Debit
  <2>3. CASE RefundFailure(r)
    BY <2>1, <2>3 DEF RefundFailure
  <2>4. CASE GiveDiscount(r)
    BY <2>1, <2>4 DEF GiveDiscount
  <2> QED BY <2>2, <2>3, <2>4
<1>2. PICK c \in Users, p \in Users : c # p /\ c = party[r].consumer /\ p = party[r].creator
  BY <1>1 DEF BillingInv, TwoParties
<1>3. x \in Int /\ Transfer(c, p, x)
  BY <1>1, <1>2, CommitIsTransfer, ConstantTypes DEF BillingInv
<1>4. /\ wallet'[c] = Paying(wallet[c], x) /\ wallet'[p] = Earning(wallet[p], x)
      /\ ledger'[c] = [ledger[c] EXCEPT !.spent = @ + Stored(x)]
      /\ ledger'[p] = [ledger[p] EXCEPT !.earned = @ + Stored(x)]
      /\ \A v \in Users \ {c, p} : wallet'[v] = wallet[v] /\ ledger'[v] = ledger[v]
  <2>1. c # p /\ Types
    BY <1>2 DEF BillingInv
  <2> QED BY <1>3, <2>1, TransferEffect
<1>5. PICK d \in Nat : d = RoundedOff(u)
  BY DiscountedGrows DEF Agreement
<1>6. PICK e \in Nat : e = RoundedOff(u)'
  BY DiscountedGrows DEF Agreement
<1>7. d \in Int /\ e \in Int /\ e >= d
  BY <1>5, <1>6, DiscountedGrows DEF Agreement
<1>8. u \in {c, p} => x % 2 = 0 \/ e >= d + 2
  BY <1>1, <1>2, <1>5, <1>6, DiscountIsCounted DEF Agreement, Parties
<1>9. Agrees(wallet[u], ledger[u], d) /\ wallet[u] \in Wallets /\ ledger[u] \in Ledgers
  <2>1. Agrees(wallet[u], ledger[u], RoundedOff(u))
    BY Zenon DEF Agreement, Even, WalletsAgreeWithLedger, Agrees
  <2> QED BY <1>5, <2>1 DEF BillingInv, Types
<1>10. CASE u = c
  <2>1. Agrees(Paying(wallet[u], x), [ledger[u] EXCEPT !.spent = @ + Stored(x)], e)
    BY Zenon, <1>3, <1>7, <1>8, <1>9, <1>10, PayingAgrees
  <2> QED BY <1>4, <1>6, <1>10, <2>1
<1>11. CASE u = p
  <2>1. Agrees(Earning(wallet[u], x), [ledger[u] EXCEPT !.earned = @ + Stored(x)], e)
    BY Zenon, <1>3, <1>7, <1>8, <1>9, <1>11, EarningAgrees
  <2> QED BY <1>4, <1>6, <1>11, <2>1
<1>12. CASE u \notin {c, p}
  <2>1. Agrees(wallet[u], ledger[u], e)
    BY Zenon, <1>7, <1>9, DepositAgrees
  <2> QED BY <1>4, <1>6, <1>12, <2>1
<1> QED BY <1>10, <1>11, <1>12

\* The ledger accounts for every credit: what its rows add up to is what every wallet
\* holds, earned and spent, up to the rounding of the discounts; exactly if the
\* price halves to a whole number of 0.0001 credits.
THEOREM LedgerCorrect == BillingSpec => []WalletsAgreeWithLedger
<1>1. BillingInit => Agreement
  <2> SUFFICES ASSUME BillingInit PROVE Agreement
    OBVIOUS
  <2>1. \A u \in Users :
          /\ wallet[u].balance = Starting /\ wallet[u].earned = 0 /\ wallet[u].spent = 0
          /\ ledger[u].deposits = 0 /\ ledger[u].earned = 0 /\ ledger[u].spent = 0
    BY DEF BillingInit, Init
  <2>2. Even
    <3>1. 0 % 2 = 0 /\ Starting % 2 = 0
      BY StartingAssumption
    <3> QED BY <2>1, <3>1 DEF Even
  <2>3. \A u \in Users : Discounted(u) = {}
    <3>1. Price - Discount # 0
      BY PriceAssumption DEF Discount
    <3> QED BY <3>1 DEF BillingInit, Discounted
  <2>4. FewDiscounted /\ \A u \in Users : RoundedOff(u) = 0
    <3>1. IsFiniteSet({}) /\ 2 * Cardinality({}) = 0
      BY FS_EmptySet
    <3> QED BY <2>3, <3>1, Zenon DEF FewDiscounted, RoundedOff
  <2>5. WalletsAgreeWithLedger
    <3>1. Near(Starting, Starting + 0 + 0 - 0, 0) /\ Near(0, 0, 0)
      BY ConstantTypes DEF Near
    <3> QED BY <2>1, <2>4, <3>1 DEF WalletsAgreeWithLedger
  <2> QED BY <2>2, <2>4, <2>5 DEF Agreement
<1>2. BillingInv /\ Agreement /\ [BillingNext]_vars => Agreement'
  <2> SUFFICES ASSUME BillingInv, Agreement, [BillingNext]_vars PROVE Agreement'
    OBVIOUS
  <2>1. FewDiscounted'
    BY DiscountedGrows DEF Agreement, FewDiscounted
  <2>2. ASSUME NEW u \in Users PROVE Agrees(wallet'[u], ledger'[u], RoundedOff(u)')
    <3>1. PICK d \in Int, e \in Int : d = RoundedOff(u) /\ e = RoundedOff(u)' /\ e >= d
      BY DiscountedGrows DEF Agreement
    <3>2. Agrees(wallet[u], ledger[u], d) /\ wallet[u] \in Wallets /\ ledger[u] \in Ledgers
      <4>1. Agrees(wallet[u], ledger[u], RoundedOff(u))
        BY Zenon DEF Agreement, Even, WalletsAgreeWithLedger, Agrees
      <4> QED BY <3>1, <4>1 DEF BillingInv, Types
    <3>3. CASE UNCHANGED <<wallet, ledger>>
      <4>1. Agrees(wallet[u], ledger[u], e)
        BY Zenon, <3>1, <3>2, DepositAgrees
      <4> QED BY <3>1, <3>3, <4>1
    <3>4. ASSUME NEW r \in Reqs, Debit(r) \/ GiveDiscount(r) \/ RefundFailure(r)
          PROVE  Agrees(wallet'[u], ledger'[u], RoundedOff(u)')
      BY <3>4, CommitKeepsAgreement
    <3>5. ASSUME NEW v \in Users, DepositCredits(v)
          PROVE  Agrees(wallet'[u], ledger'[u], RoundedOff(u)')
      <4>1. \/ wallet'[u] = wallet[u] /\ ledger'[u] = ledger[u]
            \/ /\ wallet'[u] = [wallet[u] EXCEPT !.balance = @ + Amount]
               /\ ledger'[u] = [ledger[u] EXCEPT !.deposits = @ + Amount]
        BY <3>5 DEF DepositCredits, Deposit, BillingInv, Types
      <4> QED BY <3>1, <3>2, <4>1, DepositAgrees
    <3> QED BY <3>3, <3>4, <3>5, MoneyMovers
  <2> QED BY <2>1, <2>2 DEF Agreement, Even, WalletsAgreeWithLedger, Agrees
<1>3. Agreement => WalletsAgreeWithLedger
  BY DEF Agreement
<1> QED BY <1>1, <1>2, <1>3, Invariant, PTL DEF BillingSpec

------------------------------------------------------------------------------
(***************************************************************************)
(* Overdrafts: r is why u's wallet may be below zero.                      *)
(***************************************************************************)
GaveBack(r, u) ==
  /\ party[r].creator = u /\ paid[r] < Price
  /\ step[r] \in {"log_hit", "hit", "failed", "error", "crashed"}

LEMMA GaveBackStays ==
  ASSUME Types, TwoParties, [BillingNext]_vars, NEW r \in Reqs, NEW u \in Users, GaveBack(r, u)
  PROVE  GaveBack(r, u)'
<1>1. party'[r] = party[r]
  BY PartiesStay DEF GaveBack
<1>2. step'[r] \in {"log_hit", "hit", "failed", "error", "crashed"} /\ paid'[r] = paid[r]
  BY PaidSteps DEF GaveBack, Ended
<1> QED BY <1>1, <1>2 DEF GaveBack

LEMMA BalanceEffect ==
  ASSUME Types, NEW c \in Users, NEW p \in Users, c # p, NEW amount \in Int,
         Transfer(c, p, amount), NEW u \in Users
  PROVE  wallet'[u].balance = IF u = c THEN Stored(wallet[u].balance - amount)
                              ELSE IF u = p THEN Stored(wallet[u].balance + amount)
                              ELSE wallet[u].balance
<1>1. /\ wallet'[c] = Paying(wallet[c], amount)
      /\ wallet'[p] = Earning(wallet[p], amount)
      /\ \A w \in Users \ {c, p} : wallet'[w] = wallet[w]
  BY DEF Transfer, Types
<1>2. wallet[c] \in Wallets /\ wallet[p] \in Wallets
  BY DEF Types
<1> QED BY <1>1, <1>2, WalletMoves

\* A charge or a deposit overdraws no wallet.
LEMMA ChargesNeedBalance ==
  ASSUME BillingInv, [BillingNext]_vars, NEW u \in Users,
         wallet[u].balance >= 0, wallet'[u].balance < 0
  PROVE  \E r \in Reqs : GaveBack(r, u)'
<1>0. wallet[u] \in Wallets /\ wallet[u].balance \in Int
  BY DEF BillingInv, Types, Wallets
<1>1. ASSUME UNCHANGED wallet PROVE FALSE
  BY <1>0, <1>1
<1>2. ASSUME NEW v \in Users, DepositCredits(v) PROVE FALSE
  <2>1. wallet' = [wallet EXCEPT ![v] = [wallet[v] EXCEPT !.balance = @ + Amount]]
    BY <1>2 DEF DepositCredits, Deposit, BillingInv, Types
  <2>2. wallet'[u] = wallet[u] \/ wallet'[u] = [wallet[u] EXCEPT !.balance = @ + Amount]
    BY <2>1 DEF BillingInv, Types
  <2>3. wallet'[u].balance \in {wallet[u].balance, wallet[u].balance + Amount}
    BY <1>0, <2>2 DEF Wallets
  <2> QED BY <1>0, <2>3, ConstantTypes
<1>3. ASSUME NEW r \in Reqs, Debit(r) \/ GiveDiscount(r) \/ RefundFailure(r)
      PROVE  GaveBack(r, u)'
  <2>1. PICK amount \in {Price, -Discount, -Price} :
          /\ Commit(r, amount)
          /\ \/ step[r] = "debit" /\ amount = Price /\ StepTo(r, "lookup")
             \/ step[r] = "discount" /\ amount = -Discount /\ StepTo(r, "log_hit")
             \/ step[r] = "refund" /\ amount = -Price /\ StepTo(r, "failed")
          /\ UNCHANGED party
    BY <1>3, Commits
  <2>2. PICK c \in Users, p \in Users :
          c # p /\ c = party[r].consumer /\ p = party[r].creator
    BY <2>1 DEF BillingInv, TwoParties
  <2> amount \in Int /\ Types
    BY ConstantTypes DEF BillingInv
  <2>3. Transfer(c, p, amount)
    BY <2>1, <2>2, CommitIsTransfer DEF BillingInv
  <2>4. wallet'[u].balance = IF u = c THEN Stored(wallet[u].balance - amount)
                             ELSE IF u = p THEN Stored(wallet[u].balance + amount)
                             ELSE wallet[u].balance
    BY <2>2, <2>3, BalanceEffect
  <2>5. CASE amount = Price
    <3>1. step[r] = "debit"
      BY <2>1, <2>5, PriceAssumption DEF Discount
    <3>2. copy[r][c] = wallet[c] /\ copy[r][c].balance >= Price
      BY <1>3, <2>2, <3>1 DEF Debit, GiveDiscount, RefundFailure, HasBoth, Parties, BillingInv, RowLocks
    <3>3. u = c => Stored(wallet[u].balance - amount) \in Nat
      BY <1>0, <2>5, <3>2, ConstantTypes DEF Stored
    <3>4. u = p => Stored(wallet[u].balance + amount) \in Nat
      BY <1>0, <2>5, ConstantTypes DEF Stored
    <3> QED BY <1>0, <2>4, <3>3, <3>4
  <2>6. CASE amount # Price
    <3>1. amount \in {-Discount, -Price} /\ Discount > 0 /\ Price > 0
      BY <2>6, PriceAssumption DEF Discount
    <3>2. u # c
      <4>1. u = c => Stored(wallet[u].balance - amount) \in Nat
        BY <1>0, <3>1, ConstantTypes DEF Stored
      <4> QED BY <1>0, <2>4, <4>1
    <3>3. u = p
      BY <1>0, <2>4, <3>2
    <3>4. paid'[r] = paid[r] + amount /\ paid[r] = Price
      BY <2>1, <2>6 DEF Commit, BillingInv, PaidSoFar, Types
    <3>5. paid'[r] < Price
      BY <3>1, <3>4, ConstantTypes
    <3>6. step'[r] \in {"log_hit", "failed"}
      BY <2>1, <2>6 DEF StepTo, BillingInv, Types
    <3> QED BY <2>1, <2>2, <3>3, <3>5, <3>6 DEF GaveBack
  <2> QED BY <2>5, <2>6
<1> QED BY <1>1, <1>2, <1>3, MoneyMovers

\* No charge and no deposit overdraws a wallet: one below zero has an answered
\* request, or one cut off by a crash, whose charge its owner gave back.
THEOREM OverdraftsCorrect == BillingSpec => []OverdrawnByRefundOnly
<1>1. BillingInit => OverdrawnByRefundOnly
  <2> SUFFICES ASSUME BillingInit PROVE OverdrawnByRefundOnly
    OBVIOUS
  <2>1. \A u \in Users : wallet[u].balance = Starting
    BY DEF BillingInit, Init
  <2> QED BY <2>1, ConstantTypes DEF OverdrawnByRefundOnly
<1>2. BillingInv /\ BillingInv' /\ OverdrawnByRefundOnly /\ [BillingNext]_vars => OverdrawnByRefundOnly'
  <2> SUFFICES ASSUME BillingInv, BillingInv', OverdrawnByRefundOnly, [BillingNext]_vars,
                      NEW u \in Users, wallet'[u].balance < 0
               PROVE  \E r \in Reqs : GaveBack(r, u)'
    BY DEF OverdrawnByRefundOnly, GaveBack
  <2>1. CASE wallet[u].balance < 0
    <3>1. PICK r \in Reqs : GaveBack(r, u)
      BY <2>1 DEF OverdrawnByRefundOnly, GaveBack
    <3> QED BY <3>1, GaveBackStays DEF BillingInv
  <2>2. CASE ~(wallet[u].balance < 0)
    <3>1. wallet[u].balance \in Int
      BY DEF BillingInv, Types, Wallets
    <3> QED BY <2>2, <3>1, ChargesNeedBalance
  <2> QED BY <2>1, <2>2
<1> QED BY <1>1, <1>2, Invariant, PTL DEF BillingSpec

------------------------------------------------------------------------------
(***************************************************************************)
(* Deadlock.  Whoever holds a wallet and waits for another waits for one   *)
(* with a larger key.  So the holder that waits for the largest of these   *)
(* keys waits for a transaction that waits for nothing.                    *)
(***************************************************************************)
LockOrder ==
  \A r \in Reqs : \A u \in Users : copy[r][u] # None =>
    /\ u \in Parties(r)
    /\ \A v \in Missing(r) : Pk[u] <= Pk[v]

FewHolders == IsFiniteSet({r \in Reqs : Holding(r)})

\* What a step may do to the locks
LEMMA CopySteps ==
  ASSUME [BillingNext]_vars
  PROVE  \/ UNCHANGED copy
         \/ \E r \in Reqs : Release(r)
         \/ \E r \in Reqs, u \in Users : LockWallet(r, u)
BY DEF BillingNext, RequestStep, vars, Start, Debit, DebitRefused, RollBack, Lookup, Predict,
       GiveDiscount, RefundFailure, Answer, Crash, DepositCredits, Delete, Commit

LEMMA LockOrderHolds ==
  ASSUME Types, TwoParties, RowLocks, LockOrder, [BillingNext]_vars
  PROVE  LockOrder'
<1>1. \A r \in Reqs : step[r] # "idle" => Parties(r)' = Parties(r)
  BY PartiesStay DEF Parties
<1>2. \A r \in Reqs, u \in Users : copy[r][u] # None => Parties(r)' = Parties(r)
  BY <1>1 DEF RowLocks, InTransaction
<1>3. CASE UNCHANGED copy
  BY <1>2, <1>3 DEF LockOrder, Missing
<1>4. ASSUME NEW r \in Reqs, Release(r) PROVE LockOrder'
  <2>1. /\ \A u \in Users : copy'[r][u] = None
        /\ \A q \in Reqs \ {r} : copy'[q] = copy[q]
    BY <1>4 DEF Release, Types
  <2> QED BY <1>2, <2>1 DEF LockOrder, Missing
<1>5. ASSUME NEW r \in Reqs, NEW v \in Users, LockWallet(r, v) PROVE LockOrder'
  <2>1. /\ step[r] # "idle" /\ v \in Parties(r)
        /\ \A w \in Parties(r) : copy[r][w] = None => Pk[v] <= Pk[w]
    BY <1>5 DEF LockWallet, InTransaction
  <2>2. copy' = [copy EXCEPT ![r] = [copy[r] EXCEPT ![v] = wallet[v]]]
    BY <1>5 DEF LockWallet, Types
  <2>3. wallet[v] # None
    BY NoneAssumption DEF Types
  <2>4. \A q \in Reqs, u \in Users :
          copy'[q][u] = IF q = r /\ u = v THEN wallet[v] ELSE copy[q][u]
    BY <2>2 DEF Types
  <2>5. \A q \in Reqs : step[q] # "idle" => Parties(q) \subseteq Users
    BY DEF TwoParties, Parties
  <2>6. Parties(r)' = Parties(r)
    BY <1>1, <2>1
  <2>7. \A w \in Missing(r)' : w \in Missing(r) /\ w # v
    BY <2>1, <2>3, <2>4, <2>5, <2>6 DEF Missing
  <2>8. ASSUME NEW u \in Users, copy'[r][u] # None
        PROVE  u \in Parties(r)' /\ \A w \in Missing(r)' : Pk[u] <= Pk[w]
    BY <2>1, <2>4, <2>6, <2>7, <2>8 DEF LockOrder, Missing
  <2>9. ASSUME NEW q \in Reqs \ {r}, NEW u \in Users, copy'[q][u] # None
        PROVE  u \in Parties(q)' /\ \A w \in Missing(q)' : Pk[u] <= Pk[w]
    <3>1. copy[q][u] # None /\ Parties(q)' = Parties(q)
      BY <1>2, <2>4, <2>9
    <3>2. step[q] # "idle"
      BY <3>1 DEF RowLocks, InTransaction
    <3>3. Missing(q)' = Missing(q)
      BY <2>4, <2>5, <3>1, <3>2 DEF Missing
    <3> QED BY <3>1, <3>3 DEF LockOrder
  <2> QED BY <2>8, <2>9 DEF LockOrder
<1> QED BY <1>3, <1>4, <1>5, CopySteps

LEMMA FewHoldersHold ==
  ASSUME Types, FewHolders, [BillingNext]_vars
  PROVE  FewHolders'
<1>1. PICK H : H = {r \in Reqs : Holding(r)}
  OBVIOUS
<1>2. IsFiniteSet(H)
  BY <1>1 DEF FewHolders
<1>3. ASSUME NEW r \in Reqs, \A q \in Reqs \ {r} : copy'[q] = copy[q] PROVE FewHolders'
  <2>1. {q \in Reqs : Holding(q)'} \subseteq H \cup {r}
    BY <1>1, <1>3 DEF Holding
  <2> QED BY <1>2, <2>1, FS_AddElement, FS_Subset DEF FewHolders
<1>4. CASE UNCHANGED copy
  BY <1>4 DEF FewHolders, Holding
<1>5. ASSUME NEW r \in Reqs, Release(r) PROVE FewHolders'
  BY <1>3, <1>5 DEF Release, Types
<1>6. ASSUME NEW r \in Reqs, NEW v \in Users, LockWallet(r, v) PROVE FewHolders'
  BY <1>3, <1>6 DEF LockWallet, Types
<1> QED BY <1>4, <1>5, <1>6, CopySteps

\* A finite set of numbers has a largest.
LEMMA LargestExists ==
  ASSUME NEW S, S \subseteq Nat, IsFiniteSet(S), S # {}
  PROVE  \E x \in S : \A y \in S : y <= x
<1>1. PICK above : above = [x \in S |-> {y \in S : y > x}]
  OBVIOUS
<1>2. PICK tops : tops = {above[x] : x \in S}
  OBVIOUS
<1>3. tops \subseteq FiniteSubsetsOf(S) /\ tops # {}
  <2>1. \A x \in S : above[x] \subseteq S
    BY <1>1
  <2>2. \A T \in SUBSET S : IsFiniteSet(T)
    BY FS_Subset
  <2> QED BY <1>2, <2>1, <2>2 DEF FiniteSubsetsOf
<1>4. PICK T \in tops : \A U \in tops : ~(<<U, T>> \in StrictSubsetOrdering(S))
  BY <1>3, FS_StrictSubsetOrderingWellFounded, WFMin
<1>5. PICK x \in S : T = above[x]
  BY <1>2, <1>4
<1>6. ASSUME NEW y \in S, y > x PROVE FALSE
  <2>1. x \in Nat /\ y \in Nat /\ \A z \in S : z \in Nat
    OBVIOUS
  <2>2. above[y] \subseteq above[x] /\ y \in above[x] /\ y \notin above[y]
    <3>1. above[x] = {z \in S : z > x} /\ above[y] = {z \in S : z > y}
      BY <1>1, <1>6
    <3>2. x \in Int /\ y \in Int /\ \A z \in S : z \in Int
      BY <2>1
    <3>3. \A z \in S : z > y => z > x
      BY <1>6, <3>2
    <3>4. ~(y > y)
      BY <3>2
    <3> QED BY <1>6, <3>1, <3>3, <3>4
  <2>3. above[y] \in tops /\ above[x] \subseteq S
    BY <1>1, <1>2
  <2>4. <<above[y], above[x]>> \in StrictSubsetOrdering(S)
    BY <2>2, <2>3 DEF StrictSubsetOrdering
  <2> QED BY <1>4, <1>5, <2>3, <2>4
<1>7. \A y \in S : x \in Int /\ y \in Int /\ ~(y > x)
  BY <1>6
<1> QED BY <1>7

LEMMA OrderedLocksAreFree ==
  ASSUME Types, TwoParties, RowLocks, LockOrder, FewHolders
  PROVE  SomeHolderGoesOn
<1> SUFFICES ASSUME \E r \in Reqs : Holding(r),
                    \A r \in Reqs : Holding(r) =>
                      \E u \in Missing(r), q \in Reqs : copy[q][u] # None
             PROVE  FALSE
  BY DEF SomeHolderGoesOn
<1>1. PICK H : H = {r \in Reqs : Holding(r)}
  OBVIOUS
<1>2. PICK wants : wants = [r \in H |-> CHOOSE u \in Missing(r) : \E q \in Reqs : copy[q][u] # None]
  OBVIOUS
<1>3. ASSUME NEW r \in H
      PROVE  wants[r] \in Missing(r) /\ wants[r] \in Users /\ \E q \in Reqs : copy[q][wants[r]] # None
  <2>1. r \in Reqs /\ Holding(r)
    BY <1>1
  <2>2. wants[r] \in Missing(r) /\ \E q \in Reqs : copy[q][wants[r]] # None
    BY <1>2, <2>1
  <2>3. step[r] # "idle"
    BY <2>1 DEF Holding, RowLocks, InTransaction
  <2> QED BY <2>1, <2>2, <2>3 DEF Missing, Parties, TwoParties
<1>4. PICK key : key = [r \in H |-> Pk[wants[r]]]
  OBVIOUS
<1>5. PICK S : S = {key[r] : r \in H}
  OBVIOUS
<1>6. S \subseteq Nat /\ S # {} /\ IsFiniteSet(S)
  <2>1. S \subseteq Nat /\ S # {}
    BY <1>1, <1>3, <1>4, <1>5, PkAssumption
  <2>2. IsFiniteSet(H)
    BY <1>1 DEF FewHolders
  <2>3. IsFiniteSet(S)
    <3>1. key \in Surjection(H, S)
      BY <1>4, <1>5 DEF Surjection
    <3> QED BY <2>2, <3>1, FS_Surjection
  <2> QED BY <2>1, <2>3
<1>7. PICK r \in H : \A s \in H : key[s] <= key[r]
  BY <1>5, <1>6, LargestExists
<1>8. PICK s \in Reqs : copy[s][wants[r]] # None
  BY <1>3
<1>9. s \in H
  BY <1>1, <1>3, <1>8 DEF Holding
<1>10. Pk[wants[r]] <= Pk[wants[s]] /\ wants[r] # wants[s]
  BY <1>3, <1>8, <1>9 DEF LockOrder, Missing
<1>11. Pk[wants[s]] <= Pk[wants[r]]
  BY <1>4, <1>7, <1>9
<1> QED BY <1>3, <1>9, <1>10, <1>11, PkAssumption

\* No number of requests, in whatever order they lock their two wallets' rows, ever
\* wait for each other in a circle.
THEOREM WaitingEnds == BillingSpec => []SomeHolderGoesOn
<1>1. BillingInit => LockOrder /\ FewHolders
  <2> SUFFICES ASSUME BillingInit PROVE LockOrder /\ FewHolders
    OBVIOUS
  <2>1. \A r \in Reqs, u \in Users : copy[r][u] = None
    BY DEF BillingInit
  <2>2. {r \in Reqs : Holding(r)} = {}
    BY <2>1 DEF Holding
  <2> QED BY <2>1, <2>2, FS_EmptySet DEF LockOrder, FewHolders
<1>2. BillingInv /\ LockOrder /\ FewHolders /\ [BillingNext]_vars => LockOrder' /\ FewHolders'
  BY LockOrderHolds, FewHoldersHold DEF BillingInv
<1>3. BillingInv /\ LockOrder /\ FewHolders => SomeHolderGoesOn
  BY OrderedLocksAreFree DEF BillingInv
<1> QED BY <1>1, <1>2, <1>3, Invariant, PTL DEF BillingSpec
=============================================================================
