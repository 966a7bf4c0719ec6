------------------------------ MODULE Accounts ------------------------------
(***************************************************************************)
(* What the gateway's two money functions promise: a charge, a refund or a *)
(* deposit changes wallets and ledger in one atomic step.  This is the     *)
(* abstract specification of module Billing.                               *)
(*                                                                         *)
(* Amounts are integers in units of 0.00005 credits, half of the smallest  *)
(* amount a DecimalField(decimal_places=4) column can hold, because the    *)
(* cache-hit discount multiplies a price by Decimal("0.5").                *)
(***************************************************************************)
EXTENDS Integers

CONSTANTS
  Users,
  Price,       \* cost_per_run, a whole number of 0.0001 credits
  Starting,    \* BILLING_STARTING_CREDITS
  Amount       \* the amount of a demo deposit

ASSUME PriceAssumption == Price \in Nat \ {0} /\ Price % 2 = 0
ASSUME StartingAssumption == Starting \in Nat /\ Starting % 2 = 0
ASSUME AmountAssumption == Amount \in Nat \ {0} /\ Amount % 2 = 0

VARIABLES
  wallet,      \* wallet[u]: credit_balance, lifetime_earned, lifetime_spent
  ledger       \* ledger[u]: what the LedgerTransaction rows naming u add up to

Wallets == [balance : Int, earned : Int, spent : Int]
Ledgers == [deposits : Int, earned : Int, spent : Int]

\* effective_cost * Decimal("0.5")
Discount == Price \div 2

\* What PostgreSQL stores in a numeric(12,4) column: ties go away from zero.
Stored(x) == IF x % 2 = 0 THEN x ELSE IF x > 0 THEN x + 1 ELSE x - 1

\* The writes of _debit_credits (amount > 0) and _refund_credits (amount < 0)
\* to the wallets of consumer and creator, given the rows they have read.
Paying(w, amount) ==
  [w EXCEPT !.balance = Stored(@ - amount), !.spent = Stored(@ + amount)]
Earning(w, amount) ==
  [w EXCEPT !.balance = Stored(@ + amount), !.earned = Stored(@ + amount)]

\* The ledger row of the movement, as its consumer and its creator see it.
Book(consumer, creator, amount) ==
  ledger' = [ledger EXCEPT ![consumer].spent = @ + Stored(amount),
                           ![creator].earned = @ + Stored(amount)]

Transfer(consumer, creator, amount) ==
  /\ wallet' = [wallet EXCEPT ![consumer] = Paying(@, amount),
                              ![creator] = Earning(@, amount)]
  /\ Book(consumer, creator, amount)

Charge(consumer, creator) ==
  wallet[consumer].balance >= Price /\ Transfer(consumer, creator, Price)

\* In full after a failure, by half after a cache hit; the creator's balance is
\* not looked at.
Refund(consumer, creator) ==
  \E amount \in {Price, Discount} : Transfer(consumer, creator, -amount)

\* POST /api/billing/deposit/ : row lock, new balance, ledger row.
Deposit(u) ==
  /\ wallet' = [wallet EXCEPT ![u].balance = @ + Amount]
  /\ ledger' = [ledger EXCEPT ![u].deposits = @ + Amount]

Init ==
  /\ wallet = [u \in Users |-> [balance |-> Starting, earned |-> 0, spent |-> 0]]
  /\ ledger = [u \in Users |-> [deposits |-> 0, earned |-> 0, spent |-> 0]]

Next ==
  \/ \E u \in Users : Deposit(u)
  \/ \E c, p \in Users : c # p /\ (Charge(c, p) \/ Refund(c, p))

Spec == Init /\ [][Next]_<<wallet, ledger>>
==============================================================================
