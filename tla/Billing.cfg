\* Two requests in either direction, deposits, a crash, a deleted model, and fairness.
\* Half of the price is rounded; a user can pay it after a deposit or from earnings,
\* so a refund can find that its creator has spent the credits.
SPECIFICATION BillingLiveSpec
CONSTANTS
  u1 = u1
  u2 = u2
  Users = {u1, u2}
  Reqs = {r1, r2}
  Pk <- PkOrder
  Price = 6
  Starting = 4
  Amount = 2
  MaxDeposits = 2
  MaxFaults = 1
  MaxDeletes = 1
  None = None
INVARIANTS
  BillingTypeOK
  WalletsAgreeWithLedger
  ChargeMatchesOutcome
  OverdrawnByRefundOnly
  SomeHolderGoesOn
PROPERTIES
  AccountsSpec
  EveryRequestEnds
CHECK_DEADLOCK FALSE
