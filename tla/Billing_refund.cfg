\* No crash: one request whose model is deleted while the runner works.
SPECIFICATION BillingSpec
CONSTANTS
  u1 = u1
  u2 = u2
  Users = {u1, u2}
  Reqs = {r1}
  Pk <- PkOrder
  Price = 4
  Starting = 4
  Amount = 2
  MaxDeposits = 0
  MaxFaults = 0
  MaxDeletes = 1
  None = None
INVARIANTS
  FailureIsFree
CHECK_DEADLOCK FALSE
