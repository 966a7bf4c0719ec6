\* One request at a price of 0.0003 credits, answered from the cache.
SPECIFICATION BillingSpec
CONSTANTS
  u1 = u1
  u2 = u2
  Users = {u1, u2}
  Reqs = {r1}
  Pk <- PkOrder
  Price = 6
  Starting = 6
  Amount = 2
  MaxDeposits = 0
  MaxFaults = 0
  MaxDeletes = 0
  None = None
INVARIANTS
  LedgerIsExact
CHECK_DEADLOCK FALSE
