CONSTANTS
  a1 = a1
  a2 = a2
  c1 = c1
  c2 = c2
  worker = worker
  request = request
  MaxRows = 2
  Customer = {c1, c2}
  Account = {a1, a2}
  CustomerOf <- MCCustomerOf
  AccountOf <- MCAccountOf
  Declared = {}
  Refused = {}
  Drain = {worker}
  Worker = {worker}
  Scope <- MCScope
  Limit <- MCLimitTwo
  Faults = {"crash"}
  MaxFaults = 1

SPECIFICATION FairSpec
PROPERTY BecomesEvidence

CHECK_DEADLOCK FALSE
