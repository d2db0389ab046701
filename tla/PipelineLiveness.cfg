CONSTANTS
  a1 = a1
  a2 = a2
  c1 = c1
  c2 = c2
  worker = worker
  request = request
  MaxRows = 3
  Customer = {c1, c2}
  Account = {a1, a2}
  CustomerOf <- MCCustomerOf
  AccountOf <- MCAccountOf
  Declared = {3}
  Refused = {1}
  Drain = {worker, request}
  Worker = {worker}
  Scope <- MCScope
  Limit <- MCLimitTwo
  Faults = {"llm", "row", "read", "build"}
  MaxFaults = 1

SPECIFICATION FairSpec
INVARIANT ClaimHeld
PROPERTY BecomesEvidence
PROPERTY ClaimEnds

CHECK_DEADLOCK FALSE
