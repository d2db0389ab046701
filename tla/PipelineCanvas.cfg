CONSTANTS
  a1 = a1
  a2 = a2
  c1 = c1
  c2 = c2
  worker = worker
  request = request
  MaxRows = 3
  Customer = {c1, c2}
  Account = {a1, a2}
  CustomerOf <- MCCustomerOf
  AccountOf <- MCAccountOf
  Declared = {}
  Refused = {}
  Drain = {worker, request}
  Worker = {worker}
  Scope <- MCScope
  Limit <- MCLimitTwo
  Faults = {}
  MaxFaults = 0

SPECIFICATION Spec
INVARIANT CanvasCurrent

CHECK_DEADLOCK FALSE
