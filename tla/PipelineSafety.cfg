CONSTANTS
  a1 = a1
  a2 = a2
  c1 = c1
  c2 = c2
  worker = worker
  request = request
  MaxRows = 3
  Customer = {c1, c2}
  Account = {a1, a2}
  CustomerOf <- MCCustomerOf
  AccountOf <- MCAccountOf
  Declared = {3}
  Refused = {}
  Drain = {worker, request}
  Worker = {worker}
  Scope <- MCScope
  Limit <- MCLimitTwo
  Faults = {"llm", "row", "handler", "build", "crash"}
  MaxFaults = 2

SPECIFICATION Spec
INVARIANT AtMostOnce
INVARIANT ClaimDiscipline
INVARIANT OwnEvidenceShown
PROPERTY NodeKept
PROPERTY ImplementsEvidence

CHECK_DEADLOCK FALSE
