CONSTANTS
  k1 = k1
  k2 = k2
  nokey = nokey
  hook = hook
  hook2 = hook2
  person = person
  person2 = person2
  engine = engine
  engine2 = engine2
  Key = {k1, k2}
  NoKey = nokey
  Evaluator = {hook, hook2}
  Approver = {person}
  Reporter = {engine}
  Crashes = FALSE
  MaxFlips = 0

SPECIFICATION Spec
INVARIANT OneOpen

CHECK_DEADLOCK FALSE
