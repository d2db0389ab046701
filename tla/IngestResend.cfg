CONSTANTS
  lane1 = lane1
  lane2 = lane2
  id1 = id1
  noid = noid
  text1 = text1
  text2 = text2
  Lane = {lane1}
  SignalId = {}
  NoId = noid
  Text = {text1}
  Moments = {0, 3, 4}
  Window = 1
  MaxRows = 3

SPECIFICATION Spec
INVARIANT ResendIsSafe

CHECK_DEADLOCK FALSE
