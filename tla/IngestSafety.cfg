CONSTANTS
  lane1 = lane1
  lane2 = lane2
  id1 = id1
  noid = noid
  text1 = text1
  text2 = text2
  Lane = {lane1, lane2}
  SignalId = {id1}
  NoId = noid
  Text = {text1}
  Moments = {0, 1, 2, 3, 4}
  Window = 1
  MaxRows = 3

SPECIFICATION Spec
INVARIANT IdOnce
INVARIANT DropsAreCovered
INVARIANT OneInWindow

CHECK_DEADLOCK FALSE
