CONSTANTS
  None = None
  Healthy = 70
  AtRisk = 50
  sess1 = sess1
  sess2 = sess2
  Session = {sess1, sess2}
  NodeInput <- MCNodeInput
  EdgeInput <- MCEdgeInput
  MaxNodes = 3
  MaxEdges = 3

SPECIFICATION GraphSpec
INVARIANT UnearnedNotRolledUp

CHECK_DEADLOCK FALSE
