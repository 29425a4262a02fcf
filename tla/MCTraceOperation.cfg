CONSTANTS
  Nodes = {n1, n2, n3}
  Msgs = {m1}
  None = None
  TimeoutMsg = TimeoutMsg
  StateTokens = {Started, Stopped}
  PriorStates = {Started}
  Expected = Stopped
  Timeout = 1
SPECIFICATION Spec
INVARIANT SetReachesAll
INVARIANT FreshConvergence
