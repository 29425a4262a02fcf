CONSTANTS
  Nodes = {n1, n2}
  Msgs = {m1}
  None = None
  TimeoutMsg = TimeoutMsg
  StateTokens = {Started, Completed}
  PriorStates = {Completed}
  Expected = Completed
  Timeout = 1
SPECIFICATION Spec
INVARIANT FreshConvergence
