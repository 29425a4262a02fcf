CONSTANTS
  None = None
  TimeoutMsg = TimeoutMsg
  Empty = Empty
  Expected = Expected
  Nodes = {n1, n2, n3}
  Msgs = {m1, m2}
SPECIFICATION Spec
INVARIANT FeedbackComplete
INVARIANT AggregateSound
