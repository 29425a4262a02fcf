CONSTANTS
  Nodes = {n1, n2}
  NoNode = NoNode
  UnknownNode = UnknownNode
  NoCopy = NoCopy
  None = None
  TimeoutMsg = TimeoutMsg
  Msgs = {m1}
  Empty = Empty
  StateTokens <- MCStateTokens
  InitialState <- MCInitialState
  OutputState <- MCOutputState
  Timeout = 1
  MaxReports = 3
  MaxSignals = 1
SPECIFICATION FairSpec
INVARIANT NoOrphanedCopies
