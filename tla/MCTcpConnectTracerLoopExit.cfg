CONSTANTS
  MaxRecords = 2
SPECIFICATION FairSpec
PROPERTY RunLoopExits
