CONSTANTS
  MaxRecords = 3
SPECIFICATION FairSpec
INVARIANT TypeOK
INVARIANT NoLinkLeak
INVARIANT EventsFaithful
PROPERTY Drained
PROPERTY ImplementsLifecycle
