SPECIFICATION FairSpec
CONSTANTS
  Context <- Tabs
  Block <- WritersAndReader
  Writer <- Writers
  Closer <- Closing
CHECK_DEADLOCK FALSE
INVARIANTS
  WindowsHold
  ClosedQuietly
PROPERTIES
  BlocksAreAtomic
  AcceptedWorkEnds
  CloseResolves
  CachesConverge
