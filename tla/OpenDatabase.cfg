SPECIFICATION FairSpec
CONSTANTS
  Tabs = {"t1", "t2"}
  Latest = 3
  Oldest = 2
  Attempts = 2
  MaxDeaths = 1
  MaxOpens = 4
INVARIANTS PoolFollowsLock 
PROPERTIES NoSilentReset OpenSettles
CHECK_DEADLOCK FALSE
