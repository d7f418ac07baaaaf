SPECIFICATION ControllerFairSpec
CONSTANTS
  Call = {c1, c2}
  ListenerCalls <- CallBack
  MaxTriggers = 3
CHECK_DEADLOCK FALSE
INVARIANTS
  Bookkeeping
  CallsCovered
  DisposedAborts
PROPERTIES
  CallsResolve
  WritesPickedUp
