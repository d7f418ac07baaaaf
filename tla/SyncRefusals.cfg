SPECIFICATION FairSpec
CONSTANTS
  Column = {x}
  Value = {0, 1}
  Gone = Gone
  Omitted = Omitted
  Id = {i1, i2}
  Invalid <- AllOnes
  AppendOnly = {i1}
  HookIds = {i1}
  GcBeyond = 0
  Device = {d1, d2}
  Retries = 2
  FreshIds = FALSE
  FirstApplyCrash = FALSE
  MaxWrites = 2
  MaxFaults = 1
PROPERTIES
  TombstonesStayDead
  EventuallyConverged
