SPECIFICATION Spec
CONSTANTS
  Column = {x, y}
  Value = {v1, v2}
  Gone = Gone
  Omitted = Omitted
  Id = {i1}
  Invalid <- NoContents
  AppendOnly <- NoIds
  HookIds <- NoIds
  GcBeyond = 0
  Device = {d1, d2}
  Retries = 1
  FreshIds = TRUE
  FirstApplyCrash = FALSE
  MaxWrites = 3
  MaxFaults = 1
SYMMETRY Symmetry
INVARIANTS
  TypeOK
  CleanRowsAgree
  CursorServed
PROPERTIES
  NoWriteDropped
  LocalEditsStand
