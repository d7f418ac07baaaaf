SPECIFICATION Spec
CONSTANTS
  Column = {x}
  Value = {v1, v2}
  Gone = Gone
  Omitted = Omitted
  Id = {i1, i2}
  Invalid <- NoContents
  AppendOnly <- NoIds
  HookIds <- NoIds
  GcBeyond = 0
  Device = {d1, d2}
  Isolated = TRUE
  MaxPushes = 3
  MaxPrunings = 1
SYMMETRY Symmetric
INVARIANT Consistent
PROPERTY NoBlindOverwrite
