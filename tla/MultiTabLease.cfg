\* Is a run that outlasts its lease harmless, as docs/multi-tab.md says?
SPECIFICATION Spec
CONSTANTS
  Column = {"x"}
  Value = {0, 1}
  Gone = Gone
  Omitted = Omitted
  Id = {"i1"}
  Invalid <- NoContents
  AppendOnly <- NoIds
  HookIds <- NoIds
  GcBeyond = 0
  Tabs = {"t1", "t2"}
  Retries = 2
  MaxWrites = 2
  MaxRemote = 1
  MaxExpiries = 1
  MaxFaults = 1
INVARIANT NoCorruption
