\* Two pages, three requests, two faults.
SPECIFICATION FairSpec
CONSTANTS
  Tabs <- TwoTabs
  Storage <- MixedKinds
  Candidates = 8
  MaxRequests = 3
  MaxFaults = 2
  EndlessStalls = FALSE
INVARIANTS AnsweredOnce HeldStaysOpen
PROPERTIES ServesInOrder NothingHangs
\* The pages need not ask for anything more.
CHECK_DEADLOCK FALSE
