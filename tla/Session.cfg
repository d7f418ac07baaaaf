CONSTANTS
    Users = {"alice", "bob"}
    Sessions = {1, 2, 3}
    MaxEpoch = 3
    MaxLeaks = 1
    MaxCloseFails = 1
    MaxTakeovers = 1
SPECIFICATION SessionFairSpec
INVARIANTS
    FileExclusive
    DatabaseIsAlive
PROPERTIES
    CloseFreesFile
    SessionSettles
CHECK_DEADLOCK FALSE
