CONSTANTS
    Null = Null
    owners = owners
    projects = projects
    tasks = tasks
    Associations <- MCAssociations
    TableIds <- MCTableIds
    Storages <- MCStorages
    Observed <- MCObserved
    Describe <- MCDescribe
    Asks <- MCAsks
    Fetches <- MCFetches
    Counts <- MCCounts
    Vals <- MCVals
    Refs <- MCRefs
    Unknown <- MCNoneUnknown
    MaxWrites = 2
    MaxExtras = 0
SPECIFICATION Spec
INVARIANT AsIfLocal
CHECK_DEADLOCK FALSE
