CONSTANTS
    Null = Null
    owners = owners
    projects = projects
    tasks = tasks
    Associations <- MCAssociations
    TableIds <- MCTableIds
    Storages <- MCStorages
    Observed <- MCObserved
    Describe <- MCDescribe
    Asks <- MCAsks
    Fetches <- MCFetches
    Counts <- MCCounts
    Vals <- MCVals
    Refs <- MCRefs
    Unknown <- MCUnknown
    MaxWrites = 2
    MaxExtras = 1
SPECIFICATION Spec
INVARIANTS IdentityMap ObserverRight
PROPERTY NeverBackwards
CHECK_DEADLOCK FALSE
