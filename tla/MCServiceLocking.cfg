\* Reads with and without locks, on MySQL.
SPECIFICATION Spec
CONSTANTS
    orders = orders
    events = events
    NoWork = NoWork
    NoInput = NoInput
    Identifiers <- MCIdentifiers
    Calls = {c1, c2}
    Sources = {orders, events}
    Works <- MCWorks
    MaxStatements = 2
    Configs <- MCMySQLConfigs
    Requests <- MCLockingRequests
INVARIANT
    ReadsDoNotLock
CHECK_DEADLOCK FALSE
