\* A preview of one wide integer confirms its neighbour.
SPECIFICATION Spec
CONSTANTS
    orders = orders
    events = events
    NoWork = NoWork
    NoInput = NoInput
    Identifiers <- MCIdentifiers
    Calls = {c1, c2}
    Sources = {orders, events}
    Works <- MCWorks
    MaxStatements = 2
    Configs <- MCConfigs
    Requests <- MCParameterRequests
INVARIANT
    ChangedParametersMismatch
CHECK_DEADLOCK FALSE
