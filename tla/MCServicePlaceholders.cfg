\* A parameter for the one placeholder of a MySQL statement.
SPECIFICATION Spec
CONSTANTS
    orders = orders
    events = events
    NoWork = NoWork
    NoInput = NoInput
    Identifiers <- MCIdentifiers
    Calls = {c1, c2}
    Sources = {orders, events}
    Works <- MCWorks
    MaxStatements = 2
    Configs <- MCConfigs
    Requests <- MCParameterRequests
INVARIANT
    ParametersAccepted
CHECK_DEADLOCK FALSE
