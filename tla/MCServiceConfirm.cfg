\* Two calls, the one that shows a preview and the one that confirms it, and any
\* number of restarts before, between and after.
SPECIFICATION Spec
CONSTANTS
    orders = orders
    events = events
    NoWork = NoWork
    NoInput = NoInput
    Identifiers <- MCIdentifiers
    Calls = {c1, c2}
    Sources = {orders, events}
    Works <- MCWorks
    MaxStatements = 2
    Configs <- MCConfigs
    Requests <- MCRequests
INVARIANTS
    TypeOK
    HalfAppliedOnlyAsReviewed
PROPERTIES
    QueryOnlyReads
    ConfirmedWasReviewed
    UnconfirmedIsHarmless
    ApprovalStaysValid
\* Each call is made once: the system may stop.
CHECK_DEADLOCK FALSE
