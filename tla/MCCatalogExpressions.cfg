\* A table of MySQL with a functional index of two parts.
SPECIFICATION Spec
CONSTANTS
    Calls = {c1, c2}
    Readers = {r1}
    Works <- MCWorks
    NoWork = NoWork
    NoRequest = NoRequest
    IntegerWidths = TRUE
    TimestampDefaults = TRUE
    Identifiers <- MCIdentifiers
    Databases <- TwoExpressions
    Requests <- MCRequests
INVARIANT
    ExpressionsRemain
CHECK_DEADLOCK FALSE
