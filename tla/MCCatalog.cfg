\* Two calls of the structured tools and one of describe_table.
SPECIFICATION Spec
CONSTANTS
    Calls = {c1, c2}
    Readers = {r1}
    Works <- MCWorks
    NoWork = NoWork
    NoRequest = NoRequest
    IntegerWidths = TRUE
    TimestampDefaults = TRUE
    Identifiers <- MCIdentifiers
    Databases <- MCDatabases
    Requests <- MCRequests
INVARIANTS
    TypeOK
    OnlyIdentifiers
    CopiedOnce
    CopyAsAsked
    DescribedAsCreated
    DescribedAsStored
\* Each call is made once: the system may stop.
CHECK_DEADLOCK FALSE
