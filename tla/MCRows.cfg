\* Results around the limit and limits that fall back to the default.
SPECIFICATION Spec
CONSTANTS
    Limits <- MCLimits
    DefaultMaxRows = 3
    MaxTotal = 8
INVARIANTS
    TypeOK
    FirstRowsOnly
    CompleteUnlessTruncated
\* A query ends.
CHECK_DEADLOCK FALSE
