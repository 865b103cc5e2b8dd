\* A silent database keeps a call in COMMIT after its deadline.
SPECIFICATION FairSpec
CONSTANTS
    my = my
    ch = ch
    NoJob = NoJob
    Calls = {c1, c2}
    Sources = {my, ch}
    MaxOpenConns = 1
    Jobs <- MCContenders
PROPERTY
    EveryCallReturns
CHECK_DEADLOCK FALSE
