\* Two calls on one connection per source, every kind of job; the deadline fires, the
\* database may stay silent.
SPECIFICATION FairSpec
CONSTANTS
    my = my
    ch = ch
    NoJob = NoJob
    Calls = {c1, c2}
    Sources = {my, ch}
    MaxOpenConns = 1
    Jobs <- MCJobs
INVARIANTS
    TypeOK
    AllOrNothing
    TimeoutMeansUntouched
    StopsAtFirstFailure
    NoHoldAndWait
PROPERTIES
    ImplementsPlanExecution
    DeadlineReturnsCalls
    ConnectionsComeBack
\* Each call is made once: the system stops when all have returned.
CHECK_DEADLOCK FALSE
