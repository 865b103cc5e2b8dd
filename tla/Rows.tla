---------------------------------- MODULE Rows ----------------------------------
(***************************************************************************)
(* internal/execution/rows.go: the rows of one query on their way into a   *)
(* response.  The driver delivers rows 1 .. total one by one, and may fail *)
(* at any of them: a lost connection, the deadline, a value that cannot be *)
(* scanned.  The response says `truncated` when it leaves rows out.        *)
(***************************************************************************)
EXTENDS Integers, Sequences

CONSTANTS
    Limits,             \* row limits an executor may be made with
    DefaultMaxRows,     \* the limit in place of one that is not positive
    MaxTotal            \* bound on the rows a query may produce

ASSUME RowsAssumption ==
    /\ Limits \subseteq Int
    /\ DefaultMaxRows \in Nat \ {0}
    /\ MaxTotal \in Nat

VARIABLES
    limit,      \* Executor.maxRows
    total,      \* the rows of the result set
    read,       \* how many the driver has delivered
    rows,       \* result.Rows, each row given by its place in the result set
    truncated,
    status      \* "reading", "checking" rows.Err, "ok" or "failed"

vars == <<limit, total, read, rows, truncated, status>>

\* Mutant: a limit that was never set is used as it is.
UnsetLimitIsKept(n) == n

\* The limit of the executor; NewExecutor has the same default.
effectiveMaxRows(n) == IF n <= 0 THEN DefaultMaxRows ELSE n

Init ==
    /\ limit \in {effectiveMaxRows(n) : n \in Limits}
    /\ total \in 0 .. MaxTotal
    /\ read = 0
    /\ rows = <<>>
    /\ truncated = FALSE
    /\ status = "reading"

\* Mutant: the limit is compared one row late.
OneRowTooMany ==
    /\ status = "reading" /\ read < total
    /\ read' = read + 1
    /\ IF Len(rows) > limit
       THEN truncated' = TRUE /\ status' = "checking" /\ UNCHANGED rows
       ELSE rows' = Append(rows, read') /\ UNCHANGED <<truncated, status>>
    /\ UNCHANGED <<limit, total>>

\* rows.Next delivers a row: it is kept, or it is the one too many.
NextRow ==
    /\ status = "reading" /\ read < total
    /\ read' = read + 1
    /\ IF Len(rows) = limit
       THEN truncated' = TRUE /\ status' = "checking" /\ UNCHANGED rows
       ELSE rows' = Append(rows, read') /\ UNCHANGED <<truncated, status>>
    /\ UNCHANGED <<limit, total>>

\* rows.Next returns false after the last row.
LastRow ==
    /\ status = "reading" /\ read = total
    /\ status' = "checking"
    /\ UNCHANGED <<limit, total, read, rows, truncated>>

\* Mutant: rows.Next returned false, and rows.Err is not asked.
StopsQuietly ==
    /\ status \in {"reading", "checking"}
    /\ status' = "ok"
    /\ UNCHANGED <<limit, total, read, rows, truncated>>

\* Scan fails, or rows.Next returns false because of an error that rows.Err
\* reports: the response has no rows at all.
Break ==
    /\ status \in {"reading", "checking"}
    /\ status' = "failed"
    /\ rows' = <<>> /\ truncated' = FALSE
    /\ UNCHANGED <<limit, total, read>>

Respond ==
    /\ status = "checking"
    /\ status' = "ok"
    /\ UNCHANGED <<limit, total, read, rows, truncated>>

Next == NextRow \/ LastRow \/ Break \/ Respond

Spec == Init /\ [][Next]_vars

-----------------------------------------------------------------------------
\* What the fields of the model hold.
TypeOK ==
    /\ limit \in Nat \ {0}
    /\ total \in 0 .. MaxTotal
    /\ read \in 0 .. total
    /\ rows \in Seq(Nat)
    /\ truncated \in BOOLEAN
    /\ status \in {"reading", "checking", "ok", "failed"}

\* A response never has more rows than the limit, and has the first rows of the
\* result set in their order.
FirstRowsOnly ==
    /\ Len(rows) <= limit
    /\ \A i \in 1 .. Len(rows) : rows[i] = i

\* A response that is not truncated has every row: no error, no boundary of the
\* limit makes a part of the result look like the whole.
CompleteUnlessTruncated ==
    status = "ok" => (truncated <=> Len(rows) < total)
=============================================================================
