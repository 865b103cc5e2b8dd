# mcp-server-for-mysql: verification project

This directory holds TLA+ specifications of the MCP database server in `src/`: a Go
process that lets an MCP client run SQL against configured MySQL and ClickHouse
sources. A call is analysed, previewed and confirmed, and executed under a
deadline, if possible in one transaction. The modules are written from the Go source.
TLC checks them on small instances, TLAPS proves the central ones for every size.

| what | where |
| --- | --- |
| components, state, operations, hard behaviours | section 1 |
| modules, and how they correspond to the code | section 2 |
| runs, bounds, fairness | section 3 |
| proofs | section 4 |
| disagreements between the code and its documents | section 5 |
| what is left out, and what comes next | section 6 |

`PROJECT.json` has the same in machine-readable form: `map` gives the source lines of
every definition, `mutants` a plausible bug for every property of a passing run.

## 1. Inventory of the system

### Components

**Executor** (`internal/execution/executor.go`). State: none of its own between calls,
but each call has a context with a deadline, a position in the loop over its
statements, perhaps a transaction, perhaps a connection of the source's pool.
Operations: `Query`, `ExecutePlan` with its two ways `executeAtomically` (one
transaction) and `executeSequentially`. It is correct when an atomic plan is applied
whole or not at all, a sequential plan stops at its first failure, a reported timeout
can be retried, connections return to the pool and the deadline brings calls back.

**Row collection** (`internal/execution/rows.go`). State of one query: the rows
collected, whether the result was truncated, the driver's position. Correct when the
response never exceeds the limit and says `truncated` exactly when it leaves rows out.

**Confirmation policy** (`internal/execution/policy.go`, `preview.go`). A pure function:
it renders the intent into an envelope, hashes it and decides between *execute*,
*confirmation_required* and *preview_mismatch*. Correct when only what a caller has
seen in a preview can be confirmed and what runs unconfirmed is harmless.

**Tools service** (`internal/tools/service.go`). Keeps no state between calls. It looks up
the source, analyses or builds the SQL, raises the risk, normalises parameters, asks
the policy, and calls the executor. Correct when every path from a tool to the
executor goes through the same decisions.

**SQL analyzers** (`internal/sqlguard`: `analyzer.go`, `mysql.go`, `clickhouse.go`,
`model.go`). Pure: they classify statements as read-only, write, DDL or unsafe, and
estimate the risk. Correct when nothing unsafe is called read-only.

**Statement splitter** (`internal/sqlguard/splitter.go`). A scanner over the characters
of a text: quotes, comments, semicolons, by rules of its own that are the same for both
engines. Correct when it cuts where these rules end a statement, loses nothing and refuses only
comments; whether an engine has the same rules is another question (section 5).

**Structured operation builders** (`internal/operation`). Pure: from a structured request
to the DDL of one engine, after validating identifiers, types and columns. Correct when
every name in a statement is a single identifier and the statements, taking effect one
by one, do what was asked for, also when only some of them do.

**Source registry** (`internal/database/registry.go`). State: the pools by source id.
Operations: open with a check, abort and close what was opened, look up, close.

**Metadata dialects** (`internal/database/mysql.go`, `clickhouse.go`). Queries on
`information_schema` and `system`; the capability flag `AtomicBatches`. Columns and indexes
are read by separate queries. Correct when a description agrees with the tables.

**Configuration** (`internal/config`). Reads the YAML file and the environment at startup;
trims the texts of every source, checks what is required, unique and bounded, and
replaces each DSN reference by the variable it names. Correct when exactly the documented
files start a process and what is listed is what was validated.

**MCP adapter** (`internal/tools/mcp.go`, `input.go`, `response.go`, `format.go`). Decodes
arguments, calls the service, encodes envelopes with an error code.

**Process lifecycle** (`cmd/main.go`). Load, open, serve until the input ends, a signal
arrives or the transport fails; deferred close; `log.Fatalf`.

**Observability** (`internal/observability/logger.go`). One line per call, no state.

### How they interact

The adapter calls the service, concurrently for concurrent requests. The service
calls, in this order, registry, analyzer or builder, policy, executor; an error at one
stage ends the call. Calls share nothing but the connection pools, which belong to
`database/sql`, and the databases behind them. Between the preview of a call and its
confirmation the only link is the hash that the client sends back: the process may
have been restarted with another configuration.

### Hard behaviours

* *Who ends a transaction.* When the context of a transaction ends, a goroutine of
  `database/sql` (`awaitDone`) rolls it back while the call may be sending a
  statement, COMMIT or its own ROLLBACK.
* *Answers that come too late.* A request that was given up is still executed by the
  database, or not. COMMIT and ROLLBACK have no context.
* *Implicit commits.* MySQL commits before DDL, so a batch with DDL must not be
  called atomic.
* *Pools.* A call that held a connection while asking for another would block itself.
* *Preview and confirmation.* Any calls and restarts lie between them, and the engine of
  a source, with it the atomicity of its plans, may change.
* *Risk.* It is put together from the analysis, the tool, the number of statements and
  the atomicity.
* *Startup half done.* Sources opened before the one that fails must be closed, within a
  startup deadline, although a database may not answer.
* *Two statements, no transaction.* `copy_table` creates and fills in separate statements;
  either may fail, or be executed after the call has given up, and the call be repeated.
* *Two queries, no transaction.* A migration runs between the two halves of a description.
* *Characters.* Where a statement ends depends on quotes, escapes and three comment
  styles, at the end of the text on characters that are not there.
* *Boundaries.* A result exactly as long as the row limit; integers beyond `int64`; texts
  and lists of a profile at their limits before and after trimming.

`PROJECT.json` lists each of them under `hazards` with its line.

## 2. Modules

| module | uses | checked by | proofs |
| --- | --- | --- | --- |
| PlanExecution | | through Executor, Service, Catalog | |
| ExecutablePlan | | through Executor and Service | |
| Executor | ExecutablePlan; implements PlanExecution | MCExecutor | ExecutorProofs, ExecutorRefinement |
| Rows | | MCRows | RowsProofs |
| Config | | through Lifecycle | LifecycleProofs |
| Lifecycle | Config | MCLifecycle | LifecycleProofs |
| SqlGuard | | through Service | ServiceProofs |
| Policy | SqlGuard | through Service | ServiceProofs |
| Operation | | through Service and Catalog | CatalogProofs |
| Service | PlanExecution, Policy, ExecutablePlan, Operation | MCService | ServiceProofs |
| Metadata | | through Catalog | CatalogProofs |
| Selection | | through Catalog and Splitter | Recursion |
| Catalog | PlanExecution, Operation, Metadata, Selection | MCCatalog | CatalogProofs |
| Lexemes | | through Splitter | SplitterProofs |
| Splitter | Lexemes, Selection | MCSplitter | SplitterProofs |

**PlanExecution** is the abstract specification: what executing a piece of work promises
to a caller who sees neither connections nor transactions. Work is a number of
statements and whether they are one unit. Effects appear all at once (atomic) or one
by one in order; a call that fails may leave one request behind which takes effect later
or never; an atomic call reports `timeout` only if none of its effects exists or ever
will.

**ExecutablePlan** has the decisions that executor and service share and that must
agree between a preview and an execution: `IsAtomicBatch` and `validateExecutionPlan`.

**Executor** is the detailed specification. A call goes through `pc`: `idle`, `acquire`
(waiting for a pool connection), `ready` (in a transaction, between two requests),
`waiting` (a request is on the wire), `returned`. `ctx` is its context, `next` the loop
index, `holds` the connection. `req` and `wire` are the last request and its fate
(`asked`, `done`, `refused`): the database acts in steps of its own (`ServerExecutes`,
`ServerRefuses`). `pending` and `applied` are what the database holds in the open
transaction and what everybody sees. `outcome` is what the call returns.

| code | actions |
| --- | --- |
| `ExecutePlan` up to the context | `Start`, `Refuse` |
| `db.BeginTx`, `db.ExecContext`, `db.QueryContext` taking a connection | `GetConn`, `DialFails`, `AbandonWait` |
| `executeAtomically` | `BeginAcked`, `SendStatement`, `TxStatementAcked`, `TxStatementRefused`, `SendCommit`, `CommitAcked`, `RollbackAnswered` |
| `executeSequentially`, `Query`, metadata queries | `StatementAcked`, `RequestRefused` |
| the context ends | `Expire`, `Cancel`, `AbandonWait`, `AbandonRequest`, `AbandonTx` |
| network, database, end of the process | `ConnLost`, `ServerExecutes`, `ServerRefuses`, `Halt` |

When the context ends between two requests of a transaction, either the call or
`awaitDone` sends the ROLLBACK: `AbandonTx` and `TxStatementRefused` have both, and the
error may be that of the context or `ErrTxDone`, which `databaseError` reports as
`execution_failure`. A call whose rollback runs in the background has returned and its
connection is still taken.

**Rows** is the loop of `collectRows`, one action per result of `rows.Next`.

**SqlGuard** is the classification over parsed statements: the trees of the vendor
parsers are records with the kind of node and flags for what is in the tree, by place: a locking
clause of the statement or of a branch of a UNION (`lock`) and one in a subquery (`lock_inside`), a
function of the session in a SELECT (`session`) and one in the WITH or ORDER BY of a UNION
(`session_of_union`). `hasUnsafeMySQLSelect` looks at `into`, `lock` and `session`, as the code does.

**Policy** is the envelope, the hash, which is the envelope itself, and `decidePreview`,
with the normalisation of parameters: integers beyond `int64` become `float64`, where
neighbours coincide, and numbers of either type encode alike in the hashed JSON.

**Service** composes them. A call is one step up to its verdict (`Deny`, `Show`,
`Execute`): it reads nothing that another call writes, so the steps inside cannot be
interleaved to any effect. An authorised call continues on PlanExecution (`Progress`).
`Restart` replaces the process and its configuration at any moment. `shown` is the
history of previews and, like `input` and `intent`, exists only in the model. A caller
brings no hash, a forged one, or one that has been shown to anybody.

**Config** is `config.Load`: a text is what it says and whether there is white space around
it, a file its form, its mode and its sources. `Loads` follows the two loops of the code, the
first over sources as written and profiles as trimmed, the second over the environment.

**Lifecycle** is `main` with `Load`, `openRegistry`, `openSource`, `closeSources` and
`Registry.Close`, one action per source and stage, on any file and environment. `ListSources` is
the answer of `list_sources` while it serves; sorting by id is written as what it returns, a
source behind all those with a lower id (`SourcesByID`).

**Operation** has for each request what a builder refuses (`Refusal`) and the statements it
writes (`Built`): records of what they do and to what, with those names that were quoted
and columns as written for each engine. Service takes its plans for structured tools from it.

**Metadata** is what `describe_table` makes of catalogue rows: the columns of either engine, with
nullability taken from the type on ClickHouse (`isClickHouseNullable`, recursive through
`LowCardinality`; a parenthesis matches when as many have opened as closed), and the index scanner
of MySQL, which goes through the rows of one index after the other (`ScanIndex`).

**Selection** has `Selected`, the elements of a sequence at some positions: SelectSeq in a form
that can be proved about.

**Catalog** runs both on one database. Calls the policy has authorised execute their statements as
PlanExecution allows, in time, partly or late (`Run`, `End`); readers describe tables with one
query for the columns and a later one for the indexes (`ReadColumns`, `ReadIndexes`), with any
statement between. What a statement does to the tables is the database's
affair: it is modelled from the meaning the builders rely on and marked external. A type is not
stored as it was written (`StoredType`, `Stored`): MySQL shows BOOLEAN as `tinyint(1)`, older servers
show `int(11)` and `bigint(20)` (`IntegerWidths`) and give a TIMESTAMP a default
(`TimestampDefaults`). MySQL, in strict mode, refuses a scale above 30 and a VARCHAR that does not
fit into a row, which the builder lets through (`Storable`).

**Lexemes** says what texts consist of by the lexical rules of the splitter, over classes of
characters: each lexeme is found whole, by where it ends, without a scanner. It is the reference for
**Splitter**, which is the scanner of `splitSQLStatementGroups` with one action per case of its
switch, and `statementGroupHasCode`. The rules are those of neither engine: in MySQL a backslash
escapes nothing between backticks and `/*! */` is executed; in ClickHouse any two dashes begin a
comment, and a hash does only before a space or `!`. So the properties of the splitter speak of two
scans and the rules they share, and not of what an engine takes the same text for (section 5).

**MCExecutor, MCService, MCRows, MCLifecycle, MCCatalog, MCSplitter** give constants for TLC;
**ExecutorProofs, ExecutorRefinement, RowsProofs, LifecycleProofs, ServiceProofs, SplitterProofs,
CatalogProofs** hold the theorems, **Recursion** the lemmas on recursive functions that the last two
rest on. Definitions with a comment `Mutant:` are not
used by any specification: each is a plausible bug in the definition that follows it,
and replacing that definition makes TLC report the property it is paired with.

## 3. What the runs check

| run | states | what it shows |
| --- | --- | --- |
| `executor` | 398 thousand | two calls with any two of seven jobs: every interleaving implements PlanExecution; `AllOrNothing`, `TimeoutMeansUntouched`, `StopsAtFirstFailure`, `NoHoldAndWait`; the deadline brings every call back except from COMMIT and ROLLBACK (`DeadlineReturnsCalls`), and with a database that answers every connection comes back (`ConnectionsComeBack`) |
| `service_confirmation` | 242 thousand | two calls out of twenty-seven requests, any restarts: `ConfirmedWasReviewed`, `UnconfirmedIsHarmless`, `QueryOnlyReads`, `HalfAppliedOnlyAsReviewed`, `ApprovalStaysValid` |
| `lifecycle` | 9,234 | 1,095 pairs of file and environment, of up to five sources: `StartsAsDocumented`, `ListsWhatIsConfigured`, `ServesCheckedSources`, `NoPoolLeftOpen`, `ClosedStaysClosed`, `StartupEnds` |
| `rows` | 234 | results of up to eight rows, limits from below zero to four: `FirstRowsOnly`, `CompleteUnlessTruncated` |
| `splitter` | 2.6 million | 302 thousand texts: `GroupsTileText`, `CutsAtSeparators`, `PiecesStandAlone`, `RefusesCommentsOnly` |
| `catalog` | 2.6 million | two calls of the structured tools and one `describe_table`, any interleaving and failure: `OnlyIdentifiers`, `CopiedOnce`, `CopyAsAsked`, `DescribedAsCreated`, `DescribedAsStored` |
| `executor_commit_unbounded`, `lifecycle_shutdown`, `service_placeholders`, `service_wide_parameters`, `service_locking_reads`, `catalog_expressions` | until the violation | statements of the documents that the code does not keep, section 5 |

### Bounds

*Executor.* Calls interact only through the pool of a source, and each call is used once.
Two calls on one connection per source give contention, queueing and every overlap of
one call's late request with another call. The jobs have each shape the code
distinguishes: atomic batch, batch that starts with DDL on MySQL, batch on an engine
without transactions, a read of three queries, one parameterised write, a batch with
parameters and a batch with a SELECT (both refused). Longer batches repeat the loop
body; the proofs cover all lengths and any number of calls.

*Service.* Nothing is kept between calls, so a confirmation depends on the one call that
showed its hash and on the configuration at either time: two calls show every such pair.
Three configurations cover a change of mode, a change of engine and a removed source.

*Lifecycle.* Five sources have a first, a last and several in between; what the rules of the
configuration relate are two sources or two items of one list, so one and two sources
have every text and list at, below and beyond its limit, alone and in pairs. The limits are 2
and 3 instead of 80, 500, 20 and 30.

*Rows.* Results shorter than, equal to and longer than each limit; the default is 3 instead
of 100.

*Splitter.* All texts of up to four characters out of eleven classes, and up to eight
characters of those that strings and block comments are made of, seven for line comments: a
string with an escape and a doubled quote, or two comments and two semicolons, fit into
that. The scanner remembers one position and one mode, so longer texts combine what these show.

*Catalog.* Two tables, one with rows, and three more names; two calls are one that copies and
one that repeats or disturbs it, or a reader and a writer with one more of either. Requests have
each operation, each kind of column with and without dimensions, and each way to be refused.
Types of columns have each wrapper of ClickHouse, nested once. The server
shows widths and gives default timestamps, the case with most to get wrong; the proofs cover all four.
Creations that the builder of MySQL accepts and the server refuses are among the requests. A third call adds no new pair;
the proofs about copies cover any number of calls.

### Fairness

The process takes the steps it can take (goroutines are scheduled) and timers fire, so
`Client(c)` and `Expire(c)`, in Lifecycle `Process` and `StartupExpires`, are weakly
fair. Nothing is assumed of databases, network, client or operator. The pool serves
waiting calls in order; weak fairness of the call's own steps is less than that, and no
property needs more. `ConnectionsComeBack` states its hypothesis about the database in
the formula (`DatabaseAnswers`).

Deadlock checking is off where a behaviour ends: each call is made once, a query ends, a
process stops.

## 4. What is proved

All proofs are checked by TLAPS to the last leaf and hold for every value of the constants
that satisfies the named assumptions.

* **ExecutorProofs**, under `ExecutorAssumption` (pools have at least one connection, a
  read consists of read-only statements), for any number of calls, any jobs of any
  length and any `MaxOpenConns`: `Typed`, `AtomicPlans` (`AllOrNothing`),
  `TimedOutPlans` (`TimeoutMeansUntouched`), `OrderedEffects` (`StopsAtFirstFailure`)
  and `NoPoolDeadlock` (`NoHoldAndWait`).
* **ExecutorRefinement**, under the same assumption: `Refinement`, Executor implements
  PlanExecution.
* **RowsProofs**, for any limits and any size of result: `Typed`, `BoundedResponse` and
  `HonestTruncation`.
* **LifecycleProofs**, under `ConfigAssumption` (lengths are natural numbers) and
  `LifecycleAssumption` (files have the form of `Config`), for any files, environments, limits
  and numbers of sources: `Typed`, `CheckedBeforeServing` (`ServesCheckedSources`),
  `AbortReleasesPools` (`NoPoolLeftOpen`), `ClosedForGood` (`ClosedStaysClosed`), `DocumentedStart`
  (`StartsAsDocumented`) and `ListedAsConfigured` (`ListsWhatIsConfigured`).
* **ServiceProofs**, under `ServiceAssumption` (requests and configurations have the form the
  adapter and `config.Load` give them), `SqlGuardAssumption` (the limit on statements is
  positive), `WorkAssumption` and `OperationAssumption`, for any number of calls, any requests and
  any history of restarts: `Typed`, `Reviewing` (`ConfirmedWasReviewed`), `Harmless`
  (`UnconfirmedIsHarmless`), `Reading` (`QueryOnlyReads`), `Approvals` (`ApprovalStaysValid`) and
  `HalfApplied` (`HalfAppliedOnlyAsReviewed`).
* **SplitterProofs**, under `SplitterAssumption` (texts are sequences of classes), for texts of any
  length: `Typed`, `NothingLost` (`GroupsTileText`), `CutsWhereStatementsEnd`
  (`CutsAtSeparators`), `EachPieceIsOneStatement` (`PiecesStandAlone`) and `RefusedForComments`
  (`RefusesCommentsOnly`).
* **CatalogProofs**, under `CatalogAssumption` and `OperationAssumption`, for any calls, requests and
  databases: `Typed`, `RowsCopiedOnce` (`CopiedOnce`), `CopiesAsAsked` (`CopyAsAsked`),
  `NamesValidated` (`OnlyIdentifiers`), `CreatedIsDescribed` (`DescribedAsCreated`) and
  `DescriptionsExact` (`DescribedAsStored`). The assumption says what databases and requests are:
  the tables found are records of columns and indexes and hold rows once at most, an index has a name of its own and lies on columns of
  its table or on expressions, the types of ClickHouse are names with one balanced pair of
  parentheses around everything else (but for those that quote names of values) and say
  whether the column may be null, and its indexes are on expressions; requests belong to
  structured tools and their lists are lists.

*Why `AllOrNothing` needs an invariant.* By itself it is not inductive: it says nothing of
a COMMIT on the wire. `IInv` of ExecutorProofs adds, for each call, `Fresh` (a call not
made has left no trace), `Placed` (where the call is determines what its connection can
carry: BEGIN, COMMIT and ROLLBACK belong to atomic plans, `ready` follows an answer),
`TxEffects` (the transaction holds exactly the statements the loop has passed, so a COMMIT
on the wire carries all of them; effects exist only after an executed COMMIT; a call whose
outcome is a timeout has not sent one) and `SeqEffects` (outside a transaction what is
applied is what the loop has passed). No part relates two calls, so `Frame` disposes of
the others at once and there is one lemma per action, with one step for each part. `IInv`
was model-checked on the instance of the run before it was proved.

*Why the executor refines PlanExecution.* The mapping shows of a call its work, how far the
caller sees it (`idle`, `running`, or the outcome once `pc` is `returned`), its effects, and
whether a request of a returned call may still change data (`Late`: a COMMIT, or a
statement outside a transaction, that was sent and not answered). `Moves` lists what one
call can do in these terms, `MoveIsPlanStep` lifts a move of one call to a step of
PlanExecution, and one lemma per action shows its move: most steps are unseen, every
error path is a `Fail`, `ServerExecutes` publishes the effects of a COMMIT or of a sequential
statement, early or late, and `Halt` is the crash. The invariant `Settled` is added to `IInv`: a
call that has returned has an outcome, one that waits for its ROLLBACK has a failure,
and an executed COMMIT has published the plan.

*Why reviews cannot be forged or outdated.* No hash is computed but from an envelope, and equal
hashes are equal envelopes. The invariant of ServiceProofs adds that every preview shown is that
of its request under the configuration that showed it (`PreviewsTrue`), and what a started call
was decided on (`StartedAsDecided`): it works on its intent, was confirmed with that intent's hash
or is atomic or a single statement, and its effects are those of its first statements. A call
changes its verdict once, so the action properties are about `Execute` alone; `Harmless` is
an argument over the classifiers: a plan of low risk that is not forced high contains no DDL and
no UPDATE or DELETE without WHERE on either engine, and structured tools only ever emit DDL first.

*Why copies are not doubled.* A call executes `CREATE TABLE ... LIKE` before it inserts, and the first
fails if the destination exists. So as long as no table is dropped or renamed, the destination of a
call that has taken effect is its own (`Owned`) and empty until the insertion, which
happens once, in time or late. `Faithful` carries the same through for the copy as a whole.

*Why names, creations and descriptions hold.* Each is an invariant of the tables, preserved by every
statement that the builders can have written. `NamesInv` ties a call to its builder's verdict, so the
statement it executes carries validated names only (`BuiltNames`). `SeenInv` says that a table
touched by one `create_table` alone is `TableOf` its request and was seen by nobody otherwise
except before it was there; `TableShown` computes what is shown of it. `StoredInv` says that every
table, and every table a reader has seen, is `Sound`: its indexes are finitely many, with names of
their own, on columns that it has, and on ClickHouse every type is understood. Dropping columns is the
statement that could break it: it shortens indexes and removes those that become empty
(`DroppedSound`). `TypesUnderstood` follows `isClickHouseNullable` through a type by counting
parentheses, and `IndexScanned` the scanner through the rows: an index is one entry at the end,
begun by its first row and extended by the others, which is why `Mirrors` holds of the result.

*Why pieces are statements.* `Located` relates the scanner to the reference, but for texts with
`/*/`: `Behind` says where the lexeme that the scanner is in ends, what begins behind it are lexemes
of the text, and the separators are those where it has cut and those still ahead. So a group begins
where a lexeme does, and a lexeme is found alike in the group and in the text (`PartLexeme`): a
piece has the lexemes of its part of the text, and no separator among them. `HasCode` shows the
loop of `statementGroupHasCode` equivalent to the existence of a lexeme that is code.

*Induction over data.* A recursive function is some function that satisfies its equation; the proofs
first show that one exists. Module Recursion has this for loops whose position advances (`Loop`,
`Collect`) and for selections (`SelectedSteps`), from the well-foundedness of the natural numbers:
a set of naturals that is not empty has a least element, so a set that has 0 and the successor of
each of its elements has all (`Upward`), and the like from above (`Downward`). These take a set where
the library's induction theorems take a predicate.

*Why documented files start.* The loops compare an item with those before it and a source's
name with those before it; the design speaks of pairs, of trimmed texts and of lengths. The
lemmas of LifecycleProofs show each pair of statements equivalent.

In Rows the invariant adds that while the loop reads it has kept every row delivered
and has set nothing; in Lifecycle that the sources before the current one are checked,
those after it untouched, and that a closing loop still has every pool that is open; in
Splitter that the current group begins at or before the scanner.

*Only model-checked:* the liveness properties (`DeadlineReturnsCalls`, `ConnectionsComeBack`,
`StartupEnds`), which need fairness and ENABLED and are beyond the prover. Every invariant and
every action property that a passing run checks is also a theorem.

## 5. Disagreements

Each is a run that TLC ends with a counterexample, and an entry under `findings`.

* `EveryCallReturns`: the comment on `Executor` says calls cannot consume unbounded time;
  COMMIT and ROLLBACK are sent without a deadline.
* `ShutdownReleasesPools`: the design says that pools are released at shutdown; a signal
  leaves through `log.Fatalf`, which skips the deferred `Close`.
* `ParametersAccepted`: `parameters` are documented for `query` and `execute_sql`; on MySQL
  the SQL that is executed is the parser's rendering, without placeholders.
* `ChangedParametersMismatch`: a changed request is said to be a mismatch; two integers
  beyond `int64` that coincide as `float64` are one request for the hash.
* `ReadsDoNotLock`: the guards are said to fail closed for stateful or locking MySQL expressions;
  a locking clause is looked for in a SELECT and the branches of a UNION, not in subqueries, and a
  function of the session not in the WITH or ORDER BY of a UNION, so `query` runs
  `SELECT * FROM (SELECT id FROM orders FOR UPDATE) t`. `QueryOnlyReads` therefore says nothing of
  locks: it says that `query` runs one SELECT, or the EXPLAIN of one that does not execute it.
* `ExpressionsRemain`: the compatibility design keeps functional index expressions in the
  metadata; of an index on several, the scanner keeps the last.

Not counted as disagreements, since no document says otherwise, but worth knowing: the builder of
MySQL accepts a scale up to 65 and a VARCHAR of 65535, which the server refuses, so the error comes
after the confirmation instead of before the preview (`BeyondServer` in MCCatalog); the splitter
takes a backslash between backticks for an escape and refuses a text that is only `/*! */`, where
MySQL does not: the first joins statements that MySQL would separate, and the parser of the
analyzer then refuses the text; it is not told the engine, so on ClickHouse `SELECT 1 --;SELECT 2`,
one statement with a comment, is planned as two; describe_table mixes the columns of one moment with the indexes of
another when a migration runs between its queries, which `DescribedAsStored` allows; a ClickHouse
column whose `Enum` quotes a parenthesis is described as not nullable although it may be
(`QuotedParenthesis`, excluded from `DescribedAsStored`); the splitter takes `/*/` for a whole
comment (`HasSlashStarSlash`, excluded from its properties); a late insertion of `copy_table` can
double rows if the destination was dropped, or replaced, in the meantime (excluded from
`CopiedOnce`); `MODIFY COLUMN` on MySQL drops the default of the column, which a request cannot
state; names of sources are compared untrimmed, so `orders` and `orders` with a trailing space
are two sources;
arguments that do not decode are answered with an empty `request_id`.

## 6. What is left out, and the plan

Assumptions: SHA-256 is injective; MySQL applies a committed transaction whole and commits
implicitly before DDL; a client learns hashes only from responses.

Not modelled: retries of `database/sql` on broken idle connections (`ErrBadConn` is
returned before a statement has been sent), the queue order of the pool, idle
limits and connection lifetimes, `rows.Close` draining an abandoned result, the tools
`list_tables` and `pool_status` (one read each), logging, the derivation of JSON schemas, the
contents and formats of responses beyond rows, descriptions and sources, the syntax the vendor
parsers accept, the texts of metadata queries, the patterns of identifiers and of environment references.

Next, in this order:

1. *Proofs*: that Service's calls implement PlanExecution, from `Refinement`, for any pool; lemmas on
   `IsAtomicBatch` and `PlanRisk` for readers of Policy.
2. *Adapter*: what a response tells of a plan that was applied in part, once the code reports it.
3. *Service on Executor*: Service already runs on the specification Executor implements; a joint
   instance of both would show contention of confirmed calls for one pool.
4. *Syntax trees*: nested SELECTs with the walk of `hasMySQLConnectionStateFunction` through them,
   in place of the flags by place.
