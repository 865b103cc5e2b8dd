-------------------------------- MODULE Executor --------------------------------
(***************************************************************************)
(* internal/execution/executor.go running tool calls side by side on the   *)
(* connection pools of internal/database: ExecutePlan, atomically in one   *)
(* MySQL transaction or sequentially, Query, and the metadata queries of   *)
(* the dialects.                                                           *)
(*                                                                         *)
(* Every call has one deadline.  A request is on the wire between the call *)
(* and the database: the database executes or refuses it in a step of its  *)
(* own, which may come after the call has given the request up.  Only      *)
(* Commit and Rollback take no context, so a call waits for their answer   *)
(* whatever its deadline; database/sql rolls a transaction back in the     *)
(* background when its context ends, and the connection stays taken until  *)
(* that answer arrives.                                                    *)
(***************************************************************************)
EXTENDS ExecutablePlan, FiniteSets

CONSTANTS
    Calls,          \* the tool calls of one behaviour, each used once
    MaxOpenConns,   \* connections one source's pool may hold open
    Jobs,           \* the work calls may carry
    NoJob           \* what an unused call carries

ASSUME ExecutorAssumption ==
    /\ MaxOpenConns \in Nat \ {0}
    /\ Jobs \subseteq JobType
    /\ NoJob \notin Jobs
    /\ \A j \in Jobs : j.tool = "read" =>
          /\ j.stmts # <<>>
          /\ \A i \in DOMAIN j.stmts : j.stmts[i] = "read_only"

VARIABLES
    up,         \* the process runs
    job,        \* what each call executes
    pc,         \* where the call's goroutine is
    ctx,        \* the call's context
    next,       \* index of the statement to run, or on the wire
    holds,      \* the call, or its transaction's rollback, has a pool connection
    req,        \* the last request put on that connection
    wire,       \* and how far it got
    pending,    \* statements executed in the call's open transaction
    applied,    \* statements whose effect the database shows to everyone
    outcome     \* what the call returns, or will once its rollback is answered

client == <<job, pc, ctx, next, holds>>
server == <<pending, applied>>
vars == <<up, job, pc, ctx, next, holds, req, wire, pending, applied, outcome>>

Outcomes == {"ok", "timeout", "execution_failure", "lost"}

\* databaseError of the context's error.
ctxError(c) == IF ctx[c] = "expired" THEN "timeout" ELSE "execution_failure"

-----------------------------------------------------------------------------
Init ==
    /\ up = TRUE
    /\ job = [c \in Calls |-> NoJob]
    /\ pc = [c \in Calls |-> "idle"]
    /\ ctx = [c \in Calls |-> "live"]
    /\ next = [c \in Calls |-> 1]
    /\ holds = [c \in Calls |-> FALSE]
    /\ req = [c \in Calls |-> "none"]
    /\ wire = [c \in Calls |-> "none"]
    /\ pending = [c \in Calls |-> {}]
    /\ applied = [c \in Calls |-> {}]
    /\ outcome = [c \in Calls |-> "none"]

\* Put a request on the connection of c and wait for its answer.
Ask(c, r) ==
    /\ pc' = [pc EXCEPT ![c] = "waiting"]
    /\ req' = [req EXCEPT ![c] = r]
    /\ wire' = [wire EXCEPT ![c] = "asked"]

\* awaitDone of database/sql sends the ROLLBACK: the call does not wait for it.
RollbackInBackground(c) ==
    /\ pc' = [pc EXCEPT ![c] = "returned"]
    /\ req' = [req EXCEPT ![c] = "rollback"]
    /\ wire' = [wire EXCEPT ![c] = "asked"]

Return(c, how) ==
    /\ pc' = [pc EXCEPT ![c] = "returned"]
    /\ outcome' = [outcome EXCEPT ![c] = how]

Release(c) == holds' = [holds EXCEPT ![c] = FALSE]

-----------------------------------------------------------------------------
(* A call begins: Query and the dialects go straight to the database,      *)
(* ExecutePlan validates first.                                            *)

Start(c, j) ==
    /\ up /\ pc[c] = "idle"
    /\ Executable(j)
    /\ job' = [job EXCEPT ![c] = j]
    /\ pc' = [pc EXCEPT ![c] = "acquire"]
    /\ UNCHANGED <<up, ctx, next, holds, req, wire, server, outcome>>

Refuse(c, j) ==
    /\ up /\ pc[c] = "idle"
    /\ ~Executable(j)
    /\ job' = [job EXCEPT ![c] = j]
    /\ Return(c, "execution_failure")
    /\ UNCHANGED <<up, ctx, next, holds, req, wire, server>>

\* The pool hands out a connection and the first request goes out on it:
\* BEGIN, or the next statement of a sequential plan.
GetConn(c) ==
    /\ pc[c] = "acquire" /\ ctx[c] = "live"
    /\ Cardinality({d \in Calls : holds[d] /\ job[d].source = job[c].source}) < MaxOpenConns
    /\ holds' = [holds EXCEPT ![c] = TRUE]
    /\ Ask(c, IF IsAtomicBatch(job[c]) THEN "begin" ELSE "stmt")
    /\ UNCHANGED <<up, job, ctx, next, server, outcome>>

\* No connection to the database can be opened.
DialFails(c) ==
    /\ pc[c] = "acquire"
    /\ Return(c, "execution_failure")
    /\ UNCHANGED <<up, job, ctx, next, holds, req, wire, server>>

-----------------------------------------------------------------------------
(* executeAtomically                                                       *)

BeginAcked(c) ==
    /\ pc[c] = "waiting" /\ req[c] = "begin" /\ wire[c] = "done"
    /\ pc' = [pc EXCEPT ![c] = "ready"]
    /\ UNCHANGED <<up, job, ctx, next, holds, req, wire, server, outcome>>

SendStatement(c) ==
    /\ pc[c] = "ready" /\ ctx[c] = "live"
    /\ next[c] <= Size(job[c])
    /\ Ask(c, "stmt")
    /\ UNCHANGED <<up, job, ctx, next, holds, server, outcome>>

\* Mutant: the loop index advances twice.
TxStatementSkips(c) ==
    /\ pc[c] = "waiting" /\ req[c] = "stmt" /\ wire[c] = "done"
    /\ IsAtomicBatch(job[c])
    /\ next' = [next EXCEPT ![c] = @ + 2]
    /\ pc' = [pc EXCEPT ![c] = "ready"]
    /\ UNCHANGED <<up, job, ctx, holds, req, wire, server, outcome>>

\* Mutant: the next statement runs on db, not on tx.
TxStatementOnPool(c) ==
    /\ pc[c] = "waiting" /\ req[c] = "stmt" /\ wire[c] = "done"
    /\ IsAtomicBatch(job[c])
    /\ next' = [next EXCEPT ![c] = @ + 1]
    /\ pc' = [pc EXCEPT ![c] = IF next[c] < Size(job[c]) THEN "acquire" ELSE "ready"]
    /\ UNCHANGED <<up, job, ctx, holds, req, wire, server, outcome>>

TxStatementAcked(c) ==
    /\ pc[c] = "waiting" /\ req[c] = "stmt" /\ wire[c] = "done"
    /\ IsAtomicBatch(job[c])
    /\ next' = [next EXCEPT ![c] = @ + 1]
    /\ pc' = [pc EXCEPT ![c] = "ready"]
    /\ UNCHANGED <<up, job, ctx, holds, req, wire, server, outcome>>

\* Mutant: a failed statement does not stop the commit.
CommitRegardless(c) ==
    /\ pc[c] = "waiting" /\ req[c] = "stmt" /\ wire[c] = "refused"
    /\ IsAtomicBatch(job[c])
    /\ Ask(c, "commit")
    /\ UNCHANGED <<up, job, ctx, next, holds, server, outcome>>

\* Mutant: returns with the transaction open and its context not cancelled.
ReturnWithoutRollback(c) ==
    /\ pc[c] = "waiting" /\ req[c] = "stmt" /\ wire[c] = "refused"
    /\ IsAtomicBatch(job[c])
    /\ Return(c, "execution_failure")
    /\ UNCHANGED <<up, job, ctx, next, holds, req, wire, server>>

\* tx.Rollback by the call itself, or by awaitDone when the context ended.
TxStatementRefused(c) ==
    /\ pc[c] = "waiting" /\ req[c] = "stmt" /\ wire[c] = "refused"
    /\ IsAtomicBatch(job[c])
    /\ outcome' = [outcome EXCEPT ![c] = "execution_failure"]
    /\ \/ Ask(c, "rollback")
       \/ ctx[c] # "live" /\ RollbackInBackground(c)
    /\ UNCHANGED <<up, job, ctx, next, holds, server>>

\* tx.Commit looks at the context before it sends, and never after.
SendCommit(c) ==
    /\ pc[c] = "ready" /\ ctx[c] = "live"
    /\ next[c] > Size(job[c])
    /\ Ask(c, "commit")
    /\ UNCHANGED <<up, job, ctx, next, holds, server, outcome>>

CommitAcked(c) ==
    /\ pc[c] = "waiting" /\ req[c] = "commit" /\ wire[c] = "done"
    /\ Return(c, "ok") /\ Release(c)
    /\ UNCHANGED <<up, job, ctx, next, req, wire, server>>

RollbackAnswered(c) ==
    /\ holds[c] /\ req[c] = "rollback" /\ wire[c] \in {"done", "refused"}
    /\ pc' = [pc EXCEPT ![c] = "returned"]
    /\ Release(c)
    /\ UNCHANGED <<up, job, ctx, next, req, wire, server, outcome>>

-----------------------------------------------------------------------------
(* executeSequentially, Query and the metadata queries: every statement    *)
(* takes a connection and gives it back.                                   *)

StatementAcked(c) ==
    /\ pc[c] = "waiting" /\ req[c] = "stmt" /\ wire[c] = "done"
    /\ ~IsAtomicBatch(job[c])
    /\ next' = [next EXCEPT ![c] = @ + 1]
    /\ Release(c)
    /\ IF next[c] < Size(job[c])
       THEN pc' = [pc EXCEPT ![c] = "acquire"] /\ UNCHANGED outcome
       ELSE Return(c, "ok")
    /\ UNCHANGED <<up, job, ctx, req, wire, server>>

\* Mutant: the loop goes on after an error.
SkipRefused(c) ==
    /\ pc[c] = "waiting" /\ wire[c] = "refused"
    /\ req[c] = "stmt" /\ ~IsAtomicBatch(job[c])
    /\ next' = [next EXCEPT ![c] = @ + 1]
    /\ Release(c)
    /\ IF next[c] < Size(job[c])
       THEN pc' = [pc EXCEPT ![c] = "acquire"] /\ UNCHANGED outcome
       ELSE Return(c, "ok")
    /\ UNCHANGED <<up, job, ctx, req, wire, server>>

\* The database refuses a statement outside a transaction, BEGIN or COMMIT.
RequestRefused(c) ==
    /\ pc[c] = "waiting" /\ wire[c] = "refused"
    /\ req[c] \in {"begin", "commit"} \/ (req[c] = "stmt" /\ ~IsAtomicBatch(job[c]))
    /\ Return(c, "execution_failure") /\ Release(c)
    /\ UNCHANGED <<up, job, ctx, next, req, wire, server>>

-----------------------------------------------------------------------------
(* The context ends.                                                       *)

AbandonWait(c) ==
    /\ pc[c] = "acquire" /\ ctx[c] # "live"
    /\ Return(c, ctxError(c))
    /\ UNCHANGED <<up, job, ctx, next, holds, req, wire, server>>

\* Mutant: COMMIT is sent as a statement with the context.
AbandonCommitToo(c) ==
    /\ pc[c] = "waiting" /\ ctx[c] # "live"
    /\ req[c] \in {"begin", "stmt", "commit"}
    /\ Return(c, ctxError(c)) /\ Release(c)
    /\ UNCHANGED <<up, job, ctx, next, req, wire, server>>

\* Mutant: statements run with Exec, without the context.
AbandonBeginOnly(c) ==
    /\ pc[c] = "waiting" /\ ctx[c] # "live" /\ req[c] = "begin"
    /\ Return(c, ctxError(c)) /\ Release(c)
    /\ UNCHANGED <<up, job, ctx, next, req, wire, server>>

\* The driver closes the connection under a request that has a context; what
\* the database does with the request is its own affair.
AbandonRequest(c) ==
    /\ pc[c] = "waiting" /\ ctx[c] # "live"
    /\ req[c] \in {"begin", "stmt"}
    /\ Return(c, ctxError(c)) /\ Release(c)
    /\ UNCHANGED <<up, job, ctx, next, req, wire, server>>

\* Between two requests of a transaction: ExecContext fails and the call or
\* awaitDone rolls back; Commit fails, with the context's error or with
\* ErrTxDone, and leaves the rollback to awaitDone.
AbandonTx(c) ==
    /\ pc[c] = "ready" /\ ctx[c] # "live"
    /\ \/ /\ next[c] <= Size(job[c])
          /\ outcome' = [outcome EXCEPT ![c] = ctxError(c)]
          /\ Ask(c, "rollback") \/ RollbackInBackground(c)
       \/ /\ next[c] > Size(job[c])
          /\ \E how \in {ctxError(c), "execution_failure"} : outcome' = [outcome EXCEPT ![c] = how]
          /\ RollbackInBackground(c)
    /\ UNCHANGED <<up, job, ctx, next, holds, server>>

-----------------------------------------------------------------------------
(* The environment: clocks, callers, the network, the database, the host.  *)

Expire(c) ==
    /\ pc[c] \notin {"idle", "returned"} /\ ctx[c] = "live"
    /\ ctx' = [ctx EXCEPT ![c] = "expired"]
    /\ UNCHANGED <<up, job, pc, next, holds, req, wire, server, outcome>>

\* The MCP client cancels the request.
Cancel(c) ==
    /\ pc[c] \notin {"idle", "returned"} /\ ctx[c] = "live"
    /\ ctx' = [ctx EXCEPT ![c] = "cancelled"]
    /\ UNCHANGED <<up, job, pc, next, holds, req, wire, server, outcome>>

\* The connection of an unanswered request breaks.
ConnLost(c) ==
    /\ holds[c] /\ (pc[c] = "waiting" \/ req[c] = "rollback")
    /\ pc' = [pc EXCEPT ![c] = "returned"]
    /\ outcome' = [outcome EXCEPT ![c] = IF @ = "none" THEN "execution_failure" ELSE @]
    /\ Release(c)
    /\ UNCHANGED <<up, job, ctx, next, req, wire, server>>

\* MySQL commits the open transaction before it executes a DDL statement.
ServerExecutes(c) ==
    /\ wire[c] = "asked"
    /\ wire' = [wire EXCEPT ![c] = "done"]
    /\ LET tx == IsAtomicBatch(job[c])
           kind == IF req[c] = "stmt" THEN job[c].stmts[next[c]] ELSE req[c]
       IN CASE kind = "commit" ->
                  /\ applied' = [applied EXCEPT ![c] = @ \cup pending[c]]
                  /\ pending' = [pending EXCEPT ![c] = {}]
            [] kind = "rollback" ->
                  /\ pending' = [pending EXCEPT ![c] = {}]
                  /\ UNCHANGED applied
            [] kind = "write" /\ tx ->
                  /\ pending' = [pending EXCEPT ![c] = @ \cup {next[c]}]
                  /\ UNCHANGED applied
            [] kind = "ddl" \/ (kind = "write" /\ ~tx) ->
                  /\ applied' = [applied EXCEPT ![c] = @ \cup pending[c] \cup {next[c]}]
                  /\ pending' = [pending EXCEPT ![c] = {}]
            [] OTHER -> UNCHANGED server
    /\ UNCHANGED <<up, client, req, outcome>>

\* A refused COMMIT ends the transaction without effects.
ServerRefuses(c) ==
    /\ wire[c] = "asked"
    /\ wire' = [wire EXCEPT ![c] = "refused"]
    /\ pending' = [pending EXCEPT ![c] = IF req[c] = "commit" THEN {} ELSE @]
    /\ UNCHANGED <<up, client, req, applied, outcome>>

\* log.Fatalf, a kill or a crash ends the process with calls in flight.
Halt ==
    /\ up /\ up' = FALSE
    /\ LET dead == {c \in Calls : pc[c] \notin {"idle", "returned"}} IN
       /\ pc' = [c \in Calls |-> IF c \in dead THEN "returned" ELSE pc[c]]
       /\ outcome' = [c \in Calls |-> IF c \in dead THEN "lost" ELSE outcome[c]]
    /\ holds' = [c \in Calls |-> FALSE]
    /\ UNCHANGED <<job, ctx, next, req, wire, server>>

-----------------------------------------------------------------------------
\* What the process does by itself once it can.
Client(c) ==
    \/ GetConn(c) \/ BeginAcked(c) \/ SendStatement(c) \/ TxStatementAcked(c)
    \/ TxStatementRefused(c) \/ SendCommit(c) \/ CommitAcked(c) \/ RollbackAnswered(c)
    \/ StatementAcked(c) \/ RequestRefused(c)
    \/ AbandonWait(c) \/ AbandonRequest(c) \/ AbandonTx(c)

Environment(c) ==
    \/ Expire(c) \/ Cancel(c) \/ DialFails(c) \/ ConnLost(c)
    \/ ServerExecutes(c) \/ ServerRefuses(c)

Next ==
    \/ \E c \in Calls, j \in Jobs : Start(c, j) \/ Refuse(c, j)
    \/ \E c \in Calls : Client(c) \/ Environment(c)
    \/ Halt

Spec == Init /\ [][Next]_vars

\* The deadline timer fires and the process takes the steps it can take.  The
\* network, the database and the host owe nothing.
FairSpec ==
    /\ Spec
    /\ \A c \in Calls : WF_vars(Client(c)) /\ WF_vars(Expire(c))

-----------------------------------------------------------------------------
(* Properties.                                                             *)

\* What the fields of the model hold; next stays within the job's statements and
\* the place after the last one.
TypeOK ==
    /\ up \in BOOLEAN
    /\ job \in [Calls -> Jobs \cup {NoJob}]
    /\ pc \in [Calls -> {"idle", "acquire", "ready", "waiting", "returned"}]
    /\ ctx \in [Calls -> {"live", "expired", "cancelled"}]
    /\ next \in [Calls -> Nat]
    /\ holds \in [Calls -> BOOLEAN]
    /\ req \in [Calls -> {"none", "begin", "stmt", "commit", "rollback"}]
    /\ wire \in [Calls -> {"none", "asked", "done", "refused"}]
    /\ pending \in [Calls -> SUBSET Nat]
    /\ applied \in [Calls -> SUBSET Nat]
    /\ outcome \in [Calls -> Outcomes \cup {"none"}]
    /\ \A c \in Calls :
          /\ job[c] = NoJob <=> pc[c] = "idle"
          /\ job[c] # NoJob => next[c] \in 1 .. (Size(job[c]) + 1)

Atomic(c) == job[c] # NoJob /\ IsAtomicBatch(job[c])

\* A plan that executeAtomically runs, which is the plan a preview calls atomic,
\* shows all of its statements or none: at every moment, through refusals,
\* deadlines, lost connections and the end of the process.
AllOrNothing ==
    \A c \in Calls : Atomic(c) => applied[c] \in {{}, 1 .. Size(job[c])}

\* What databaseError reports as a timeout of an atomic plan can be retried:
\* nothing of it was applied and nothing will be.
TimeoutMeansUntouched ==
    \A c \in Calls : Atomic(c) /\ outcome[c] = "timeout" => applied[c] = {}

\* Without a transaction the statements still take effect in order, and none
\* after the first one that failed.
StopsAtFirstFailure ==
    \A c \in Calls : applied[c] # {} => \E n \in 1 .. Size(job[c]) : applied[c] = 1 .. n

\* A call that waits for a pool connection keeps none from the others, so the
\* calls of a full pool cannot wait for each other.
NoHoldAndWait ==
    \A c \in Calls : pc[c] = "acquire" => ~holds[c]

\* The call waits for the answer to COMMIT or ROLLBACK.
EndsTx(c) == pc[c] = "waiting" /\ req[c] \in {"commit", "rollback"}

\* The deadline brings every call back, except from Commit and Rollback.
DeadlineReturnsCalls ==
    \A c \in Calls : pc[c] # "idle" ~> pc[c] = "returned" \/ EndsTx(c)

\* The database or the network settles every request.
DatabaseAnswers ==
    \A c \in Calls : WF_vars(ServerExecutes(c) \/ ServerRefuses(c) \/ ConnLost(c))

\* With such a database every connection goes back to its pool, also the one a
\* background rollback took over from a call that has returned.
ConnectionsComeBack ==
    DatabaseAnswers => \A c \in Calls : holds[c] ~> ~holds[c]

\* What the comment on Executor promises: no MCP call takes unbounded time.
EveryCallReturns ==
    \A c \in Calls : pc[c] # "idle" ~> pc[c] = "returned"

-----------------------------------------------------------------------------
(* What the caller is promised: PlanExecution.                             *)

\* A request of the returned call that may still change data.
Late(c) ==
    /\ pc[c] = "returned" /\ wire[c] = "asked"
    /\ \/ req[c] = "commit"
       \/ req[c] = "stmt" /\ job[c].tool = "plan" /\ ~IsAtomicBatch(job[c])

\* The work of the call, and how far the caller sees it.
Work(c) == IF job[c] = NoJob THEN NoJob ELSE WorkOf(job[c])

Phase(c) ==
    IF pc[c] = "returned" THEN outcome[c]
    ELSE IF pc[c] = "idle" THEN "idle" ELSE "running"

Plan == INSTANCE PlanExecution WITH
    Works <- {WorkOf(j) : j \in Jobs},
    NoWork <- NoJob,
    work <- [c \in Calls |-> Work(c)],
    phase <- [c \in Calls |-> Phase(c)],
    late <- [c \in Calls |-> Late(c)]

\* Every interleaving of the executor's steps is an execution of the plans.
ImplementsPlanExecution == Plan!PlanSpec

=============================================================================
