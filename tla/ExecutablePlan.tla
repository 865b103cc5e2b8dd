----------------------------- MODULE ExecutablePlan -----------------------------
(***************************************************************************)
(* What internal/execution/executor.go decides about a piece of work       *)
(* before it talks to a database.  Executor and Service share it.          *)
(*                                                                         *)
(* A job is the source and the engine it runs on, whether it only reads    *)
(* (Query and the metadata queries) or is a plan for ExecutePlan, the      *)
(* kinds of its statements in order, and whether parameters come with it.  *)
(***************************************************************************)
EXTENDS Naturals, Sequences

CONSTANT Sources            \* the configured sources

Kinds == {"read_only", "write", "ddl"}

JobType == [source : Sources, engine : {"mysql", "clickhouse"},
            tool : {"read", "plan"}, stmts : Seq(Kinds), args : BOOLEAN]

Size(j) == Len(j.stmts)

\* Capabilities().AtomicBatches of the dialect.
AtomicBatches(j) == j.engine = "mysql"

validateExecutionPlan(j) ==
    /\ j.stmts # <<>>
    /\ \A i \in DOMAIN j.stmts : j.stmts[i] \in {"write", "ddl"}

\* ErrAmbiguousBatchArgs
ambiguousArgs(j) == Len(j.stmts) > 1 /\ j.args

\* The job gets as far as asking for a connection.
Executable(j) == j.tool = "plan" => validateExecutionPlan(j) /\ ~ambiguousArgs(j)

allWrites(j) == \A i \in DOMAIN j.stmts : j.stmts[i] = "write"

\* Mutant: trusts the capability and forgets that DDL commits implicitly.
AtomicWheneverCapable(j) == j.tool = "plan" /\ AtomicBatches(j)

\* The plan runs in one transaction.
IsAtomicBatch(j) == j.tool = "plan" /\ AtomicBatches(j) /\ allWrites(j)

\* What the job promises to change, for PlanExecution.
WorkOf(j) == [size |-> IF j.tool = "read" THEN 0 ELSE Size(j), atomic |-> IsAtomicBatch(j)]
=============================================================================
