------------------------------ MODULE MCExecutor ------------------------------
(* Instances of Executor: one MySQL and one ClickHouse source with one connection
   each, and calls that carry every kind of job the tools produce. *)
EXTENDS Executor

CONSTANTS my, ch

EngineOf(s) == IF s = my THEN "mysql" ELSE "clickhouse"

Read(s, n) ==
    [source |-> s, engine |-> EngineOf(s), tool |-> "read", stmts |-> [i \in 1 .. n |-> "read_only"],
     args |-> FALSE]
PlanJob(s, stmts, args) ==
    [source |-> s, engine |-> EngineOf(s), tool |-> "plan", stmts |-> stmts, args |-> args]

\* A MySQL batch, copy_table with data, a ClickHouse batch, describe_table, a
\* batch with parameters, a batch with a SELECT in it, one parameterized write.
MCJobs == {
    PlanJob(my, <<"write", "write">>, FALSE),
    PlanJob(my, <<"ddl", "write">>, FALSE),
    PlanJob(ch, <<"write", "write">>, FALSE),
    Read(my, 3),
    PlanJob(my, <<"write", "write">>, TRUE),
    PlanJob(my, <<"write", "read_only">>, FALSE),
    PlanJob(my, <<"write">>, TRUE)}

\* Jobs that compete for the MySQL connection.
MCContenders == {
    PlanJob(my, <<"write">>, FALSE),
    PlanJob(my, <<"ddl", "write">>, FALSE),
    Read(my, 1)}
=============================================================================
