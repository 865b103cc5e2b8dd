------------------------------ MODULE MCService ------------------------------
(* Instances of Service: two sources, of which one may move from MySQL to
   ClickHouse, and a catalogue of requests with one of each kind the policy and
   the executor tell apart. *)
EXTENDS Service, TLC

CONSTANTS orders, events

Shape(id, node, flags, holes) ==
    [id |-> [text |-> id], node |-> node, inner |-> "none", flags |-> flags, holes |-> holes]

Insert == Shape("insert", "insert", {}, 0)
Update == Shape("update", "update", {"where"}, 0)
UpdateAll == Shape("update_all", "update", {}, 0)
Delete == Shape("delete", "delete", {"where"}, 1)
Select == Shape("select", "select", {}, 0)
SelectInto == Shape("select_into", "select", {"into"}, 0)
SelectLocking == Shape("select_locking", "select", {"lock"}, 0)
SelectLockingInside == Shape("select_locking_inside", "select", {"lock_inside"}, 0)
UnionWithSession == Shape("union_with_session", "union", {"session_of_union"}, 0)
Explain(inner, flags) == [Shape("explain", "explain", flags, 0) EXCEPT !.inner = inner]
Alter == Shape("alter", "ddl", {}, 0)

Ask(source, tool, text, params) ==
    [decodes |-> TRUE, source |-> source, tool |-> tool, text |-> text, params |-> params]

Operate(source, operation) ==
    [decodes |-> TRUE, source |-> source, tool |-> operation.tool, operation |-> operation,
     params |-> <<>>]

Copy(tool, data, destination) ==
    [tool |-> tool, source |-> "orders", destination |-> destination, with_data |-> data]

Number(n) == [form |-> "integer", value |-> n]
Wide(n) == [form |-> "wide", value |-> n]

QuickOnMySQL == [mode |-> "quick", engine |-> (orders :> "mysql" @@ events :> "mysql")]
QuickMoved == [mode |-> "quick", engine |-> (orders :> "clickhouse" @@ events :> "mysql")]
StrictOnMySQL == [mode |-> "strict", engine |-> (orders :> "mysql")]

MCConfigs == {QuickOnMySQL, QuickMoved, StrictOnMySQL}

\* Both sources stay on MySQL.
MCMySQLConfigs == {QuickOnMySQL, StrictOnMySQL}

MCIdentifiers == {"orders", "recent"}

MCWorks == [size : 0 .. 2, atomic : BOOLEAN]

\* Parameters: a placeholder on either engine, values that float64 cannot tell
\* apart, one that it cannot hold, and parameters for a batch.
MCParameterRequests == {
    Ask(orders, "execute_sql", <<Delete>>, <<Number(1)>>),
    Ask(orders, "execute_sql", <<Delete>>, <<Wide(2)>>),
    Ask(orders, "execute_sql", <<Delete>>, <<Wide(3)>>),
    Ask(orders, "execute_sql", <<Delete>>, <<[form |-> "overflow", value |-> 0]>>),
    Ask(orders, "execute_sql", <<Update, Insert>>, <<Number(1)>>)}

\* Reads that lock, touch the session or write a file, openly and inside.
MCLockingRequests ==
    {Ask(orders, "query", <<s>>, <<>>) :
        s \in {Select, SelectInto, SelectLocking, SelectLockingInside, UnionWithSession}}

\* Batches, one text under two tools and two sources, DDL written and generated,
\* one low-risk write, reads, and what the guard refuses.
MCRequests == MCParameterRequests \cup {
    Ask(orders, "execute_sql", <<Insert, Insert>>, <<>>),
    Ask(events, "execute_sql", <<Insert, Insert>>, <<>>),
    Ask(orders, "execute_sql", <<Insert, Select>>, <<>>),
    Ask(orders, "execute_sql", <<Alter>>, <<>>),
    Ask(orders, "migrate", <<Alter>>, <<>>),
    Ask(orders, "migrate", <<Insert>>, <<>>),
    Ask(orders, "execute_sql", <<UpdateAll>>, <<>>),
    Ask(orders, "execute_sql", <<Select>>, <<>>),
    Operate(orders, Copy("copy_table", TRUE, "recent")),
    Operate(orders, Copy("copy_table", FALSE, "recent")),
    Operate(orders, Copy("copy_table_structure", TRUE, "recent")),
    Operate(orders, Copy("copy_table_structure", TRUE, "two words")),
    Ask(orders, "query", <<Select>>, <<>>),
    Ask(orders, "query", <<SelectInto>>, <<>>),
    Ask(events, "query", <<Select, Select>>, <<>>),
    Ask(orders, "query", <<Explain("select", {})>>, <<>>),
    Ask(orders, "query", <<Explain("select", {"analyze"})>>, <<>>),
    Ask(orders, "query", <<Explain("update", {})>>, <<>>),
    Ask(orders, "query", <<Insert>>, <<>>),
    Ask(orders, "query", <<>>, <<>>),
    Ask("", "query", <<Select>>, <<>>),
    [Ask(orders, "query", <<Select>>, <<>>) EXCEPT !.decodes = FALSE]}
=============================================================================
