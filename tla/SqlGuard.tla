-------------------------------- MODULE SqlGuard --------------------------------
(***************************************************************************)
(* internal/sqlguard: what a text is worth before anything executes it.    *)
(*                                                                         *)
(* The splitter and the two vendor parsers are abstracted by their result: *)
(* a text is the sequence of its statements, a statement a record          *)
(*   id     what the parser renders it as, its canonical SQL;              *)
(*   node   the kind of its syntax tree;                                   *)
(*   inner  the kind of the statement an EXPLAIN explains;                 *)
(*   flags  what is in the tree, by where it is:                           *)
(*            into, lock        INTO and a locking clause of the statement *)
(*                              or of a branch of its UNION;               *)
(*            lock_inside       a locking clause in a subquery or a WITH;  *)
(*            session           a function or assignment that touches the  *)
(*                              session, in a SELECT or any part of it;    *)
(*            session_of_union  one in the WITH or ORDER BY of a UNION;    *)
(*          and for the rest the names the classifiers' checks suggest;    *)
(*   holes  the `?` placeholders in what the caller wrote.                 *)
(***************************************************************************)
EXTENDS Naturals, Sequences, FiniteSets

CONSTANT MaxStatements      \* DefaultMaxStatements

ASSUME SqlGuardAssumption == MaxStatements \in Nat \ {0}

Engines == {"mysql", "clickhouse"}

\* The kind of a statement that must not run, or could not be parsed.
UnsafeSQL == "unsafe"

-----------------------------------------------------------------------------
(* MySQL                                                                   *)

\* A SELECT is walked for functions with all its subqueries, but INTO and a locking
\* clause are looked for only in itself; a UNION only in its branches.
hasUnsafeMySQLSelect(s) == s.flags \cap {"into", "lock", "session"} # {}

isSafeMySQLExplain(s) == s.inner \in {"select", "union"} /\ ~hasUnsafeMySQLSelect(s)

mysqlReadOnly(s) ==
    \/ s.node \in {"select", "union"} /\ ~hasUnsafeMySQLSelect(s)
    \/ s.node = "explain" /\ "analyze" \notin s.flags /\ isSafeMySQLExplain(s)

mysqlWrite(s) ==
    \/ s.node = "insert"
    \/ s.node \in {"update", "delete"} /\ "with" \notin s.flags

mysqlDDL(s) == s.node \in {"ddl", "db_ddl"} /\ "partial" \notin s.flags

-----------------------------------------------------------------------------
(* ClickHouse                                                              *)

\* `keyword_item`: a bare keyword parsed as a selected column.
validClickHouseSelect(s) == s.flags \cap {"table_function", "keyword_item", "no_items"} = {}

clickHouseReadOnly(s) ==
    \/ s.node \in {"select", "union"} /\ validClickHouseSelect(s)
    \/ s.node = "explain" /\ s.inner \in {"select", "union"} /\ validClickHouseSelect(s)

clickHouseWrite(s) == s.node \in {"insert", "delete"}

clickHouseDDL(s) == s.node \in {"ddl", "db_ddl"}

-----------------------------------------------------------------------------
Kind(engine, s) ==
    CASE engine = "mysql" /\ mysqlReadOnly(s) -> "read_only"
      [] engine = "mysql" /\ mysqlWrite(s) -> "write"
      [] engine = "mysql" /\ mysqlDDL(s) -> "ddl"
      [] engine = "clickhouse" /\ clickHouseReadOnly(s) -> "read_only"
      [] engine = "clickhouse" /\ clickHouseWrite(s) -> "write"
      [] engine = "clickhouse" /\ clickHouseDDL(s) -> "ddl"
      [] OTHER -> UnsafeSQL

\* An UPDATE or DELETE is expected to have a WHERE clause.
requiresWhere(s) == s.node \in {"update", "delete"}

\* What the database receives: on MySQL the parser renders a `?` as a named
\* bind variable, so the text that is executed has no placeholder left.
HolesSent(engine, s) == IF engine = "mysql" THEN 0 ELSE s.holes

Statement(engine, s) == [sql |-> s.id, kind |-> Kind(engine, s), holes |-> HolesSent(engine, s)]

\* Mutant: the plan starts with Go's zero value in place of LowRisk.
RiskLeftEmpty(engine, text) ==
    IF \E i \in DOMAIN text :
          \/ Kind(engine, text[i]) = "ddl"
          \/ requiresWhere(text[i]) /\ "where" \notin text[i].flags
    THEN "high" ELSE ""

\* DDL, or an UPDATE or DELETE of every row, makes the whole text high risk.
PlanRisk(engine, text) ==
    IF \E i \in DOMAIN text :
          \/ Kind(engine, text[i]) = "ddl"
          \/ requiresWhere(text[i]) /\ "where" \notin text[i].flags
    THEN "high" ELSE "low"

\* The analysis of a text that analyzable accepts.
makePlan(engine, text) ==
    [statements |-> [i \in DOMAIN text |-> Statement(engine, text[i])],
     risk |-> PlanRisk(engine, text),
     readOnly |-> \A i \in DOMAIN text : Kind(engine, text[i]) = "read_only"]

\* Analyze returns a plan, not an error.
Analyzable(engine, text) ==
    /\ Len(text) \in 1 .. MaxStatements
    /\ \A i \in DOMAIN text : Kind(engine, text[i]) # UnsafeSQL

RiskForAtomicBatches(plan, atomic) ==
    IF ~atomic /\ Len(plan.statements) > 1 THEN "high" ELSE plan.risk
=============================================================================
