-------------------------------- MODULE Operation --------------------------------
(***************************************************************************)
(* internal/operation: from a typed schema request to the statements the   *)
(* builder of an engine writes for it, or to the error it returns.         *)
(*                                                                         *)
(* A request is a record; its field "tool" says which operation it is.  A  *)
(* statement is a record of what it does and to what: formatting is left   *)
(* out, but which names go through QuoteIdentifier, and so are validated,  *)
(* is not.  A column type is written as the sequence of its names and      *)
(* parentheses, in lower case, its numbers apart.                          *)
(***************************************************************************)
EXTENDS Integers, Sequences, Functions

CONSTANT Identifiers    \* the names validateIdentifier accepts

ASSUME OperationAssumption == "" \notin Identifiers

TableTools == {"create_table", "drop_table", "add_columns", "drop_columns", "modify_columns"}
IndexTools == {"create_index", "drop_index"}
CopyTools == {"copy_table", "copy_table_structure"}

StructuredTools == TableTools \cup IndexTools \cup CopyTools \cup {"rename_table"}

-----------------------------------------------------------------------------
(* Columns.                                                                *)

validateNoDimensions(spec) == spec.length = 0 /\ spec.precision = 0 /\ spec.scale = 0

decimalFits(spec, maxPrecision) ==
    spec.length = 0 /\ spec.precision \in 1 .. maxPrecision /\ spec.scale \in 0 .. spec.precision

mysqlColumn(spec) ==
    \/ /\ spec.kind \in {"int", "bigint", "text", "boolean", "date", "datetime", "timestamp"}
       /\ validateNoDimensions(spec)
    \/ /\ spec.kind = "varchar"
       /\ spec.length \in 1 .. 65535 /\ spec.precision = 0 /\ spec.scale = 0
    \/ spec.kind = "decimal" /\ decimalFits(spec, 65)

clickHouseColumn(spec) ==
    \/ /\ spec.kind \in {"int64", "uint64", "string", "bool", "date", "datetime"}
       /\ validateNoDimensions(spec)
    \/ spec.kind = "decimal" /\ decimalFits(spec, 76)

Accepted(engine, spec) == IF engine = "clickhouse" THEN clickHouseColumn(spec) ELSE mysqlColumn(spec)

\* Mutant: names of columns are not quoted.
ColumnsByKind(engine, specs) ==
    /\ specs # <<>>
    /\ IsInjective([i \in DOMAIN specs |-> specs[i].name])
    /\ \A i \in DOMAIN specs : Accepted(engine, specs[i])

\* The names are compared as they are written: id and ID are two columns.
buildColumns(engine, specs) ==
    /\ specs # <<>>
    /\ IsInjective([i \in DOMAIN specs |-> specs[i].name])
    /\ \A i \in DOMAIN specs : specs[i].name \in Identifiers /\ Accepted(engine, specs[i])

quotedColumns(names) ==
    names # <<>> /\ IsInjective(names) /\ \A i \in DOMAIN names : names[i] \in Identifiers

Wrapped(wrapper, type) == <<wrapper, "(">> \o type \o <<")">>

Dimensions(spec) ==
    CASE spec.kind = "varchar" -> <<spec.length>>
      [] spec.kind = "decimal" -> <<spec.precision, spec.scale>>
      [] OTHER -> <<>>

PlainType(spec) == IF Dimensions(spec) = <<>> THEN <<spec.kind>> ELSE Wrapped(spec.kind, <<>>)

\* Mutant: a nullable ClickHouse column is declared like any other.
NeverNullable(engine, spec) ==
    [name |-> spec.name, type |-> PlainType(spec), dims |-> Dimensions(spec),
     null |-> engine = "mysql" /\ spec.nullable]

\* The definition of a column; null says that the keyword NULL is written.
ColumnSQL(engine, spec) ==
    [name |-> spec.name,
     type |-> IF engine = "clickhouse" /\ spec.nullable
              THEN Wrapped("nullable", PlainType(spec)) ELSE PlainType(spec),
     dims |-> Dimensions(spec),
     null |-> engine = "mysql" /\ spec.nullable]

-----------------------------------------------------------------------------
(* Requests.                                                               *)

\* The ClickHouse builder has no indexes and no CREATE TABLE ... LIKE; it looks at
\* nothing else of such a request.
Unsupported(engine, r) == engine = "clickhouse" /\ r.tool \in IndexTools \cup CopyTools

\* The names, other than those of columns, that a builder quotes.
QuotedNames(r) ==
    CASE r.tool \in TableTools -> {r.table}
      [] r.tool \in IndexTools -> {r.table, r.index}
      [] r.tool = "rename_table" -> {r.from, r.to}
      [] r.tool \in CopyTools -> {r.source, r.destination}

\* The error of the builder, as operationError reports it.
Refusal(engine, r) ==
    IF Unsupported(engine, r) THEN "unsupported_capability"
    ELSE IF /\ QuotedNames(r) \subseteq Identifiers
            /\ r.tool \in {"create_table", "add_columns", "modify_columns"}
                  => buildColumns(engine, r.columns)
            /\ r.tool \in {"drop_columns", "create_index"} => quotedColumns(r.names)
         THEN "none" ELSE "invalid_input"

\* Only copy_table looks at with_data.
WithData(r) == r.tool = "copy_table" /\ r.with_data

\* Mutant: the rows are copied before the table is made.
RowsFirst(r) ==
    IF WithData(r)
    THEN <<[do |-> "copy_rows", table |-> r.destination, from |-> r.source],
           [do |-> "create_like", table |-> r.destination, like |-> r.source]>>
    ELSE <<[do |-> "create_like", table |-> r.destination, like |-> r.source]>>

\* Mutant: the rows are always copied.
AlwaysWithData(r) ==
    <<[do |-> "create_like", table |-> r.destination, like |-> r.source],
      [do |-> "copy_rows", table |-> r.destination, from |-> r.source]>>

CopyTable(r) ==
    <<[do |-> "create_like", table |-> r.destination, like |-> r.source]>>
    \o IF WithData(r) THEN <<[do |-> "copy_rows", table |-> r.destination, from |-> r.source]>> ELSE <<>>

\* The statements written for a request that is not refused.
Built(engine, r) ==
    LET columns == [i \in DOMAIN r.columns |-> ColumnSQL(engine, r.columns[i])] IN
    CASE r.tool \in {"create_table", "add_columns", "modify_columns"} ->
            <<[do |-> r.tool, table |-> r.table, columns |-> columns]>>
      [] r.tool = "drop_table" -> <<[do |-> r.tool, table |-> r.table]>>
      [] r.tool = "drop_columns" -> <<[do |-> r.tool, table |-> r.table, names |-> r.names]>>
      [] r.tool = "create_index" ->
            <<[do |-> r.tool, table |-> r.table, index |-> r.index, names |-> r.names,
               unique |-> r.unique]>>
      [] r.tool = "drop_index" -> <<[do |-> r.tool, table |-> r.table, index |-> r.index]>>
      [] r.tool = "rename_table" -> <<[do |-> r.tool, from |-> r.from, to |-> r.to]>>
      [] OTHER -> CopyTable(r)
=============================================================================
