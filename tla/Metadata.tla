-------------------------------- MODULE Metadata --------------------------------
(***************************************************************************)
(* internal/database/mysql.go and clickhouse.go: what describe_table makes *)
(* of the rows the catalogue of an engine returns.                         *)
(*                                                                         *)
(* A table of the database has columns in order, indexes with their parts  *)
(* in order (a part is a column or an expression, named by the column it   *)
(* is computed from), and an amount of rows.                               *)
(***************************************************************************)
EXTENDS Naturals, SequencesExt

\* A description's place for what it does not have: the zero value in the code.
Absent == ""

-----------------------------------------------------------------------------
(* Columns.                                                                *)

\* The parentheses still open after t[i].
Depth(t, i) == Cardinality({k \in 1 .. i : t[k] = "("}) - Cardinality({k \in 1 .. i : t[k] = ")"})

\* The type is one name around everything else: its first parenthesis is closed by
\* its last character and by none before.
clickHouseOuterWrapper(t) ==
    /\ Len(t) > 2 /\ t[2] = "("
    /\ \A i \in 2 .. Len(t) : Depth(t, i) = 0 <=> i = Len(t)

Inner(t) == SubSeq(t, 3, Len(t) - 1)

\* Mutant: only the outermost name is looked at.
OutermostOnly(t) == clickHouseOuterWrapper(t) /\ t[1] = "nullable"

\* Nullable(...), or LowCardinality around it.
isClickHouseNullable(t) ==
    LET nullable[s \in Seq(Range(t))] ==
            IF clickHouseOuterWrapper(s) /\ s[1] = "lowcardinality" THEN nullable[Inner(s)]
            ELSE clickHouseOuterWrapper(s) /\ s[1] = "nullable"
    IN nullable[t]

Described(c, nullable) ==
    [name |-> c.name, type |-> c.type, dims |-> c.dims, nullable |-> nullable, hasDefault |-> c.default]

\* Of a table that does not exist there are no rows, and that is no error.
mysqlColumns(t) == [i \in DOMAIN t.columns |-> Described(t.columns[i], t.columns[i].null)]

\* system.columns says only in the type whether a column may be null.
clickHouseColumns(t) ==
    [i \in DOMAIN t.columns |-> Described(t.columns[i], isClickHouseNullable(t.columns[i].type))]

describedColumns(engine, t) == IF engine = "clickhouse" THEN clickHouseColumns(t) ELSE mysqlColumns(t)

-----------------------------------------------------------------------------
(* Indexes.                                                                *)

\* A row of information_schema.statistics: one part of an index.
StatisticsRow(index, k) == [name |-> index.name, unique |-> index.unique, part |-> index.parts[k]]

Column(name) == [column |-> name, expression |-> Absent]
Expression(of) == [column |-> Absent, expression |-> of]

\* The scanner's step: the first row of a name begins an index; a column is added
\* to those of the index, an expression replaces the one it has.
ScanIndexRow(indexes, row) ==
    LET found == \E k \in DOMAIN indexes : indexes[k].name = row.name
        begun == IF found THEN indexes
                 ELSE Append(indexes, [name |-> row.name, unique |-> row.unique,
                                       columns |-> <<>>, expression |-> Absent])
        position == CHOOSE k \in DOMAIN begun : begun[k].name = row.name
    IN IF row.part.column # Absent
       THEN [begun EXCEPT ![position].columns = Append(@, row.part.column)]
       ELSE IF row.part.expression # Absent
       THEN [begun EXCEPT ![position].expression = row.part.expression]
       ELSE begun

\* The rows come one index after the other, the parts of each in order.
ScanIndex(indexes, index) ==
    LET upTo[k \in 0 .. Len(index.parts)] ==
            IF k = 0 THEN indexes ELSE ScanIndexRow(upTo[k - 1], StatisticsRow(index, k))
    IN upTo[Len(index.parts)]

mysqlIndexes(t) ==
    LET indexes == SetToSeq(t.indexes)
        upTo[i \in 0 .. Len(indexes)] == IF i = 0 THEN <<>> ELSE ScanIndex(upTo[i - 1], indexes[i])
    IN upTo[Len(indexes)]

\* system.data_skipping_indices has one row per index, and no columns.
clickHouseIndexes(t) ==
    LET indexes == SetToSeq(t.indexes)
    IN [k \in DOMAIN indexes |-> [name |-> indexes[k].name, unique |-> FALSE,
                                  columns |-> <<>>, expression |-> indexes[k].parts[1].expression]]

describedIndexes(engine, t) == IF engine = "clickhouse" THEN clickHouseIndexes(t) ELSE mysqlIndexes(t)
=============================================================================
