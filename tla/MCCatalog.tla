-------------------------------- MODULE MCCatalog --------------------------------
(* Instances of Catalog: a table with rows, an empty one, and one of each kind of
   request, of column and of index. *)
EXTENDS Catalog, TLC

MCIdentifiers == {"orders", "archive", "recent", "id", "note", "state", "by_id", "by_note"}

-----------------------------------------------------------------------------
(* Types of ClickHouse columns, and whether they may hold NULL.            *)

PlainTypes == {<<"string">>, <<"decimal", "(", ")">>, <<"enum8", "(", ")">>}

\* Enum8('x)' = 1)
QuotingType == <<"enum8", "(", "quotation", ")", "quotation", ")">>

Composite == {Wrapped("array", Wrapped("nullable", <<"string">>)),
              Wrapped("tuple", Wrapped("nullable", <<"string">>) \o Wrapped("nullable", <<"string">>)),
              Wrapped("map", <<"string">> \o Wrapped("nullable", <<"decimal", "(", ")">>)),
              Wrapped("lowcardinality", <<"string">>)}

NullableTypes == {Wrapped("nullable", t) : t \in PlainTypes \cup {QuotingType}}
    \cup {Wrapped("lowcardinality", Wrapped("nullable", t)) : t \in PlainTypes}

ClickHouseTypes == {[type |-> t, null |-> t \in NullableTypes] :
                    t \in PlainTypes \cup Composite \cup NullableTypes \cup {QuotingType}}

MySQLTypes == {[type |-> <<"date">>, null |-> b] : b \in BOOLEAN}

-----------------------------------------------------------------------------
IdColumn(engineName) ==
    [name |-> "id", default |-> FALSE, null |-> FALSE,
     type |-> IF engineName = "mysql" THEN Wrapped("bigint", <<>>) ELSE <<"int64">>,
     dims |-> IF engineName = "mysql" THEN <<20>> ELSE <<>>]

NoteColumn(t) == [name |-> "note", default |-> TRUE, null |-> t.null, type |-> t.type, dims |-> <<>>]

OldTable(engineName, t, indexes, rows) ==
    [columns |-> <<IdColumn(engineName), NoteColumn(t)>>, indexes |-> indexes, rows |-> rows]

Index(name, unique, parts) == [name |-> name, unique |-> unique, parts |-> parts]

\* One functional part at most, and columns in the order opposite to the table's.
MySQLIndexes == {Index("by_id", TRUE, <<Column("note"), Column("id")>>),
                 Index("by_note", FALSE, <<Expression("note"), Column("id")>>)}

ClickHouseIndexes == {Index("by_note", FALSE, <<Expression("note")>>)}

Holding(engineName, t, indexes) ==
    [engine |-> engineName,
     tables |-> ("orders" :> OldTable(engineName, t, indexes, 1))
                @@ ("archive" :> OldTable(engineName, t, {}, 0))]

MCDatabases ==
    {Holding("mysql", t, MySQLIndexes) : t \in MySQLTypes}
    \cup {Holding("clickhouse", t, ClickHouseIndexes) : t \in ClickHouseTypes}

\* An index on two expressions.
TwoExpressions ==
    {Holding("mysql", t, {Index("by_id", FALSE, <<Expression("note"), Expression("id")>>)}) :
        t \in MySQLTypes}

-----------------------------------------------------------------------------
OfKind(name, kind, nullable) ==
    [name |-> name, kind |-> kind, length |-> 0, precision |-> 0, scale |-> 0, nullable |-> nullable]

Decimal(name, precision, scale) ==
    [OfKind(name, "decimal", TRUE) EXCEPT !.precision = precision, !.scale = scale]

Varchar(length) == [OfKind("state", "varchar", FALSE) EXCEPT !.length = length]

OnTable(tool, columns) == [tool |-> tool, table |-> "recent", columns |-> columns]

Copy(tool, source, destination, data) ==
    [tool |-> tool, source |-> source, destination |-> destination, with_data |-> data]

\* Requests one of the builders accepts.
Good == {
    OnTable("create_table", <<OfKind("id", "bigint", FALSE), Decimal("state", 65, 30)>>),
    OnTable("create_table", <<OfKind("id", "uint64", FALSE), Decimal("state", 76, 0)>>),
    OnTable("create_table", <<Varchar(255), OfKind("note", "boolean", TRUE),
                              OfKind("id", "timestamp", FALSE)>>),
    [OnTable("add_columns", <<OfKind("state", "date", TRUE)>>) EXCEPT !.table = "orders"],
    [OnTable("modify_columns", <<OfKind("note", "datetime", FALSE)>>) EXCEPT !.table = "orders"],
    [tool |-> "drop_columns", table |-> "orders", names |-> <<"note">>],
    [tool |-> "drop_columns", table |-> "orders", names |-> <<"id">>],
    [tool |-> "drop_table", table |-> "archive"],
    [tool |-> "rename_table", from |-> "orders", to |-> "recent"],
    [tool |-> "create_index", table |-> "orders", index |-> "by_id", names |-> <<"id", "note">>,
     unique |-> TRUE],
    [tool |-> "create_index", table |-> "archive", index |-> "by_id", names |-> <<"id", "note">>,
     unique |-> TRUE],
    [tool |-> "drop_index", table |-> "orders", index |-> "by_id"],
    Copy("copy_table", "orders", "archive", TRUE),
    Copy("copy_table", "orders", "recent", TRUE),
    Copy("copy_table", "orders", "recent", FALSE),
    Copy("copy_table_structure", "orders", "recent", TRUE)}

\* Requests every builder refuses, or would if it looked.
Bad == {
    OnTable("create_table", <<>>),
    OnTable("create_table", <<OfKind("id", "date", FALSE), OfKind("id", "date", TRUE)>>),
    OnTable("create_table", <<OfKind("two words", "date", TRUE)>>),
    OnTable("create_table", <<Decimal("state", 10, 11)>>),
    OnTable("create_table", <<Varchar(65536)>>),
    [tool |-> "drop_columns", table |-> "orders", names |-> <<"note", "two words">>],
    [tool |-> "create_index", table |-> "orders", index |-> "two words", names |-> <<"id">>,
     unique |-> FALSE],
    [tool |-> "rename_table", from |-> "orders", to |-> "two words"]}

\* Requests the builder of MySQL accepts and its server refuses.
BeyondServer == {
    OnTable("create_table", <<Decimal("state", 65, 65)>>),
    OnTable("create_table", <<Varchar(65535)>>)}

MCRequests == Good \cup Bad \cup BeyondServer

MCWorks == [size : 1 .. 2, atomic : {FALSE}]
=============================================================================
