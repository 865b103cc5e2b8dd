--------------------------------- MODULE Catalog ---------------------------------
(***************************************************************************)
(* The structured tools and the metadata tools of internal/tools at work   *)
(* on one database: Operation builds the statements of a call, each takes  *)
(* effect on the tables as PlanExecution allows, also after the call has   *)
(* given up, and describe_table reads the tables with one query for the    *)
(* columns and a later one for the indexes.                                *)
(*                                                                         *)
(* The calls are those the policy has authorised (module Service).  What a *)
(* statement does to the tables is the database's affair and external to   *)
(* the code; a database may also refuse any statement.                     *)
(***************************************************************************)
EXTENDS PlanExecution, Operation, Metadata, Selection, FiniteSets

CONSTANTS
    Readers,    \* the describe_table and list_indexes calls
    Databases,  \* the engines and tables there may be: records of engine and tables
    Requests,   \* what the structured tools may be asked
    NoRequest,  \* of a call that has not been made
    IntegerWidths,      \* a MySQL before 8.0.19, which shows int(11)
    TimestampDefaults   \* one without explicit_defaults_for_timestamp

IsList(s) == s \in Seq(Range(s))

IsColumn(c) ==
    c = [name |-> c.name, type |-> c.type, dims |-> c.dims, default |-> c.default, null |-> c.null]

IsIndex(x) == x = [name |-> x.name, unique |-> x.unique, parts |-> x.parts]

ColumnNames(t) == {t.columns[i].name : i \in DOMAIN t.columns}
IndexNames(t) == {index.name : index \in t.indexes}

\* Indexes have names of their own, and are on columns of their table.
HasIndexes(t) ==
    /\ IsFiniteSet(t.indexes)
    /\ \A x, y \in t.indexes : x.name = y.name => x = y
    /\ \A x \in t.indexes :
          /\ IsList(x.parts) /\ x.parts # <<>>
          /\ \A k \in DOMAIN x.parts : x.parts[k].column \in ColumnNames(t) \cup {Absent}

\* One text in parentheses after a name, with its own parentheses in pairs.
IsWrapped(type) ==
    /\ Len(type) > 2 /\ type = Wrapped(type[1], Inner(type))
    /\ \A i \in 0 .. Len(Inner(type)) : Depth(Inner(type), i) >= 0
    /\ Depth(Inner(type), Len(Inner(type))) = 0

IsNamed(type) == type[1] \notin {"(", ")"} /\ (Len(type) = 1 \/ IsWrapped(type))

\* A type of ClickHouse is a name, perhaps with something in parentheses; that of a low
\* cardinality is another type.
IsClickHouseType(type) ==
    /\ IsList(type) /\ IsNamed(type)
    /\ type[1] = "lowcardinality" =>
          Len(type) > 1 /\ IsNamed(Inner(type)) /\ Inner(type)[1] # "lowcardinality"

MayBeNull(type) ==
    LET plain == IF type[1] = "lowcardinality" THEN Inner(type) ELSE type
    IN Len(plain) > 1 /\ plain[1] = "nullable"

\* A type that quotes the names of values: their parentheses are not the type's.
Quoting(type) == Contains(type, "quotation")

\* Indexes of ClickHouse are on an expression, and not unique.
IsClickHouseTable(t) ==
    /\ \A i \in DOMAIN t.columns :
          LET c == t.columns[i] IN
          Quoting(c.type) \/ (IsClickHouseType(c.type) /\ c.null = MayBeNull(c.type))
    /\ \A x \in t.indexes : x.unique = FALSE /\ \A k \in DOMAIN x.parts : x.parts[k].column = Absent

\* A table begins empty or with its own rows, counted as one.
ASSUME CatalogAssumption ==
    /\ {IntegerWidths, TimestampDefaults} \subseteq BOOLEAN
    /\ \A d \in Databases :
          /\ d.engine \in {"mysql", "clickhouse"}
          /\ d.tables = [name \in DOMAIN d.tables |-> d.tables[name]]
          /\ \A name \in DOMAIN d.tables :
                LET t == d.tables[name] IN
                /\ t = [columns |-> t.columns, indexes |-> t.indexes, rows |-> t.rows]
                /\ t.rows \in 0 .. 1
                /\ IsList(t.columns) /\ \A i \in DOMAIN t.columns : IsColumn(t.columns[i])
                /\ HasIndexes(t) /\ \A x \in t.indexes : IsIndex(x)
                /\ d.engine = "clickhouse" => IsClickHouseTable(t)
    /\ \A r \in Requests :
          /\ r # NoRequest /\ r.tool \in StructuredTools
          /\ r.tool \in {"create_table", "add_columns", "modify_columns"} =>
                IsList(r.columns) /\ \A i \in DOMAIN r.columns : r.columns[i].nullable \in BOOLEAN
          /\ r.tool \in {"drop_columns", "create_index"} => IsList(r.names)

VARIABLES
    engine,     \* of the source
    tables,     \* what the database holds, by name
    request,    \* each call's request
    answer,     \* the error of its builder, "none" without one
    reading     \* what each reader has got so far

toolVars == <<engine, request, answer>>
vars == <<planVars, toolVars, tables, reading>>

NoTable == [columns |-> <<>>, indexes |-> {}, rows |-> 0]

Table(name) == IF name \in DOMAIN tables THEN tables[name] ELSE NoTable

Unread == [step |-> "none"]

-----------------------------------------------------------------------------
(* The database executes a statement.                                      *)

\* The display width MySQL gives a type that was written without: BOOLEAN is a name of
\* TINYINT(1).
Width == [boolean |-> 1, int |-> 11, bigint |-> 20]

GetsWidth(e, type) ==
    e = "mysql" /\ (type = <<"boolean">> \/ (IntegerWidths /\ type \in {<<"int">>, <<"bigint">>}))

StoredType(e, type) ==
    IF ~GetsWidth(e, type) THEN type
    ELSE IF type = <<"boolean">> THEN Wrapped("tinyint", <<>>) ELSE Wrapped(type[1], <<>>)

Stored(e, c) ==
    [name |-> c.name,
     type |-> StoredType(e, c.type),
     dims |-> IF GetsWidth(e, c.type) THEN <<Width[c.type[1]]>> ELSE c.dims,
     default |-> TimestampDefaults /\ c.type = <<"timestamp">> /\ ~c.null,
     null |-> c.null \/ c.type[1] = "nullable"]

\* What a strict MySQL can only refuse: more than 30 digits after the point, a VARCHAR
\* that with two bytes for its length is longer than a row.
Storable(e, c) ==
    e = "mysql" =>
        /\ Len(c.dims) = 1 => c.dims[1] + 2 <= 65535
        /\ Len(c.dims) = 2 => c.dims[2] <= 30

AllStorable(e, columns) == \A i \in DOMAIN columns : Storable(e, columns[i])

StoredColumns(e, columns) == [i \in DOMAIN columns |-> Stored(e, columns[i])]

NamesOf(columns) == {columns[i].name : i \in DOMAIN columns}

Change(name, t) == tables' = [tables EXCEPT ![name] = t]

\* The tables with one more.
Added(held, name, t) ==
    [n \in DOMAIN held \cup {name} |-> IF n = name THEN t ELSE held[n]]

Create(name, t) == name \notin DOMAIN tables /\ tables' = Added(tables, name, t)

ExecuteTableStatement(s) ==
    \/ /\ s.do = "create_table" /\ AllStorable(engine, s.columns)
       /\ Create(s.table, [NoTable EXCEPT !.columns = StoredColumns(engine, s.columns)])
    \/ /\ s.do = "drop_table"
       /\ s.table \in DOMAIN tables
       /\ tables' = Restrict(tables, DOMAIN tables \ {s.table})
    \/ /\ s.do = "rename_table"
       /\ s.from \in DOMAIN tables /\ s.to \notin DOMAIN tables
       /\ tables' = Added(Restrict(tables, DOMAIN tables \ {s.from}), s.to, tables[s.from])
    \/ /\ s.do = "create_like"
       /\ s.like \in DOMAIN tables
       /\ Create(s.table, [tables[s.like] EXCEPT !.rows = 0])
    \/ /\ s.do = "copy_rows"
       /\ {s.table, s.from} \subseteq DOMAIN tables
       /\ Len(tables[s.table].columns) = Len(tables[s.from].columns)
       /\ Change(s.table, [tables[s.table] EXCEPT !.rows = @ + tables[s.from].rows])

\* MySQL replaces the whole definition of a modified column, ClickHouse only the
\* type; a dropped column leaves the indexes of MySQL.
ExecuteColumnStatement(s) ==
    /\ s.do \in {"add_columns", "modify_columns", "drop_columns"}
    /\ s.table \in DOMAIN tables
    /\ LET t == tables[s.table] IN
       \/ /\ s.do = "add_columns" /\ AllStorable(engine, s.columns)
          /\ NamesOf(s.columns) \cap ColumnNames(t) = {}
          /\ Change(s.table, [t EXCEPT !.columns = @ \o StoredColumns(engine, s.columns)])
       \/ /\ s.do = "modify_columns" /\ AllStorable(engine, s.columns)
          /\ NamesOf(s.columns) \subseteq ColumnNames(t)
          /\ LET New(c) == IF c.name \notin NamesOf(s.columns) THEN c
                           ELSE LET i == CHOOSE i \in DOMAIN s.columns : s.columns[i].name = c.name
                                IN [Stored(engine, s.columns[i]) EXCEPT
                                        !.default = IF engine = "clickhouse" THEN c.default ELSE @]
             IN Change(s.table, [t EXCEPT !.columns = [i \in DOMAIN @ |-> New(@[i])]])
       \/ /\ s.do = "drop_columns"
          /\ ToSet(s.names) \subseteq ColumnNames(t) /\ ToSet(s.names) # ColumnNames(t)
          /\ \A index \in t.indexes : \A k \in DOMAIN index.parts :
                index.parts[k].expression \notin ToSet(s.names)
          /\ LET Shrunk(index) ==
                    [index EXCEPT !.parts =
                        Selected(@, {k \in DOMAIN @ : @[k].column \notin ToSet(s.names)})]
             IN Change(s.table, [t EXCEPT
                    !.columns = Selected(@, {k \in DOMAIN @ : @[k].name \notin ToSet(s.names)}),
                    !.indexes = {index \in {Shrunk(x) : x \in @} : index.parts # <<>>}])

ExecuteIndexStatement(s) ==
    /\ s.do \in {"create_index", "drop_index"}
    /\ s.table \in DOMAIN tables
    /\ LET t == tables[s.table]
           named == {x \in t.indexes : x.name = s.index} IN
       \/ /\ s.do = "create_index" /\ named = {}
          /\ ToSet(s.names) \subseteq ColumnNames(t)
          /\ Change(s.table, [t EXCEPT !.indexes = @ \cup {[name |-> s.index, unique |-> s.unique,
                parts |-> [i \in DOMAIN s.names |-> Column(s.names[i])]]}])
       \/ /\ s.do = "drop_index" /\ named # {}
          /\ Change(s.table, [t EXCEPT !.indexes = @ \ named])

Execute(s) == ExecuteTableStatement(s) \/ ExecuteColumnStatement(s) \/ ExecuteIndexStatement(s)

-----------------------------------------------------------------------------
Init ==
    /\ PlanInit
    /\ \E d \in Databases : engine = d.engine /\ tables = d.tables
    /\ request = [c \in Calls |-> NoRequest]
    /\ answer = [c \in Calls |-> "none"]
    /\ reading = [r \in Readers |-> Unread]

Ask(c, r) == request[c] = NoRequest /\ request' = [request EXCEPT ![c] = r]

\* Mutant: the error of the builder is reported, and its statements are executed.
IgnoresBuilderError(c, r) ==
    /\ Ask(c, r)
    /\ Refusal(engine, r) # "none"
    /\ answer' = [answer EXCEPT ![c] = Refusal(engine, r)]
    /\ Begin(c, [size |-> Len(Built(engine, r)), atomic |-> FALSE])
    /\ UNCHANGED <<engine, tables, reading>>

\* The builder returns an error.
Deny(c, r) ==
    /\ Ask(c, r)
    /\ Refusal(engine, r) # "none"
    /\ answer' = [answer EXCEPT ![c] = Refusal(engine, r)]
    /\ UNCHANGED <<planVars, engine, tables, reading>>

\* DDL is in every plan of a structured tool: none is atomic.
Start(c, r) ==
    /\ Ask(c, r)
    /\ Refusal(engine, r) = "none"
    /\ Begin(c, [size |-> Len(Built(engine, r)), atomic |-> FALSE])
    /\ UNCHANGED <<engine, tables, answer, reading>>

\* The next statement of the call, in time or after it has given up.
Run(c) ==
    /\ Publish(c) \/ PublishLate(c)
    /\ Execute(Built(engine, request[c])[Cardinality(applied[c]) + 1])
    /\ UNCHANGED <<toolVars, reading>>

End(c) ==
    /\ \/ Succeed(c) \/ Forget(c)
       \/ \E how \in Failures : Fail(c, how)
    /\ UNCHANGED <<toolVars, tables, reading>>

\* DescribeTable up to the answer to its first query.  What is kept of the table as
\* it was then is not known to the code.
ReadColumns(r, name) ==
    /\ reading[r] = Unread
    /\ reading' = [reading EXCEPT ![r] =
            IF name \in Identifiers
            THEN [step |-> "columns", table |-> name, seen |-> Table(name),
                  columns |-> describedColumns(engine, Table(name))]
            ELSE [step |-> "failed"]]
    /\ UNCHANGED <<planVars, toolVars, tables>>

\* On to the end of its last query.
ReadIndexes(r) ==
    /\ reading[r].step = "columns"
    /\ LET d == reading[r] IN
       reading' = [reading EXCEPT ![r] =
            [step |-> "described", table |-> d.table, seen |-> d.seen, columns |-> d.columns,
             seenLast |-> Table(d.table), indexes |-> describedIndexes(engine, Table(d.table))]]
    /\ UNCHANGED <<planVars, toolVars, tables>>

\* One of its queries fails, or the deadline passes.
ReadFails(r) ==
    /\ reading[r].step \in {"none", "columns"}
    /\ reading' = [reading EXCEPT ![r] = [step |-> "failed"]]
    /\ UNCHANGED <<planVars, toolVars, tables>>

\* The names a database comes with.
FoundTables == UNION {DOMAIN d.tables : d \in Databases}
FoundColumns == UNION {UNION {ColumnNames(d.tables[name]) : name \in DOMAIN d.tables} : d \in Databases}
FoundIndexes == UNION {UNION {IndexNames(d.tables[name]) : name \in DOMAIN d.tables} : d \in Databases}

TableNames == FoundTables \cup UNION {QuotedNames(r) : r \in Requests}

Next ==
    \/ \E c \in Calls, r \in Requests : Deny(c, r) \/ Start(c, r)
    \/ \E c \in Calls : Run(c) \/ End(c)
    \/ \E r \in Readers, name \in TableNames : ReadColumns(r, name)
    \/ \E r \in Readers : ReadIndexes(r) \/ ReadFails(r)

Spec == Init /\ [][Next]_vars

-----------------------------------------------------------------------------
(* Properties.                                                             *)

\* What the fields of the model hold: a call runs exactly when its builder returned no
\* error, and its effects are statements that the builder wrote.
TypeOK ==
    /\ \A c \in Calls :
          /\ answer[c] \in {"none", "unsupported_capability", "invalid_input"}
          /\ phase[c] # "idle" <=> request[c] # NoRequest /\ answer[c] = "none"
          /\ phase[c] # "idle" => applied[c] \subseteq DOMAIN Built(engine, request[c])

\* Every name the structured tools bring into a database went through validation:
\* tables, columns and indexes that it did not come with have single identifiers for
\* names.
OnlyIdentifiers ==
    \A name \in DOMAIN tables :
        /\ name \in Identifiers \cup FoundTables
        /\ ColumnNames(tables[name]) \subseteq Identifiers \cup FoundColumns
        /\ IndexNames(tables[name]) \subseteq Identifiers \cup FoundIndexes

\* Some effect of call c exists.
Took(c) == applied[c] # {}

\* A call of copy_table may fail anywhere and be repeated: no table ever gets the
\* rows twice, as long as no table is dropped or renamed meanwhile.
CopiedOnce ==
    \/ \E c \in Calls : Took(c) /\ request[c].tool \in {"drop_table", "rename_table"}
    \/ \A name \in DOMAIN tables : tables[name].rows <= 1

\* A copy that is reported as executed is what was asked for: all the columns and
\* indexes, and the rows exactly for copy_table with with_data.
CopyAsAsked ==
    \A c \in Calls :
        /\ phase[c] = "ok" /\ request[c].tool \in CopyTools
        /\ \A other \in Calls \ {c} : ~Took(other)
        => LET from == tables[request[c].source]
               rows == IF request[c].tool = "copy_table" /\ request[c].with_data THEN from.rows ELSE 0
           IN tables[request[c].destination] = [from EXCEPT !.rows = rows]

\* What describe_table shows of a table that create_table made can be read as what was
\* asked for: the columns in order, nullable where requested, with the dimensions of those
\* that were given some.  Where none were given MySQL shows a width of its own.
DescribedAsCreated ==
    \A c \in Calls, r \in Readers :
        /\ request[c] # NoRequest /\ request[c].tool = "create_table"
        /\ Took(c) /\ \A other \in Calls \ {c} : ~Took(other)
        /\ reading[r].step = "described" /\ reading[r].table = request[c].table
        /\ reading[r].seen # NoTable
        => LET asked == request[c].columns
               shown == reading[r].columns IN
           /\ Len(shown) = Len(asked)
           /\ \A i \in DOMAIN asked :
                 /\ shown[i].name = asked[i].name
                 /\ shown[i].nullable = asked[i].nullable
                 /\ Dimensions(asked[i]) # <<>> => shown[i].dims = Dimensions(asked[i])

\* The name of a value in a column's type contains a parenthesis.
QuotedParenthesis(t) == \E i \in DOMAIN t.columns : Quoting(t.columns[i].type)

\* A description is exact for both moments it was read at: which columns may be null,
\* and for each index its name, its columns in order and whether it is unique.  An
\* index on a column that the description lacks is shown only if the table changed
\* between the two queries.  Except for types that quote a parenthesis.
DescribedAsStored ==
    \A r \in Readers : reading[r].step = "described" /\ ~QuotedParenthesis(reading[r].seen) =>
        LET d == reading[r]
            columnNames == {d.columns[i].name : i \in DOMAIN d.columns} IN
        /\ \A i \in DOMAIN d.columns : d.columns[i].nullable = d.seen.columns[i].null
        /\ IsInjective([k \in DOMAIN d.indexes |-> d.indexes[k].name])
        /\ \A index \in d.seenLast.indexes : \E k \in DOMAIN d.indexes :
              /\ d.indexes[k].name = index.name
              /\ d.indexes[k].columns = Selected([j \in DOMAIN index.parts |-> index.parts[j].column],
                                            {j \in DOMAIN index.parts : index.parts[j].column # Absent})
              /\ d.indexes[k].unique = index.unique
        /\ \/ d.seen # d.seenLast
           \/ \A k \in DOMAIN d.indexes : ToSet(d.indexes[k].columns) \subseteq columnNames

\* The compatibility design: "MySQL 8.x functional index expressions remain present
\* in normalized metadata."
ExpressionsRemain ==
    \A r \in Readers : reading[r].step = "described" =>
        \A index \in reading[r].seenLast.indexes : \A j \in DOMAIN index.parts :
            index.parts[j].expression # Absent =>
                \E k \in DOMAIN reading[r].indexes :
                    /\ reading[r].indexes[k].name = index.name
                    /\ reading[r].indexes[k].expression = index.parts[j].expression
=============================================================================
