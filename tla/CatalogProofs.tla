------------------------------ MODULE CatalogProofs ------------------------------
(***************************************************************************)
(* What the structured operations leave in a database, and what its        *)
(* description says of them, for any calls, requests and databases.        *)
(*                                                                         *)
(* copy_table never doubles rows, and a copy reported as executed is a     *)
(* copy.  The invariant follows a call statement by statement.  As long as *)
(* no table is dropped or renamed, the destination of a call that has      *)
(* taken effect exists, belongs to that call alone, and is empty between   *)
(* its two statements; so the second can fill it only once.                *)
(*                                                                         *)
(* Every name a statement carries was validated (NamesInv), a created      *)
(* table is described as the request asked for (SeenInv), and every table  *)
(* as it was when it was read (StoredInv).  What the builders and dialects *)
(* compute is a loop over a list or over characters; the lemmas about them *)
(* are inductions of the module Recursion.                                 *)
(***************************************************************************)
EXTENDS Catalog, Recursion, FiniteSetTheorems, SequenceTheorems, TLAPS

IsTable(t) ==
    t = [columns |-> t.columns, indexes |-> t.indexes, rows |-> t.rows] /\ t.rows \in Nat

\* What the database holds are tables.
Held ==
    /\ tables = [name \in DOMAIN tables |-> tables[name]]
    /\ \A name \in DOMAIN tables : IsTable(tables[name])

\* The state of the calls keeps its form.
Shaped ==
    /\ request \in [Calls -> Requests \cup {NoRequest}]
    /\ DOMAIN work = Calls
    /\ phase \in [Calls -> {"idle", "running", "ok"} \cup Failures]
    /\ applied \in [Calls -> SUBSET Nat]
    /\ late \in [Calls -> BOOLEAN]

\* A call that was not made has left no trace, one that was made has executed its
\* first statements, all of them if it says so.
Progressed(c) ==
    /\ phase[c] = "idle" => applied[c] = {}
    /\ late[c] => phase[c] \in Failures
    /\ phase[c] # "idle" =>
          /\ request[c] \in Requests
          /\ work[c] = [size |-> Len(Built(engine, request[c])), atomic |-> FALSE]
          /\ \E k \in 0 .. Len(Built(engine, request[c])) : applied[c] = 1 .. k
    /\ phase[c] = "ok" => applied[c] = Whole(work[c])

\* Call c has made its copy, with or without its rows.
Copied(c) == Took(c) /\ request[c].tool \in CopyTools

Unmoved == \A c \in Calls : Took(c) => request[c].tool \notin {"drop_table", "rename_table"}

\* The destination of c is its own, and empty between its statements.
Owned(c) ==
    /\ request[c].destination \in DOMAIN tables
    /\ applied[c] = {1} => tables[request[c].destination].rows = 0
    /\ \A d \in Calls \ {c} : Copied(d) => request[d].destination # request[c].destination

RowsOnce ==
    Unmoved => /\ \A name \in DOMAIN tables : tables[name].rows <= 1
               /\ \A c \in Calls : Copied(c) => Owned(c)

Alone(c) == \A other \in Calls \ {c} : ~Took(other)

\* The copy of a call that nobody disturbs.
Faithful(c) ==
    LET r == request[c] IN
    /\ r.source \in DOMAIN tables /\ r.destination \in DOMAIN tables
    /\ r.source # r.destination
    /\ tables[r.destination] =
          [tables[r.source] EXCEPT !.rows = IF applied[c] = {1} THEN 0 ELSE @]

IInv ==
    /\ Held /\ Shaped
    /\ \A c \in Calls : Progressed(c)
    /\ RowsOnce
    /\ \A c \in Calls : Copied(c) /\ Alone(c) => Faithful(c)

-----------------------------------------------------------------------------
(* Statements.                                                             *)

\* Two statements, one after the other.
LEMMA Pair ==
    ASSUME NEW x, NEW y
    PROVE  Len(<<x>> \o <<y>>) = 2 /\ (<<x>> \o <<y>>)[1] = x /\ (<<x>> \o <<y>>)[2] = y
<1>1. <<x>> \in Seq({x, y}) /\ <<y>> \in Seq({x, y})
  OBVIOUS
<1>2. QED
  BY <1>1

\* A copy is one or two statements, every other operation one that bears its name.
LEMMA Statements ==
    ASSUME NEW e, NEW r, r.tool \in StructuredTools
    PROVE  /\ Len(Built(e, r)) \in 1 .. 2
           /\ r.tool \in CopyTools =>
                 /\ Len(Built(e, r)) = IF WithData(r) THEN 2 ELSE 1
                 /\ Built(e, r)[1] =
                      [do |-> "create_like", table |-> r.destination, like |-> r.source]
                 /\ WithData(r) => Built(e, r)[2] =
                      [do |-> "copy_rows", table |-> r.destination, from |-> r.source]
           /\ r.tool \notin CopyTools =>
                 /\ Len(Built(e, r)) = 1
                 /\ Built(e, r)[1].do = r.tool
<1>1. CASE r.tool \in CopyTools
  <2>1. Built(e, r) = CopyTable(r)
    BY <1>1 DEF Built, CopyTools
  <2>2. CASE WithData(r)
    <3>1. CopyTable(r) =
            <<[do |-> "create_like", table |-> r.destination, like |-> r.source]>>
            \o <<[do |-> "copy_rows", table |-> r.destination, from |-> r.source]>>
      BY <2>2 DEF CopyTable
    <3>2. QED
      BY <1>1, <2>1, <2>2, <3>1, Pair
  <2>3. CASE ~WithData(r)
    <3>1. CopyTable(r) =
            <<[do |-> "create_like", table |-> r.destination, like |-> r.source]>>
      BY <2>3 DEF CopyTable
    <3>2. QED
      BY <1>1, <2>1, <2>3, <3>1
  <2>4. QED
    BY <2>2, <2>3
<1>2. CASE r.tool \notin CopyTools
  <2>1. CASE r.tool \in {"create_table", "add_columns", "modify_columns"}
    BY <1>2, <2>1 DEF Built
  <2>2. CASE r.tool \in {"drop_table", "drop_columns"}
    BY <1>2, <2>2 DEF Built
  <2>3. CASE r.tool \in IndexTools
    BY <1>2, <2>3 DEF Built, IndexTools
  <2>4. CASE r.tool = "rename_table"
    BY <1>2, <2>4 DEF Built
  <2>5. QED
    BY <1>2, <2>1, <2>2, <2>3, <2>4 DEF StructuredTools, TableTools
<1>3. QED
  BY <1>1, <1>2

\* One statement more: what Following says of work that is not atomic.
LEMMA OneMore ==
    ASSUME NEW n \in Nat, NEW k \in 0 .. n,
           NEW done \in Following([size |-> n, atomic |-> FALSE], 1 .. k)
    PROVE  k + 1 \in 1 .. n /\ done = 1 .. (k + 1)
<1>1. PICK m \in 1 .. n : done = 1 .. m /\ 1 .. k = 1 .. (m - 1)
  BY DEF Following, Whole
<1>2. Cardinality(1 .. k) = k /\ Cardinality(1 .. (m - 1)) = m - 1
  BY FS_Interval
<1>3. k = m - 1
  BY <1>1, <1>2
<1>4. QED
  BY <1>1, <1>3

\* Changing a table, but not its rows, keeps the database in form.
LEMMA ChangeKeepsRows ==
    ASSUME Held, NEW name \in DOMAIN tables, NEW t, Change(name, t), IsTable(t)
    PROVE  /\ Held' /\ DOMAIN tables' = DOMAIN tables
           /\ tables'[name] = t
           /\ \A n \in DOMAIN tables \ {name} : tables'[n] = tables[n]
BY DEF Held, Change

\* Creating one adds one.
LEMMA CreateAdds ==
    ASSUME Held, NEW name, NEW t, Create(name, t), IsTable(t)
    PROVE  /\ Held' /\ DOMAIN tables' = DOMAIN tables \cup {name} /\ name \notin DOMAIN tables
           /\ tables'[name] = t
           /\ \A n \in DOMAIN tables : tables'[n] = tables[n]
BY DEF Held, Create, Added

\* A database that executes a statement other than a drop, a renaming or a copy of
\* rows keeps all tables and their rows.
KeepsRows ==
    /\ DOMAIN tables \subseteq DOMAIN tables'
    /\ \A name \in DOMAIN tables : tables'[name].rows = tables[name].rows
    /\ \A name \in DOMAIN tables' \ DOMAIN tables : tables'[name].rows = 0

\* Other columns, or other indexes, leave a table with its rows.
LEMMA NewColumns ==
    ASSUME NEW t, IsTable(t), NEW columns
    PROVE  IsTable([t EXCEPT !.columns = columns]) /\ [t EXCEPT !.columns = columns].rows = t.rows
BY DEF IsTable

\* The same of its indexes,
LEMMA NewIndexes ==
    ASSUME NEW t, IsTable(t), NEW indexes
    PROVE  IsTable([t EXCEPT !.indexes = indexes]) /\ [t EXCEPT !.indexes = indexes].rows = t.rows
BY DEF IsTable

\* and of both.
LEMMA NewColumnsAndIndexes ==
    ASSUME NEW t, IsTable(t), NEW columns, NEW indexes
    PROVE  /\ IsTable([t EXCEPT !.columns = columns, !.indexes = indexes])
           /\ [t EXCEPT !.columns = columns, !.indexes = indexes].rows = t.rows
<1> DEFINE u == [t EXCEPT !.columns = columns]
<1>1. [t EXCEPT !.columns = columns, !.indexes = indexes] = [u EXCEPT !.indexes = indexes]
  OBVIOUS
<1>2. IsTable(u) /\ u.rows = t.rows
  BY NewColumns
<1> HIDE DEF u
<1>3. QED
  BY <1>1, <1>2, NewIndexes

\* Changes of columns.
LEMMA ColumnStatements ==
    ASSUME Held, NEW s, ExecuteColumnStatement(s)
    PROVE  Held' /\ KeepsRows
<1> DEFINE t == tables[s.table]
<1>1. s.table \in DOMAIN tables /\ IsTable(t)
  BY DEF ExecuteColumnStatement, Held
<1>2. \E u : Change(s.table, u) /\ IsTable(u) /\ u.rows = t.rows
  <2>1. CASE s.do = "add_columns"
    <3>1. \E columns : Change(s.table, [t EXCEPT !.columns = columns])
      BY <2>1, Zenon DEF ExecuteColumnStatement
    <3>2. QED
      BY <1>1, <3>1, NewColumns
  <2>2. CASE s.do = "modify_columns"
    <3>1. \E columns : Change(s.table, [t EXCEPT !.columns = columns])
      BY <2>2 DEF ExecuteColumnStatement
    <3>2. QED
      BY <1>1, <3>1, NewColumns
  <2>3. CASE s.do = "drop_columns"
    <3>1. PICK columns, indexes :
             Change(s.table, [t EXCEPT !.columns = columns, !.indexes = indexes])
      BY <2>3 DEF ExecuteColumnStatement
    <3>2. \A x : IsTable(x) =>
             /\ IsTable([x EXCEPT !.columns = columns, !.indexes = indexes])
             /\ [x EXCEPT !.columns = columns, !.indexes = indexes].rows = x.rows
      BY NewColumnsAndIndexes
    <3> DEFINE u == [t EXCEPT !.columns = columns, !.indexes = indexes]
    <3>3. IsTable(u) /\ u.rows = t.rows
      BY <1>1, <3>2
    <3>4. QED
      BY <3>1, <3>3
  <2>4. QED
    BY <2>1, <2>2, <2>3 DEF ExecuteColumnStatement
<1>3. QED
  BY <1>1, <1>2, ChangeKeepsRows DEF KeepsRows

\* Changes of indexes.
LEMMA IndexStatements ==
    ASSUME Held, NEW s, ExecuteIndexStatement(s)
    PROVE  Held' /\ KeepsRows
<1> DEFINE t == tables[s.table]
<1>1. s.table \in DOMAIN tables /\ IsTable(t)
  BY DEF ExecuteIndexStatement, Held
<1>2. \E indexes : Change(s.table, [t EXCEPT !.indexes = indexes])
  BY DEF ExecuteIndexStatement
<1>3. PICK indexes : Change(s.table, [t EXCEPT !.indexes = indexes])
  BY <1>2
<1>4. [t EXCEPT !.indexes = indexes] = [columns |-> t.columns, indexes |-> indexes, rows |-> t.rows]
  BY <1>1 DEF IsTable
<1>5. QED
  BY <1>1, <1>3, <1>4, ChangeKeepsRows DEF IsTable, KeepsRows

\* What the statements of a copy do.
LEMMA CopyStatements ==
    ASSUME Held, NEW s, Execute(s)
    PROVE  /\ s.do = "create_like" =>
                 /\ s.like \in DOMAIN tables /\ s.table \notin DOMAIN tables
                 /\ Held' /\ DOMAIN tables' = DOMAIN tables \cup {s.table}
                 /\ tables'[s.table] = [tables[s.like] EXCEPT !.rows = 0]
                 /\ \A n \in DOMAIN tables : tables'[n] = tables[n]
           /\ s.do = "copy_rows" =>
                 /\ s.from \in DOMAIN tables /\ s.table \in DOMAIN tables
                 /\ Held' /\ DOMAIN tables' = DOMAIN tables
                 /\ tables'[s.table] =
                      [tables[s.table] EXCEPT !.rows = @ + tables[s.from].rows]
                 /\ \A n \in DOMAIN tables \ {s.table} : tables'[n] = tables[n]
<1>1. CASE s.do = "create_like"
  <2>1. s.like \in DOMAIN tables /\ Create(s.table, [tables[s.like] EXCEPT !.rows = 0])
    BY <1>1 DEF Execute, ExecuteTableStatement, ExecuteColumnStatement, ExecuteIndexStatement
  <2>2. IsTable([tables[s.like] EXCEPT !.rows = 0])
    BY <2>1 DEF Held, IsTable
  <2>3. QED
    BY <1>1, <2>1, <2>2, CreateAdds
<1>2. CASE s.do = "copy_rows"
  <2>1. /\ s.from \in DOMAIN tables /\ s.table \in DOMAIN tables
        /\ Change(s.table, [tables[s.table] EXCEPT !.rows = @ + tables[s.from].rows])
    BY <1>2 DEF Execute, ExecuteTableStatement, ExecuteColumnStatement, ExecuteIndexStatement
  <2>2. IsTable([tables[s.table] EXCEPT !.rows = @ + tables[s.from].rows])
    BY <2>1 DEF Held, IsTable
  <2>3. QED
    BY <1>2, <2>1, <2>2, ChangeKeepsRows
<1>3. QED
  BY <1>1, <1>2

\* What every other statement does.
LEMMA OtherStatements ==
    ASSUME Held, NEW s, Execute(s), s.do \notin {"create_like", "copy_rows"}
    PROVE  Held' /\ (s.do \notin {"drop_table", "rename_table"} => KeepsRows)
<1>1. CASE s.do = "create_table"
  <2>1. \E t : Create(s.table, t) /\ IsTable(t) /\ t.rows = 0
    <3>1. Create(s.table, [NoTable EXCEPT !.columns = StoredColumns(engine, s.columns)])
      BY <1>1 DEF Execute, ExecuteTableStatement, ExecuteColumnStatement, ExecuteIndexStatement
    <3>2. IsTable(NoTable) /\ NoTable.rows = 0
      BY DEF NoTable, IsTable
    <3>3. QED
      BY <3>1, <3>2, NewColumns
  <2>2. QED
    BY <2>1, CreateAdds DEF KeepsRows
<1>2. CASE s.do = "drop_table"
  <2>1. tables' = Restrict(tables, DOMAIN tables \ {s.table})
    BY <1>2 DEF Execute, ExecuteTableStatement, ExecuteColumnStatement, ExecuteIndexStatement
  <2>2. QED
    BY <1>2, <2>1 DEF Restrict, Held
<1>3. CASE s.do = "rename_table"
  <2>1. /\ s.from \in DOMAIN tables
        /\ tables' = Added(Restrict(tables, DOMAIN tables \ {s.from}), s.to, tables[s.from])
    BY <1>3 DEF Execute, ExecuteTableStatement, ExecuteColumnStatement, ExecuteIndexStatement
  <2>2. QED
    BY <1>3, <2>1 DEF Restrict, Added, Held
<1>4. CASE ExecuteColumnStatement(s)
  BY <1>4, ColumnStatements
<1>5. CASE ExecuteIndexStatement(s)
  BY <1>5, IndexStatements
<1>6. QED
  BY <1>1, <1>2, <1>3, <1>4, <1>5 DEF Execute, ExecuteTableStatement

-----------------------------------------------------------------------------
(* The invariant.                                                          *)

\* The invariant holds at first,
LEMMA InitInv == Init => IInv
<1> SUFFICES ASSUME Init PROVE IInv
  OBVIOUS
<1>1. PICK d \in Databases : tables = d.tables
  BY DEF Init
<1>2. /\ tables = [name \in DOMAIN tables |-> tables[name]]
      /\ \A name \in DOMAIN tables :
            LET t == tables[name] IN
            t = [columns |-> t.columns, indexes |-> t.indexes, rows |-> t.rows] /\ t.rows \in 0 .. 1
  BY <1>1, CatalogAssumption
<1>3. Held /\ \A name \in DOMAIN tables : tables[name].rows <= 1
  BY <1>2 DEF Held, IsTable
<1>4. Shaped
  BY DEF Init, PlanInit, Shaped
<1>5. \A c \in Calls : Progressed(c) /\ ~Took(c)
  BY DEF Init, PlanInit, Progressed, Took
<1>6. QED
  BY <1>3, <1>4, <1>5 DEF IInv, RowsOnce, Copied

\* A step that only ends, opens or refuses a call changes neither the effects nor the
\* tables, and no request of a call that has taken effect.
LEMMA QuietStep ==
    ASSUME IInv, UNCHANGED <<applied, tables, engine>>, Shaped', \A c \in Calls : Progressed(c)',
           \A c \in Calls : Took(c) => request'[c] = request[c]
    PROVE  IInv'
<1>1. \A c \in Calls : Took(c)' <=> Took(c)
  BY DEF Took
<1>2. Held'
  BY DEF IInv, Held
<1>3. \A c \in Calls : (Copied(c)' <=> Copied(c)) /\ (Alone(c)' <=> Alone(c))
  BY <1>1 DEF Copied, Alone
<1>4. Unmoved' <=> Unmoved
  BY <1>1 DEF Unmoved
<1>5. \A c \in Calls : Copied(c) /\ Owned(c) => Owned(c)'
  <2> SUFFICES ASSUME NEW c \in Calls, Copied(c), Owned(c) PROVE Owned(c)'
    OBVIOUS
  <2>1. request'[c] = request[c]
    BY DEF Copied
  <2>2. \A d \in Calls : Copied(d) => request'[d] = request[d]
    BY DEF Copied
  <2>3. QED
    BY <1>3, <2>1, <2>2 DEF Owned
<1>6. \A c \in Calls : Copied(c) /\ Faithful(c) => Faithful(c)'
  BY DEF Copied, Faithful
<1>7. RowsOnce'
  BY <1>3, <1>4, <1>5 DEF IInv, RowsOnce
<1>8. QED
  BY <1>2, <1>3, <1>6, <1>7 DEF IInv

\* The call before and after one of its statements.
LEMMA RunMoves ==
    ASSUME IInv, NEW c \in Calls, Run(c)
    PROVE  /\ Shaped' /\ \A d \in Calls : Progressed(d)'
           /\ request[c].tool \in StructuredTools
           /\ \E k \in 0 .. 1 :
                 /\ applied[c] = 1 .. k
                 /\ k + 1 \in 1 .. Len(Built(engine, request[c]))
                 /\ applied' = [applied EXCEPT ![c] = 1 .. (k + 1)]
                 /\ Execute(Built(engine, request[c])[k + 1])
<1> DEFINE built == Built(engine, request[c])
<1>1. phase[c] \notin {"idle", "ok"} /\ request[c] \in Requests
  BY DEF Run, Publish, PublishLate, IInv, Progressed, Failures
<1>2. request[c].tool \in StructuredTools
  BY <1>1, CatalogAssumption
<1>3. Len(built) \in 1 .. 2
  BY <1>2, Statements
<1> HIDE DEF built
<1>4. PICK k \in 0 .. Len(built) : applied[c] = 1 .. k
  BY <1>1 DEF IInv, Progressed, built
<1>5. work[c] = [size |-> Len(built), atomic |-> FALSE]
  BY <1>1 DEF IInv, Progressed, built
<1>6. PICK done \in Following(work[c], applied[c]) : applied' = [applied EXCEPT ![c] = done]
  BY DEF Run, Publish, PublishLate
<1>7. k + 1 \in 1 .. Len(built) /\ done = 1 .. (k + 1)
  BY <1>3, <1>4, <1>5, <1>6, OneMore
<1>8. Cardinality(applied[c]) + 1 = k + 1
  <2>1. k \in Int /\ k >= 0
    BY <1>3
  <2>2. Cardinality(1 .. k) = k
    BY <2>1, FS_Interval
  <2>3. QED
    BY <1>4, <2>1, <2>2
<1>9. Execute(built[k + 1])
  BY <1>8 DEF Run, built
<1>10. /\ UNCHANGED <<work, phase, request, engine, answer>>
       /\ late' \in [Calls -> BOOLEAN] /\ \A d \in Calls : late'[d] => late[d]
  BY DEF Run, Publish, PublishLate, toolVars, IInv, Shaped
<1>11. Shaped'
  <2>1. 1 .. (k + 1) \in SUBSET Nat
    BY <1>3
  <2>2. applied' \in [Calls -> SUBSET Nat]
    BY <1>6, <1>7, <2>1 DEF IInv, Shaped
  <2>3. QED
    BY <1>10, <2>2 DEF IInv, Shaped
<1>12. ASSUME NEW d \in Calls PROVE Progressed(d)'
  <2>1. CASE d = c
    <3>1. applied'[d] = 1 .. (k + 1)
      BY <2>1, <1>6, <1>7 DEF IInv, Shaped
    <3>2. QED
      BY <1>1, <1>3, <1>5, <1>7, <1>10, <2>1, <3>1 DEF IInv, Progressed, built
  <2>2. CASE d # c
    <3>1. applied'[d] = applied[d]
      BY <2>2, <1>6 DEF IInv, Shaped
    <3>2. QED
      BY <1>10, <3>1 DEF IInv, Progressed
  <2>3. QED
    BY <2>1, <2>2
<1>13. QED
  <2>1. k \in 0 .. 1
    <3>1. \A n \in 1 .. 2 : \A m \in 0 .. n : m + 1 \in 1 .. n => m \in 0 .. 1
      OBVIOUS
    <3>2. QED
      BY <1>3, <1>7, <3>1, Zenon
  <2>2. QED
    BY <1>2, <1>4, <1>6, <1>7, <1>9, <1>11, <1>12, <2>1 DEF built

\* A statement of a structured tool.
LEMMA RunInv ==
    ASSUME IInv, NEW c \in Calls, Run(c)
    PROVE  IInv'
<1> DEFINE r == request[c]
<1>1. Shaped' /\ (\A d \in Calls : Progressed(d)') /\ r.tool \in StructuredTools
  BY RunMoves
<1>2. PICK k \in 0 .. 1 :
         /\ applied[c] = 1 .. k
         /\ k + 1 \in 1 .. Len(Built(engine, r))
         /\ applied' = [applied EXCEPT ![c] = 1 .. (k + 1)]
         /\ Execute(Built(engine, r)[k + 1])
  BY RunMoves
<1> DEFINE s == Built(engine, r)[k + 1]
<1>3. UNCHANGED <<request, engine>>
  BY DEF Run, toolVars
<1>4. /\ Took(c)' /\ (k = 1 => Took(c)) /\ (k = 0 => ~Took(c))
      /\ (k = 0 <=> applied'[c] = {1}) /\ (k = 1 <=> applied[c] = {1})
      /\ \A d \in Calls \ {c} : applied'[d] = applied[d] /\ (Took(d)' <=> Took(d))
  <2>1. applied'[c] = 1 .. (k + 1) /\ \A d \in Calls \ {c} : applied'[d] = applied[d]
    BY <1>2 DEF IInv, Shaped
  <2>2. 1 .. 0 = {} /\ 1 .. 1 = {1} /\ 1 .. 2 = {1, 2}
    OBVIOUS
  <2>3. QED
    BY <1>2, <2>1, <2>2 DEF Took
<1>5. /\ Copied(c)' <=> r.tool \in CopyTools
      /\ \A d \in Calls \ {c} : (Copied(d)' <=> Copied(d)) /\ ~Alone(d)'
      /\ Alone(c)' <=> Alone(c)
      /\ Unmoved' => Unmoved /\ r.tool \notin {"drop_table", "rename_table"}
  BY <1>3, <1>4 DEF Copied, Alone, Unmoved
<1>6. CASE r.tool \notin CopyTools
  <2>1. k = 0 /\ s.do = r.tool
    <3>1. Len(Built(engine, r)) = 1 /\ Built(engine, r)[1].do = r.tool
      BY <1>1, <1>6, Statements
    <3>2. k = 0
      BY <1>2, <3>1
    <3>3. QED
      BY <3>1, <3>2
  <2>2. s.do \notin {"create_like", "copy_rows"}
    BY <1>1, <2>1 DEF StructuredTools, TableTools, IndexTools, CopyTools
  <2>3. Held' /\ (r.tool \notin {"drop_table", "rename_table"} => KeepsRows)
    BY <1>2, <2>1, <2>2, OtherStatements DEF IInv
  <2>4. RowsOnce'
    <3> SUFFICES ASSUME Unmoved'
                 PROVE  /\ \A name \in DOMAIN tables' : tables'[name].rows <= 1
                        /\ \A d \in Calls : Copied(d)' => Owned(d)'
      BY DEF RowsOnce
    <3>1. KeepsRows /\ RowsOnce /\ Unmoved
      BY <1>5, <2>3 DEF IInv
    <3>2. ASSUME NEW d \in Calls, Copied(d)' PROVE Owned(d)'
      <4>1. d # c /\ Copied(d) /\ Owned(d)
        BY <1>5, <1>6, <3>1, <3>2 DEF RowsOnce
      <4>2. QED
        BY <1>3, <1>4, <1>5, <1>6, <3>1, <4>1 DEF Owned, KeepsRows
    <3>3. QED
      BY <3>1, <3>2 DEF RowsOnce, KeepsRows
  <2>5. QED
    BY <1>1, <1>5, <1>6, <2>3, <2>4 DEF IInv
<1>7. CASE r.tool \in CopyTools /\ k = 0
  <2>1. s = [do |-> "create_like", table |-> r.destination, like |-> r.source]
    <3>1. Built(engine, r)[1] = [do |-> "create_like", table |-> r.destination, like |-> r.source]
      BY <1>1, <1>7, Statements
    <3>2. QED
      BY <1>7, <3>1
  <2>2. /\ r.source \in DOMAIN tables /\ r.destination \notin DOMAIN tables
        /\ Held' /\ DOMAIN tables' = DOMAIN tables \cup {r.destination}
        /\ tables'[r.destination] = [tables[r.source] EXCEPT !.rows = 0]
        /\ \A n \in DOMAIN tables : tables'[n] = tables[n]
    <3>1. s.do = "create_like" /\ s.table = r.destination /\ s.like = r.source
      BY <2>1
    <3> HIDE DEF s
    <3>2. Held /\ Execute(s)
      BY <1>2 DEF IInv, s
    <3>3. QED
      BY <3>1, <3>2, CopyStatements
  <2>3. tables'[r.destination].rows = 0
    BY <2>2 DEF IInv, Held, IsTable
  <2>4. RowsOnce'
    <3> SUFFICES ASSUME Unmoved'
                 PROVE  /\ \A name \in DOMAIN tables' : tables'[name].rows <= 1
                        /\ \A d \in Calls : Copied(d)' => Owned(d)'
      BY DEF RowsOnce
    <3>1. RowsOnce /\ Unmoved
      BY <1>5 DEF IInv
    <3>2. ASSUME NEW d \in Calls \ {c}, Copied(d)' PROVE Owned(d)'
      <4>1. Copied(d) /\ Owned(d)
        BY <1>5, <3>1, <3>2 DEF RowsOnce
      <4>2. request[d].destination # r.destination
        BY <2>2, <4>1 DEF Owned
      <4>3. QED
        BY <1>3, <1>4, <1>5, <2>2, <4>1, <4>2 DEF Owned
    <3>3. Owned(c)'
      <4>1. \A d \in Calls \ {c} : Copied(d)' => request[d].destination # r.destination
        BY <1>5, <2>2, <3>1 DEF RowsOnce, Owned
      <4>2. QED
        BY <1>3, <2>2, <2>3, <4>1 DEF Owned
    <3>4. QED
      <4>1. \A name \in DOMAIN tables : tables'[name].rows <= 1
        BY <2>2, <3>1 DEF RowsOnce
      <4>2. QED
        <5>1. \A d \in Calls : Copied(d)' => Owned(d)'
          BY <3>2, <3>3
        <5>2. \A name \in DOMAIN tables' : tables'[name].rows <= 1
          <6>1. ASSUME NEW name \in DOMAIN tables' PROVE tables'[name].rows <= 1
            <7>1. CASE name = r.destination
              BY <2>3, <7>1
            <7>2. CASE name # r.destination
              BY <2>2, <4>1, <7>2
            <7>3. QED
              BY <7>1, <7>2
          <6>2. QED
            BY <6>1
        <5>3. QED
          BY <5>1, <5>2
  <2>5. Faithful(c)'
    <3>1. r.source # r.destination /\ tables'[r.source] = tables[r.source] /\ applied'[c] = {1}
      BY <1>4, <1>7, <2>2
    <3>2. QED
      BY <1>3, <2>2, <3>1 DEF Faithful
  <2>6. QED
    BY <1>1, <1>5, <2>2, <2>4, <2>5 DEF IInv
<1>8. CASE r.tool \in CopyTools /\ k = 1
  <2>1. s = [do |-> "copy_rows", table |-> r.destination, from |-> r.source]
    <3>1. Len(Built(engine, r)) = IF WithData(r) THEN 2 ELSE 1
      BY <1>1, <1>8, Statements
    <3>2. WithData(r)
      BY <1>2, <1>8, <3>1
    <3>3. Built(engine, r)[2] = [do |-> "copy_rows", table |-> r.destination, from |-> r.source]
      BY <1>1, <1>8, <3>2, Statements
    <3>4. QED
      BY <1>8, <3>3
  <2>2. /\ r.source \in DOMAIN tables /\ r.destination \in DOMAIN tables
        /\ Held' /\ DOMAIN tables' = DOMAIN tables
        /\ tables'[r.destination] =
              [tables[r.destination] EXCEPT !.rows = @ + tables[r.source].rows]
        /\ \A n \in DOMAIN tables \ {r.destination} : tables'[n] = tables[n]
    <3>1. s.do = "copy_rows" /\ s.table = r.destination /\ s.from = r.source
      BY <2>1
    <3> HIDE DEF s
    <3>2. Held /\ Execute(s)
      BY <1>2 DEF IInv, s
    <3>3. QED
      BY <3>1, <3>2, CopyStatements
  <2>3. /\ IsTable(tables[r.source]) /\ IsTable(tables[r.destination])
        /\ tables'[r.destination].rows = tables[r.destination].rows + tables[r.source].rows
    BY <2>2 DEF IInv, Held, IsTable
  <2>4. Copied(c)
    BY <1>4, <1>8 DEF Copied
  <2>5. RowsOnce'
    <3> SUFFICES ASSUME Unmoved'
                 PROVE  /\ \A name \in DOMAIN tables' : tables'[name].rows <= 1
                        /\ \A d \in Calls : Copied(d)' => Owned(d)'
      BY DEF RowsOnce
    <3>1. RowsOnce /\ Unmoved /\ Owned(c)
      BY <1>5, <2>4 DEF IInv, RowsOnce
    <3>2. tables'[r.destination].rows <= 1
      <4>1. tables[r.destination].rows = 0 /\ tables[r.source].rows <= 1
        BY <1>4, <1>8, <2>2, <3>1 DEF Owned, RowsOnce
      <4>2. QED
        BY <2>3, <4>1 DEF IsTable
    <3>3. ASSUME NEW d \in Calls \ {c}, Copied(d)' PROVE Owned(d)'
      <4>1. Copied(d) /\ Owned(d)
        BY <1>5, <3>1, <3>3 DEF RowsOnce
      <4>2. request[d].destination # r.destination
        BY <2>4, <4>1 DEF Owned
      <4>3. QED
        BY <1>3, <1>4, <1>5, <2>2, <2>4, <4>1, <4>2 DEF Owned
    <3>4. Owned(c)'
      BY <1>3, <1>4, <1>5, <1>8, <2>2, <3>1 DEF Owned
    <3>5. QED
      BY <2>2, <3>1, <3>2, <3>3, <3>4 DEF RowsOnce
  <2>6. ASSUME Alone(c) PROVE Faithful(c)'
    <3>1. Faithful(c)
      BY <2>4, <2>6 DEF IInv
    <3>2. tables[r.destination] = [tables[r.source] EXCEPT !.rows = 0] /\ r.source # r.destination
      BY <1>4, <1>8, <3>1 DEF Faithful
    <3>3. tables'[r.destination] = tables[r.source]
      <4>1. ASSUME NEW a, NEW b, IsTable(a), b = [a EXCEPT !.rows = 0]
            PROVE  [b EXCEPT !.rows = @ + a.rows] = a
        <5>1. b = [columns |-> a.columns, indexes |-> a.indexes, rows |-> 0]
          BY <4>1 DEF IsTable
        <5>2. b.rows + a.rows = a.rows
          BY <4>1, <5>1 DEF IsTable
        <5>3. [b EXCEPT !.rows = @ + a.rows] = [b EXCEPT !.rows = a.rows]
          BY <5>2
        <5>4. [b EXCEPT !.rows = a.rows] = [columns |-> a.columns, indexes |-> a.indexes, rows |-> a.rows]
          BY <5>1
        <5>5. QED
          BY <4>1, <5>3, <5>4 DEF IsTable
      <4>2. QED
        BY <2>2, <2>3, <3>2, <4>1
    <3>4. tables'[r.source] = tables[r.source] /\ applied'[c] # {1}
      BY <1>4, <1>8, <2>2, <3>2
    <3>5. [tables[r.source] EXCEPT !.rows = @] = tables[r.source]
      BY <2>3 DEF IsTable
    <3>6. QED
      BY <1>3, <2>2, <3>2, <3>3, <3>4, <3>5 DEF Faithful
  <2>7. QED
    BY <1>1, <1>5, <2>2, <2>5, <2>6 DEF IInv
<1>9. QED
  BY <1>6, <1>7, <1>8

\* A call begins.
LEMMA StartInv ==
    ASSUME IInv, NEW c \in Calls, NEW r \in Requests, Start(c, r)
    PROVE  IInv'
<1>1. /\ request[c] = NoRequest /\ request' = [request EXCEPT ![c] = r]
      /\ phase[c] = "idle" /\ phase' = [phase EXCEPT ![c] = "running"]
      /\ work' = [work EXCEPT ![c] = [size |-> Len(Built(engine, r)), atomic |-> FALSE]]
      /\ UNCHANGED <<applied, late, engine, tables>>
  BY DEF Start, Ask, Begin
<1>2. applied[c] = {} /\ ~late[c] /\ Len(Built(engine, r)) \in Nat
  <2>1. Len(Built(engine, r)) \in 1 .. 2
    BY CatalogAssumption, Statements
  <2>2. applied[c] = {} /\ (late[c] => "idle" \in Failures)
    BY <1>1 DEF IInv, Progressed
  <2>3. "idle" \notin Failures
    BY DEF Failures
  <2>4. QED
    BY <2>1, <2>2, <2>3
<1>3. Shaped'
  BY <1>1 DEF IInv, Shaped
<1>4. ASSUME NEW d \in Calls PROVE Progressed(d)'
  <2>1. CASE d = c
    <3>1. 1 .. 0 = {} /\ 0 \in 0 .. Len(Built(engine, r))
      BY <1>2
    <3>2. /\ request'[d] = r /\ phase'[d] = "running" /\ applied'[d] = {} /\ ~late'[d]
          /\ work'[d] = [size |-> Len(Built(engine, r)), atomic |-> FALSE] /\ engine' = engine
      BY <1>1, <1>2, <2>1 DEF IInv, Shaped
    <3>3. QED
      BY <3>1, <3>2 DEF Progressed
  <2>2. CASE d # c
    <3>1. /\ request'[d] = request[d] /\ phase'[d] = phase[d] /\ work'[d] = work[d]
          /\ UNCHANGED <<applied, late, engine>>
      BY <1>1, <2>2 DEF IInv, Shaped
    <3>2. QED
      BY <3>1 DEF IInv, Progressed
  <2>3. QED
    BY <2>1, <2>2
<1>5. \A d \in Calls : Took(d) => request'[d] = request[d]
  BY <1>1, <1>2 DEF IInv, Shaped, Took
<1>6. QED
  BY <1>1, <1>3, <1>4, <1>5, QuietStep

\* A call is refused.
LEMMA DenyInv ==
    ASSUME IInv, NEW c \in Calls, NEW r \in Requests, Deny(c, r)
    PROVE  IInv'
<1>1. /\ request[c] = NoRequest /\ request' = [request EXCEPT ![c] = r]
      /\ UNCHANGED <<work, phase, applied, late, engine, tables>>
  BY DEF Deny, Ask, planVars
<1>2. phase[c] = "idle" /\ applied[c] = {}
  BY <1>1, CatalogAssumption DEF IInv, Progressed
<1>3. Shaped'
  BY <1>1 DEF IInv, Shaped
<1>4. ASSUME NEW d \in Calls PROVE Progressed(d)'
  <2>1. phase[d] # "idle" => request'[d] = request[d]
    BY <1>1, <1>2 DEF IInv, Shaped
  <2>2. QED
    BY <1>1, <2>1 DEF IInv, Progressed
<1>5. \A d \in Calls : Took(d) => request'[d] = request[d]
  BY <1>1, <1>2 DEF IInv, Shaped, Took
<1>6. QED
  BY <1>1, <1>3, <1>4, <1>5, QuietStep

\* A call ends, or the database drops what it left.
LEMMA EndInv ==
    ASSUME IInv, NEW c \in Calls, End(c)
    PROVE  IInv'
<1>1. UNCHANGED <<work, applied, tables, engine, request>>
  BY DEF End, Succeed, Forget, Fail, toolVars
<1>2. \/ /\ phase[c] = "running" /\ applied[c] = Whole(work[c])
         /\ phase' = [phase EXCEPT ![c] = "ok"] /\ late' = late
      \/ late[c] /\ late' = [late EXCEPT ![c] = FALSE] /\ phase' = phase
      \/ \E how \in Failures, left \in BOOLEAN :
            /\ phase[c] = "running" /\ phase' = [phase EXCEPT ![c] = how]
            /\ late' = [late EXCEPT ![c] = left]
  BY DEF End, Succeed, Forget, Fail
<1>3. Shaped'
  BY <1>1, <1>2 DEF IInv, Shaped
<1>4. ASSUME NEW d \in Calls PROVE Progressed(d)'
  <2>1. CASE d = c
    <3>1. /\ phase'[d] # "idle" /\ phase[d] # "idle"
          /\ late'[d] => phase'[d] \in Failures
          /\ phase'[d] = "ok" => applied[d] = Whole(work[d])
      BY <1>2, <2>1 DEF IInv, Shaped, Progressed, Failures
    <3>2. QED
      BY <1>1, <3>1 DEF IInv, Progressed
  <2>2. CASE d # c
    <3>1. phase'[d] = phase[d] /\ late'[d] = late[d]
      BY <1>2, <2>2 DEF IInv, Shaped
    <3>2. QED
      BY <1>1, <3>1 DEF IInv, Progressed
  <2>3. QED
    BY <2>1, <2>2
<1>5. QED
  BY <1>1, <1>3, <1>4, QuietStep

\* Readers change nothing that the invariant is about.
LEMMA ReadInv ==
    ASSUME IInv, UNCHANGED <<planVars, engine, request, tables>>
    PROVE  IInv'
<1>1. UNCHANGED <<work, phase, applied, late, engine, request, tables>>
  BY DEF planVars
<1>2. Shaped'
  BY <1>1 DEF IInv, Shaped
<1>3. \A c \in Calls : Progressed(c)'
  BY <1>1 DEF IInv, Progressed
<1>4. QED
  BY <1>1, <1>2, <1>3, QuietStep

\* is kept by every step,
LEMMA NextInv == IInv /\ [Next]_vars => IInv'
<1> SUFFICES ASSUME IInv, [Next]_vars PROVE IInv'
  OBVIOUS
<1>1. CASE \E c \in Calls, r \in Requests : Deny(c, r) \/ Start(c, r)
  BY <1>1, DenyInv, StartInv
<1>2. CASE \E c \in Calls : Run(c) \/ End(c)
  BY <1>2, RunInv, EndInv
<1>3. CASE \E r \in Readers : (\E name \in TableNames : ReadColumns(r, name))
                             \/ ReadIndexes(r) \/ ReadFails(r)
  BY <1>3, ReadInv DEF ReadColumns, ReadIndexes, ReadFails, toolVars
<1>4. CASE UNCHANGED vars
  BY <1>4, ReadInv DEF vars, toolVars
<1>5. QED
  BY <1>1, <1>2, <1>3, <1>4 DEF Next

\* and so always holds.
LEMMA Inductive == Spec => []IInv
BY InitInv, NextInv, PTL DEF Spec

-----------------------------------------------------------------------------
(* What is promised to callers.                                            *)

\* However often copy_table fails, after whichever statement, and is repeated, also
\* while a statement given up is still executed: no table gets the rows twice.
THEOREM RowsCopiedOnce == Spec => []CopiedOnce
<1>1. IInv => CopiedOnce
  BY DEF IInv, RowsOnce, Unmoved, CopiedOnce
<1>2. QED
  BY <1>1, Inductive, PTL

\* A call of copy_table or copy_table_structure that reports success, undisturbed by
\* others, has made exactly the copy that was asked for.
THEOREM CopiesAsAsked == Spec => []CopyAsAsked
<1>1. ASSUME IInv, NEW c \in Calls,
             phase[c] = "ok", request[c].tool \in CopyTools, \A other \in Calls \ {c} : ~Took(other)
      PROVE  LET from == tables[request[c].source]
                 rows == IF request[c].tool = "copy_table" /\ request[c].with_data THEN from.rows ELSE 0
             IN tables[request[c].destination] = [from EXCEPT !.rows = rows]
  <2> DEFINE n == Len(Built(engine, request[c]))
  <2>1. /\ request[c] \in Requests /\ applied[c] = Whole(work[c])
        /\ work[c] = [size |-> n, atomic |-> FALSE]
    BY <1>1 DEF IInv, Progressed
  <2>2. n = IF WithData(request[c]) THEN 2 ELSE 1
    <3>1. request[c].tool \in StructuredTools
      BY <2>1, CatalogAssumption
    <3>2. QED
      BY <1>1, <3>1, Statements
  <2> HIDE DEF n
  <2>3. applied[c] = 1 .. n
    BY <2>1 DEF Whole
  <2>4. Took(c) /\ (applied[c] = {1} <=> ~WithData(request[c]))
    <3>1. 1 .. 1 = {1} /\ 1 .. 2 = {1, 2}
      OBVIOUS
    <3>2. QED
      <4>1. CASE WithData(request[c])
        BY <2>2, <2>3, <3>1, <4>1 DEF Took
      <4>2. CASE ~WithData(request[c])
        BY <2>2, <2>3, <3>1, <4>2 DEF Took
      <4>3. QED
        BY <4>1, <4>2
  <2>5. Faithful(c)
    BY <1>1, <2>4 DEF IInv, Copied, Alone
  <2>6. IsTable(tables[request[c].source])
    BY <1>1, <2>5 DEF IInv, Held, Faithful
  <2>7. QED
    BY <2>4, <2>5, <2>6 DEF Faithful, WithData
<1>2. IInv => CopyAsAsked
  BY <1>1 DEF CopyAsAsked
<1>3. QED
  BY <1>2, Inductive, PTL

-----------------------------------------------------------------------------
(* Names and dimensions.                                                   *)

GoodColumn(c) == IsColumn(c) /\ c.name \in Identifiers \cup FoundColumns

GoodColumns(columns) == IsList(columns) /\ \A i \in DOMAIN columns : GoodColumn(columns[i])

GoodIndexes(indexes) == \A x \in indexes : IsIndex(x) /\ x.name \in Identifiers \cup FoundIndexes

\* The database holds what the tools may have brought into it.
Named ==
    \A name \in DOMAIN tables :
        /\ name \in Identifiers \cup FoundTables
        /\ GoodColumns(tables[name].columns) /\ GoodIndexes(tables[name].indexes)

\* What has the positions of a list is a list.
LEMMA SameList ==
    ASSUME NEW s, IsList(s), NEW q, q = [i \in DOMAIN s |-> q[i]]
    PROVE  IsList(q)
<1>1. s \in Seq(Range(s))
  BY DEF IsList
<1>2. Len(s) \in Nat /\ DOMAIN s = 1 .. Len(s)
  BY <1>1
<1>3. DOMAIN q = 1 .. Len(s) /\ \A i \in 1 .. Len(s) : q[i] \in Range(q)
  BY <1>2 DEF Range
<1>4. q = [i \in 1 .. Len(s) |-> q[i]]
  BY <1>2
<1>5. q \in Seq(Range(q))
  BY <1>2, <1>3, <1>4
<1>6. QED
  BY <1>5 DEF IsList

\* So is every sequence.
LEMMA SequenceIsList ==
    ASSUME NEW S, NEW s \in Seq(S)
    PROVE  IsList(s)
<1>1. Len(s) \in Nat /\ DOMAIN s = 1 .. Len(s) /\ s = [i \in 1 .. Len(s) |-> s[i]]
  OBVIOUS
<1>2. \A i \in 1 .. Len(s) : s[i] \in Range(s)
  BY <1>1 DEF Range
<1>3. QED
  BY <1>1, <1>2 DEF IsList

\* The names and dimensions of a list survive if the list is extended or shortened.
LEMMA ExtendedColumns ==
    ASSUME NEW a, NEW b, GoodColumns(a), GoodColumns(b)
    PROVE  GoodColumns(a \o b)
<1> DEFINE S == Range(a) \cup Range(b)
<1>1. a \in Seq(Range(a)) /\ b \in Seq(Range(b))
  BY DEF GoodColumns, IsList
<1>2. a \in Seq(S) /\ b \in Seq(S)
  BY <1>1
<1>3. \A x \in S : GoodColumn(x)
  BY DEF GoodColumns, Range
<1> HIDE DEF S
<1>4. a \o b \in Seq(S)
  BY <1>2
<1>5. \A i \in DOMAIN (a \o b) : (a \o b)[i] \in S
  BY <1>4
<1>6. IsList(a \o b)
  BY <1>4, SequenceIsList
<1>7. QED
  BY <1>3, <1>5, <1>6 DEF GoodColumns

\* (Selected keeps elements, and in a list.)
LEMMA ShortenedColumns ==
    ASSUME NEW a, GoodColumns(a), NEW I
    PROVE  GoodColumns(Selected(a, I))
<1> DEFINE q == Selected(a, I)
<1>1. a \in Seq(Range(a))
  BY DEF GoodColumns, IsList
<1>2. /\ q \in Seq(Range(a))
      /\ \A k \in DOMAIN q : \E j \in DOMAIN a : j \in I /\ q[k] = a[j]
  BY <1>1, SelectedElements
<1> HIDE DEF q
<1>3. IsList(q)
  BY <1>2, SequenceIsList
<1>4. QED
  BY <1>2, <1>3 DEF GoodColumns, q

\* The columns a builder accepts.
LEMMA BuiltColumns ==
    ASSUME NEW e, NEW specs, IsList(specs), buildColumns(e, specs)
    PROVE  GoodColumns(StoredColumns(e, [i \in DOMAIN specs |-> ColumnSQL(e, specs[i])]))
<1> DEFINE cs == [i \in DOMAIN specs |-> ColumnSQL(e, specs[i])]
           q == StoredColumns(e, cs)
<1>1. q = [i \in DOMAIN specs |-> Stored(e, ColumnSQL(e, specs[i]))]
  BY DEF StoredColumns
<1> HIDE DEF q
<1>2. IsList(q)
  <2>1. q = [i \in DOMAIN specs |-> q[i]]
    BY <1>1
  <2>2. QED
    BY <2>1, SameList
<1>3. ASSUME NEW i \in DOMAIN specs PROVE GoodColumn(q[i])
  <2> DEFINE spec == specs[i]
  <2>1. spec.name \in Identifiers /\ Accepted(e, spec)
    BY DEF buildColumns
  <2>2. q[i] = Stored(e, ColumnSQL(e, spec))
    BY <1>1
  <2> HIDE DEF spec
  <2>3. QED
    BY <2>1, <2>2 DEF GoodColumn, IsColumn, Stored, ColumnSQL
<1>4. DOMAIN q = DOMAIN specs
  BY <1>1
<1>5. GoodColumns(q)
  BY <1>2, <1>3, <1>4 DEF GoodColumns
<1>6. QED
  BY <1>5 DEF q

\* What is built is a list.
LEMMA StatementList ==
    ASSUME NEW e, NEW r, r.tool \in StructuredTools
    PROVE  DOMAIN Built(e, r) = 1 .. Len(Built(e, r)) /\ Len(Built(e, r)) \in Nat
<1>1. ASSUME NEW x, NEW y
      PROVE  /\ DOMAIN <<x>> = 1 .. Len(<<x>>) /\ Len(<<x>>) \in Nat
             /\ DOMAIN (<<x>> \o <<y>>) = 1 .. Len(<<x>> \o <<y>>) /\ Len(<<x>> \o <<y>>) \in Nat
             /\ <<x>> \o <<>> = <<x>>
  <2>1. <<x>> \in Seq({x, y}) /\ <<y>> \in Seq({x, y}) /\ <<>> \in Seq({x, y})
    OBVIOUS
  <2>2. QED
    BY <2>1
<1>2. CASE r.tool \in CopyTools
  <2>1. Built(e, r) = CopyTable(r)
    BY <1>2 DEF Built, CopyTools
  <2>2. \E x, y : CopyTable(r) = <<x>> \o <<y>> \/ CopyTable(r) = <<x>> \o <<>>
    BY DEF CopyTable
  <2>3. QED
    BY <1>1, <2>1, <2>2
<1>3. CASE r.tool \notin CopyTools
  <2>1. \E x : Built(e, r) = <<x>>
    BY <1>3 DEF Built, StructuredTools, TableTools, IndexTools
  <2>2. QED
    BY <1>1, <2>1
<1>4. QED
  BY <1>2, <1>3

\* The names a builder quotes.
LEMMA Quoted ==
    ASSUME NEW r
    PROVE  /\ r.tool \in TableTools => QuotedNames(r) = {r.table}
           /\ r.tool \in IndexTools => QuotedNames(r) = {r.table, r.index}
           /\ r.tool = "rename_table" => QuotedNames(r) = {r.from, r.to}
           /\ r.tool \in CopyTools => QuotedNames(r) = {r.source, r.destination}
BY DEF QuotedNames, TableTools, IndexTools, CopyTools

\* What a statement replaces a table by.
LEMMA ChangeNamed ==
    ASSUME Named, NEW name \in DOMAIN tables, NEW t, Change(name, t),
           GoodColumns(t.columns), GoodIndexes(t.indexes)
    PROVE  Named'
<1>1. DOMAIN tables' = DOMAIN tables
      /\ \A n \in DOMAIN tables : tables'[n] = IF n = name THEN t ELSE tables[n]
  BY DEF Change
<1>2. QED
  BY <1>1 DEF Named

\* A table with a valid name is added.
LEMMA CreateNamed ==
    ASSUME Named, NEW name \in Identifiers, NEW t, Create(name, t),
           GoodColumns(t.columns), GoodIndexes(t.indexes)
    PROVE  Named'
<1>1. DOMAIN tables' = DOMAIN tables \cup {name}
      /\ \A n \in DOMAIN tables' : tables'[n] = IF n = name THEN t ELSE tables[n]
  BY DEF Create, Added
<1>2. QED
  BY <1>1 DEF Named

\* A statement on tables brings in no other names.
LEMMA TableNamed ==
    ASSUME Named, Held, NEW s, ExecuteTableStatement(s),
           s.do \in {"create_table", "create_like"} => s.table \in Identifiers,
           s.do = "rename_table" => s.to \in Identifiers,
           s.do = "create_table" => GoodColumns(StoredColumns(engine, s.columns))
    PROVE  Named'
<1>1. CASE s.do = "create_table"
  <2> DEFINE t == [NoTable EXCEPT !.columns = StoredColumns(engine, s.columns)]
  <2>1. Create(s.table, t)
    BY <1>1 DEF ExecuteTableStatement
  <2>2. t.columns = StoredColumns(engine, s.columns) /\ t.indexes = {}
    BY DEF NoTable
  <2> HIDE DEF t
  <2>3. QED
    BY <1>1, <2>1, <2>2, CreateNamed DEF GoodIndexes
<1>2. CASE s.do = "drop_table"
  <2>1. tables' = Restrict(tables, DOMAIN tables \ {s.table})
    BY <1>2 DEF ExecuteTableStatement
  <2>2. QED
    BY <2>1 DEF Restrict, Named
<1>3. CASE s.do = "rename_table"
  <2>1. /\ s.from \in DOMAIN tables
        /\ tables' = Added(Restrict(tables, DOMAIN tables \ {s.from}), s.to, tables[s.from])
    BY <1>3 DEF ExecuteTableStatement
  <2>2. QED
    BY <1>3, <2>1 DEF Restrict, Added, Named
<1>4. CASE s.do = "create_like"
  <2> DEFINE t == [tables[s.like] EXCEPT !.rows = 0]
  <2>1. s.like \in DOMAIN tables /\ Create(s.table, t)
    BY <1>4 DEF ExecuteTableStatement
  <2>2. t.columns = tables[s.like].columns /\ t.indexes = tables[s.like].indexes
    BY <2>1 DEF Held, IsTable
  <2> HIDE DEF t
  <2>3. QED
    BY <1>4, <2>1, <2>2, CreateNamed DEF Named
<1>5. CASE s.do = "copy_rows"
  <2> DEFINE t == [tables[s.table] EXCEPT !.rows = @ + tables[s.from].rows]
  <2>1. s.table \in DOMAIN tables /\ Change(s.table, t)
    BY <1>5 DEF ExecuteTableStatement
  <2>2. t.columns = tables[s.table].columns /\ t.indexes = tables[s.table].indexes
    BY <2>1 DEF Held, IsTable
  <2> HIDE DEF t
  <2>3. QED
    BY <2>1, <2>2, ChangeNamed DEF Named
<1>6. QED
  BY <1>1, <1>2, <1>3, <1>4, <1>5 DEF ExecuteTableStatement

\* A table with other columns, and one with other indexes.
LEMMA OtherColumns ==
    ASSUME NEW t, IsTable(t), NEW columns, NEW indexes
    PROVE  /\ [t EXCEPT !.columns = columns].columns = columns
           /\ [t EXCEPT !.columns = columns].indexes = t.indexes
           /\ [t EXCEPT !.indexes = indexes].columns = t.columns
           /\ [t EXCEPT !.indexes = indexes].indexes = indexes
           /\ [t EXCEPT !.columns = columns, !.indexes = indexes].columns = columns
           /\ [t EXCEPT !.columns = columns, !.indexes = indexes].indexes = indexes
BY DEF IsTable

\* A statement on columns brings in those that were built.
LEMMA ColumnNamed ==
    ASSUME Named, Held, NEW s, ExecuteColumnStatement(s),
           s.do \in {"add_columns", "modify_columns"} => GoodColumns(StoredColumns(engine, s.columns))
    PROVE  Named'
<1> DEFINE t == tables[s.table]
<1>1. s.table \in DOMAIN tables /\ IsTable(t) /\ GoodColumns(t.columns) /\ GoodIndexes(t.indexes)
  BY DEF ExecuteColumnStatement, Held, Named
<1>2. CASE s.do = "add_columns"
  <2> DEFINE columns == t.columns \o StoredColumns(engine, s.columns)
             u == [t EXCEPT !.columns = columns]
  <2>1. Change(s.table, u)
    BY <1>2 DEF ExecuteColumnStatement
  <2>2. GoodColumns(columns)
    BY <1>1, <1>2, ExtendedColumns
  <2> HIDE DEF columns
  <2>3. u.columns = columns /\ u.indexes = t.indexes
    BY <1>1, OtherColumns
  <2> HIDE DEF u
  <2>4. QED
    BY <1>1, <2>1, <2>2, <2>3, ChangeNamed
<1>3. CASE s.do = "modify_columns"
  <2> DEFINE at(c) == CHOOSE i \in DOMAIN s.columns : s.columns[i].name = c.name
             New(c) == IF c.name \notin NamesOf(s.columns) THEN c
                       ELSE [Stored(engine, s.columns[at(c)]) EXCEPT
                                !.default = IF engine = "clickhouse" THEN c.default ELSE @]
             columns == [i \in DOMAIN t.columns |-> New(t.columns[i])]
             u == [t EXCEPT !.columns = columns]
  <2>1. Change(s.table, u)
    BY <1>3 DEF ExecuteColumnStatement
  <2>2. ASSUME NEW i \in DOMAIN t.columns PROVE GoodColumn(columns[i])
    <3> DEFINE c == t.columns[i]
    <3>1. GoodColumn(c) /\ columns[i] = New(c)
      BY <1>1 DEF GoodColumns
    <3> HIDE DEF c, columns
    <3>2. CASE c.name \in NamesOf(s.columns)
      <4>1. at(c) \in DOMAIN s.columns
        BY <3>2 DEF NamesOf
      <4> DEFINE d == Stored(engine, s.columns[at(c)])
      <4>2. GoodColumn(d)
        BY <1>3, <4>1 DEF GoodColumns, StoredColumns
      <4>3. columns[i] = [d EXCEPT !.default = IF engine = "clickhouse" THEN c.default ELSE @]
        BY <3>1, <3>2
      <4> HIDE DEF d, at
      <4>4. QED
        BY <4>2, <4>3 DEF GoodColumn, IsColumn
    <3>3. CASE c.name \notin NamesOf(s.columns)
      BY <3>1, <3>3
    <3>4. QED
      BY <3>2, <3>3
  <2>3. IsList(columns) /\ DOMAIN columns = DOMAIN t.columns
    <3> HIDE DEF New
    <3>1. columns = [i \in DOMAIN t.columns |-> columns[i]]
      OBVIOUS
    <3> HIDE DEF columns
    <3>2. QED
      BY <1>1, <3>1, SameList DEF GoodColumns
  <2> HIDE DEF columns
  <2>4. GoodColumns(columns)
    BY <2>2, <2>3 DEF GoodColumns
  <2>5. u.columns = columns /\ u.indexes = t.indexes
    BY <1>1, OtherColumns
  <2> HIDE DEF u
  <2>6. QED
    BY <1>1, <2>1, <2>4, <2>5, ChangeNamed
<1>4. CASE s.do = "drop_columns"
  <2> DEFINE Shrunk(x) ==
                [x EXCEPT !.parts = Selected(@, {k \in DOMAIN @ : @[k].column \notin ToSet(s.names)})]
             columns == Selected(t.columns, {k \in DOMAIN t.columns : t.columns[k].name \notin ToSet(s.names)})
             indexes == {x \in {Shrunk(y) : y \in t.indexes} : x.parts # <<>>}
             u == [t EXCEPT !.columns = columns, !.indexes = indexes]
  <2>1. Change(s.table, u)
    BY <1>4 DEF ExecuteColumnStatement
  <2>2. GoodColumns(columns)
    BY <1>1, ShortenedColumns
  <2>3. GoodIndexes(indexes)
    <3> SUFFICES ASSUME NEW y \in t.indexes
                 PROVE  IsIndex(Shrunk(y)) /\ Shrunk(y).name \in Identifiers \cup FoundIndexes
      BY DEF GoodIndexes
    <3>1. IsIndex(y) /\ y.name \in Identifiers \cup FoundIndexes
      BY <1>1 DEF GoodIndexes
    <3> DEFINE kept == Selected(y.parts, {k \in DOMAIN y.parts : y.parts[k].column \notin ToSet(s.names)})
    <3>2. Shrunk(y) = [y EXCEPT !.parts = kept]
      BY Zenon
    <3> HIDE DEF Shrunk, kept
    <3>3. QED
      BY <3>1, <3>2 DEF IsIndex
  <2> HIDE DEF columns, indexes
  <2>4. u.columns = columns /\ u.indexes = indexes
    BY <1>1, OtherColumns
  <2> HIDE DEF u
  <2>5. QED
    BY <1>1, <2>1, <2>2, <2>3, <2>4, ChangeNamed
<1>5. QED
  BY <1>2, <1>3, <1>4 DEF ExecuteColumnStatement

\* A statement on indexes brings in the one that was asked for.
LEMMA IndexNamed ==
    ASSUME Named, Held, NEW s, ExecuteIndexStatement(s),
           s.do = "create_index" => s.index \in Identifiers
    PROVE  Named'
<1> DEFINE t == tables[s.table]
<1>1. s.table \in DOMAIN tables /\ IsTable(t) /\ GoodColumns(t.columns) /\ GoodIndexes(t.indexes)
  BY DEF ExecuteIndexStatement, Held, Named
<1>2. \E indexes : GoodIndexes(indexes) /\ Change(s.table, [t EXCEPT !.indexes = indexes])
  <2>1. CASE s.do = "create_index"
    <3> DEFINE new == [name |-> s.index, unique |-> s.unique,
                       parts |-> [i \in DOMAIN s.names |-> Column(s.names[i])]]
    <3>1. Change(s.table, [t EXCEPT !.indexes = @ \cup {new}])
      BY <2>1 DEF ExecuteIndexStatement
    <3>2. IsIndex(new) /\ new.name = s.index
      BY DEF IsIndex
    <3> HIDE DEF new
    <3>3. GoodIndexes(t.indexes \cup {new})
      BY <1>1, <2>1, <3>2 DEF GoodIndexes
    <3>4. QED
      BY <3>1, <3>3
  <2>2. CASE s.do = "drop_index"
    <3> DEFINE named == {x \in t.indexes : x.name = s.index}
    <3>1. Change(s.table, [t EXCEPT !.indexes = @ \ named])
      BY <2>2 DEF ExecuteIndexStatement
    <3>2. GoodIndexes(t.indexes \ named)
      BY <1>1 DEF GoodIndexes
    <3> HIDE DEF named
    <3>3. QED
      BY <3>1, <3>2
  <2>3. QED
    BY <2>1, <2>2 DEF ExecuteIndexStatement
<1>3. PICK indexes : GoodIndexes(indexes) /\ Change(s.table, [t EXCEPT !.indexes = indexes])
  BY <1>2
<1>4. [t EXCEPT !.indexes = indexes].columns = t.columns /\ [t EXCEPT !.indexes = indexes].indexes = indexes
  BY <1>1, OtherColumns
<1>5. QED
  BY <1>1, <1>3, <1>4, ChangeNamed

\* What a builder writes brings in names it has validated.
LEMMA BuiltNames ==
    ASSUME NEW e, NEW r \in Requests, Refusal(e, r) = "none", NEW k \in 1 .. Len(Built(e, r)),
           NEW s, s = Built(e, r)[k]
    PROVE  /\ s.do \in {"create_table", "create_like"} => s.table \in Identifiers
           /\ s.do = "rename_table" => s.to \in Identifiers
           /\ s.do \in {"create_table", "add_columns", "modify_columns"} =>
                 GoodColumns(StoredColumns(e, s.columns))
           /\ s.do = "create_index" => s.index \in Identifiers
<1>1. /\ r.tool \in StructuredTools
      /\ r.tool \in {"create_table", "add_columns", "modify_columns"} => IsList(r.columns)
  BY CatalogAssumption
<1>2. /\ QuotedNames(r) \subseteq Identifiers
      /\ r.tool \in {"create_table", "add_columns", "modify_columns"} => buildColumns(e, r.columns)
  BY DEF Refusal
<1>3. CASE r.tool \in CopyTools
  <2>1. QuotedNames(r) = {r.source, r.destination}
    BY <1>3, Quoted
  <2>2. Len(Built(e, r)) \in 1 .. 2
    BY <1>1, Statements
  <2>3. k = 1 \/ k = 2
    BY <2>2
  <2>4. k = 1 => s = [do |-> "create_like", table |-> r.destination, like |-> r.source]
    BY <1>1, <1>3, Statements
  <2>5. k = 2 => s = [do |-> "copy_rows", table |-> r.destination, from |-> r.source]
    <3>1. CASE WithData(r)
      BY <1>1, <1>3, <3>1, Statements
    <3>2. CASE ~WithData(r)
      <4>1. Len(Built(e, r)) = 1
        BY <1>1, <1>3, <3>2, Statements
      <4>2. QED
        BY <4>1
    <3>3. QED
      BY <3>1, <3>2
  <2>6. QED
    BY <1>2, <2>1, <2>3, <2>4, <2>5
<1>4. CASE r.tool \notin CopyTools
  <2>1. k = 1 /\ s = Built(e, r)[1] /\ s.do = r.tool
    <3>1. Len(Built(e, r)) = 1 /\ Built(e, r)[1].do = r.tool
      BY <1>1, <1>4, Statements
    <3>2. k = 1
      BY <3>1
    <3>3. QED
      BY <3>1, <3>2
  <2>2. CASE r.tool \in {"create_table", "add_columns", "modify_columns"}
    <3>1. QuotedNames(r) = {r.table}
      BY <2>2, Quoted DEF TableTools
    <3>2. /\ s.table = r.table
          /\ s.columns = [i \in DOMAIN r.columns |-> ColumnSQL(e, r.columns[i])]
      <4>1. Built(e, r)[1] = [do |-> r.tool, table |-> r.table,
                              columns |-> [i \in DOMAIN r.columns |-> ColumnSQL(e, r.columns[i])]]
        BY <2>2 DEF Built
      <4>2. QED
        BY <2>1, <4>1
    <3>3. GoodColumns(StoredColumns(e, [i \in DOMAIN r.columns |-> ColumnSQL(e, r.columns[i])]))
      BY <1>1, <1>2, <2>2, BuiltColumns
    <3>4. QED
      BY <1>2, <2>1, <2>2, <3>1, <3>2, <3>3
  <2>3. CASE r.tool = "create_index"
    <3>1. QuotedNames(r) = {r.table, r.index}
      BY <2>3, Quoted DEF IndexTools
    <3>2. s.index = r.index
      <4>1. Built(e, r)[1] = [do |-> r.tool, table |-> r.table, index |-> r.index,
                              names |-> r.names, unique |-> r.unique]
        BY <2>3 DEF Built
      <4>2. QED
        BY <2>1, <4>1
    <3>3. QED
      BY <1>2, <2>1, <2>3, <3>1, <3>2
  <2>4. CASE r.tool = "rename_table"
    <3>1. QuotedNames(r) = {r.from, r.to}
      BY <2>4, Quoted
    <3>2. s.to = r.to
      <4>1. Built(e, r)[1] = [do |-> r.tool, from |-> r.from, to |-> r.to]
        BY <2>4 DEF Built
      <4>2. QED
        BY <2>1, <4>1
    <3>3. QED
      BY <1>2, <2>1, <2>4, <3>1, <3>2
  <2>5. CASE r.tool \in {"drop_table", "drop_columns", "drop_index"}
    BY <2>1, <2>5
  <2>6. QED
    BY <1>1, <1>4, <2>2, <2>3, <2>4, <2>5 DEF StructuredTools, TableTools, IndexTools
<1>5. QED
  BY <1>3, <1>4

-----------------------------------------------------------------------------
(* Calls, and the names in the database.                                   *)

\* The builder's verdict on a call.
Judged(c) ==
    /\ phase[c] # "idle" <=> request[c] # NoRequest /\ answer[c] = "none"
    /\ phase[c] # "idle" => Refusal(engine, request[c]) = "none"
    /\ request[c] = NoRequest => answer[c] = "none"

NamesInv ==
    /\ engine \in {"mysql", "clickhouse"}
    /\ answer \in [Calls -> {"none", "unsupported_capability", "invalid_input"}]
    /\ \A c \in Calls : Judged(c)
    /\ Named

\* It holds at first: what is there is found,
LEMMA InitNamed == Init => NamesInv
<1> SUFFICES ASSUME Init PROVE NamesInv
  OBVIOUS
<1>1. PICK d \in Databases : engine = d.engine /\ tables = d.tables
  BY DEF Init
<1>2. \A c \in Calls : phase[c] = "idle" /\ request[c] = NoRequest /\ answer[c] = "none"
  BY DEF Init, PlanInit
<1>3. answer \in [Calls -> {"none", "unsupported_capability", "invalid_input"}]
  BY DEF Init
<1>4. ASSUME NEW name \in DOMAIN tables
      PROVE  /\ name \in FoundTables
             /\ GoodColumns(tables[name].columns) /\ GoodIndexes(tables[name].indexes)
  <2> DEFINE t == tables[name]
  <2>1. /\ IsList(t.columns) /\ \A i \in DOMAIN t.columns : IsColumn(t.columns[i])
        /\ \A x \in t.indexes : IsIndex(x)
    BY <1>1, CatalogAssumption
  <2>2. \A i \in DOMAIN t.columns : t.columns[i].name \in FoundColumns
    <3>1. \A i \in DOMAIN t.columns : t.columns[i].name \in ColumnNames(t)
      BY DEF ColumnNames
    <3>2. ColumnNames(t) \subseteq FoundColumns
      BY <1>1 DEF FoundColumns
    <3>3. QED
      BY <3>1, <3>2
  <2>3. \A x \in t.indexes : x.name \in FoundIndexes
    <3>1. \A x \in t.indexes : x.name \in IndexNames(t)
      BY DEF IndexNames
    <3>2. IndexNames(t) \subseteq FoundIndexes
      BY <1>1 DEF FoundIndexes
    <3>3. QED
      BY <3>1, <3>2
  <2>4. name \in FoundTables
    BY <1>1 DEF FoundTables
  <2>5. QED
    BY <2>1, <2>2, <2>3, <2>4 DEF GoodColumns, GoodColumn, GoodIndexes
<1>5. QED
  BY <1>1, <1>2, <1>3, <1>4, CatalogAssumption DEF NamesInv, Judged, Named

\* A refusal is one of two errors.
LEMMA Refusals ==
    ASSUME NEW e, NEW r
    PROVE  Refusal(e, r) \in {"none", "unsupported_capability", "invalid_input"}
BY DEF Refusal

\* is kept by every step,
LEMMA NextNamed == IInv /\ NamesInv /\ [Next]_vars => NamesInv'
<1> SUFFICES ASSUME IInv, NamesInv, [Next]_vars PROVE NamesInv'
  OBVIOUS
<1>1. ASSUME UNCHANGED <<tables, engine, answer>>, \A c \in Calls : Judged(c)' PROVE NamesInv'
  BY <1>1 DEF NamesInv, Named
<1>2. ASSUME NEW c \in Calls, NEW r \in Requests, Deny(c, r) PROVE NamesInv'
  <2>1. /\ request[c] = NoRequest /\ request' = [request EXCEPT ![c] = r]
        /\ Refusal(engine, r) # "none" /\ answer' = [answer EXCEPT ![c] = Refusal(engine, r)]
        /\ UNCHANGED <<phase, engine, tables>>
    BY <1>2 DEF Deny, Ask, planVars
  <2>2. answer' \in [Calls -> {"none", "unsupported_capability", "invalid_input"}]
    BY <2>1, Refusals DEF NamesInv
  <2>3. ASSUME NEW d \in Calls PROVE Judged(d)'
    <3>1. CASE d = c
      <4>1. phase[c] = "idle" /\ answer'[c] # "none" /\ phase' = phase
        BY <2>1 DEF NamesInv, Judged
      <4>2. request'[d] # NoRequest
        BY <2>1, <3>1, CatalogAssumption DEF IInv, Shaped
      <4>3. QED
        BY <3>1, <4>1, <4>2 DEF Judged
    <3>2. CASE d # c
      <4>1. request'[d] = request[d] /\ answer'[d] = answer[d] /\ phase' = phase /\ engine' = engine
        BY <2>1, <3>2 DEF IInv, Shaped, NamesInv
      <4>2. QED
        BY <4>1 DEF NamesInv, Judged
    <3>3. QED
      BY <3>1, <3>2
  <2>4. QED
    BY <2>1, <2>2, <2>3 DEF NamesInv, Named
<1>3. ASSUME NEW c \in Calls, NEW r \in Requests, Start(c, r) PROVE NamesInv'
  <2>1. /\ request[c] = NoRequest /\ request' = [request EXCEPT ![c] = r]
        /\ Refusal(engine, r) = "none" /\ phase[c] = "idle"
        /\ phase' = [phase EXCEPT ![c] = "running"]
        /\ UNCHANGED <<answer, engine, tables>>
    BY <1>3 DEF Start, Ask, Begin
  <2>2. ASSUME NEW d \in Calls PROVE Judged(d)'
    <3>1. CASE d = c
      <4>1. /\ request'[d] = r /\ r # NoRequest /\ phase'[d] = "running"
            /\ answer'[d] = "none" /\ engine' = engine
        BY <2>1, <3>1, CatalogAssumption DEF IInv, Shaped, NamesInv, Judged
      <4>2. QED
        BY <2>1, <4>1 DEF Judged
    <3>2. CASE d # c
      <4>1. request'[d] = request[d] /\ phase'[d] = phase[d] /\ answer' = answer /\ engine' = engine
        BY <2>1, <3>2 DEF IInv, Shaped
      <4>2. QED
        BY <4>1 DEF NamesInv, Judged
    <3>3. QED
      BY <3>1, <3>2
  <2>3. QED
    BY <1>1, <2>1, <2>2
<1>4. ASSUME NEW c \in Calls, Run(c) PROVE NamesInv'
  <2>1. UNCHANGED <<phase, request, answer, engine>>
    BY <1>4 DEF Run, Publish, PublishLate, toolVars
  <2>2. \A d \in Calls : Judged(d)'
    BY <2>1 DEF NamesInv, Judged
  <2> DEFINE r == request[c]
  <2>3. PICK k \in 0 .. 1 :
           k + 1 \in 1 .. Len(Built(engine, r)) /\ Execute(Built(engine, r)[k + 1])
    BY <1>4, RunMoves
  <2>4. r \in Requests /\ Refusal(engine, r) = "none"
    BY <1>4 DEF Run, Publish, PublishLate, IInv, Progressed, NamesInv, Judged, Failures
  <2> DEFINE s == Built(engine, r)[k + 1]
  <2> HIDE DEF r
  <2>5. /\ s.do \in {"create_table", "create_like"} => s.table \in Identifiers
        /\ s.do = "rename_table" => s.to \in Identifiers
        /\ s.do \in {"create_table", "add_columns", "modify_columns"} =>
              GoodColumns(StoredColumns(engine, s.columns))
        /\ s.do = "create_index" => s.index \in Identifiers
    BY <2>3, <2>4, BuiltNames
  <2>6. Execute(s)
    BY <2>3
  <2> HIDE DEF s
  <2>7. Named'
    BY <2>5, <2>6, TableNamed, ColumnNamed, IndexNamed DEF Execute, NamesInv, IInv
  <2>8. QED
    BY <2>1, <2>2, <2>7 DEF NamesInv
<1>5. ASSUME NEW c \in Calls, End(c) PROVE NamesInv'
  <2>1. UNCHANGED <<request, answer, engine, tables>>
    BY <1>5 DEF End, Succeed, Forget, Fail, toolVars
  <2>2. \A d \in Calls : phase'[d] # "idle" <=> phase[d] # "idle"
    BY <1>5 DEF End, Succeed, Forget, Fail, Failures, IInv, Shaped, Progressed
  <2>3. QED
    BY <1>1, <2>1, <2>2 DEF NamesInv, Judged
<1>6. ASSUME UNCHANGED <<planVars, toolVars, tables>> PROVE NamesInv'
  BY <1>1, <1>6 DEF planVars, toolVars, NamesInv, Judged
<1>7. QED
  BY <1>2, <1>3, <1>4, <1>5, <1>6
     DEF Next, ReadColumns, ReadIndexes, ReadFails, vars

\* and so always holds.
LEMMA InductiveNamed == Spec => []NamesInv
BY InitNamed, NextNamed, Inductive, PTL DEF Spec

\* Every call that runs was not refused by its builder, and executes statements that
\* were written for it.
THEOREM Typed == Spec => []TypeOK
<1>1. ASSUME IInv, NamesInv PROVE TypeOK
  <2>1. ASSUME NEW c \in Calls
        PROVE  /\ answer[c] \in {"none", "unsupported_capability", "invalid_input"}
               /\ phase[c] # "idle" <=> request[c] # NoRequest /\ answer[c] = "none"
    BY <1>1 DEF NamesInv, Judged
  <2>2. ASSUME NEW c \in Calls, phase[c] # "idle"
        PROVE  applied[c] \subseteq DOMAIN Built(engine, request[c])
    <3> DEFINE b == Built(engine, request[c])
    <3>1. request[c].tool \in StructuredTools
      BY <1>1, <2>2, CatalogAssumption DEF IInv, Progressed
    <3>2. PICK k \in 0 .. Len(b) : applied[c] = 1 .. k
      BY <1>1, <2>2 DEF IInv, Progressed
    <3>3. DOMAIN b = 1 .. Len(b) /\ Len(b) \in Nat
      BY <3>1, StatementList
    <3>4. QED
      BY <3>2, <3>3
  <2>3. QED
    BY <2>1, <2>2 DEF TypeOK
<1>2. QED
  BY <1>1, Inductive, InductiveNamed, PTL

\* No name of a table, column or index gets into the database by a structured tool
\* unless validateIdentifier accepted it: whatever the requests, the interleaving of
\* calls, and the statements that take effect after their call has failed.
THEOREM NamesValidated == Spec => []OnlyIdentifiers
<1>1. ASSUME NamesInv PROVE OnlyIdentifiers
  BY <1>1 DEF NamesInv, Named, GoodColumns, GoodColumn, GoodIndexes, OnlyIdentifiers, ColumnNames, IndexNames
<1>2. QED
  BY <1>1, InductiveNamed, PTL

-----------------------------------------------------------------------------
(* Descriptions.                                                           *)

\* The loop over the wrappers of a type comes to an end, after one turn if the type is
\* the low cardinality of one that is none.
LEMMA NullableInside ==
    ASSUME NEW S, NEW t \in Seq(S),
           NEW plain,
           plain = IF clickHouseOuterWrapper(t) /\ t[1] = "lowcardinality" THEN Inner(t) ELSE t,
           plain[1] # "lowcardinality"
    PROVE  isClickHouseNullable(t) = (clickHouseOuterWrapper(plain) /\ plain[1] = "nullable")
<1> DEFINE D == Seq(Range(t))
           Body(f) == [s \in D |->
                IF clickHouseOuterWrapper(s) /\ s[1] = "lowcardinality" THEN f[Inner(s)]
                ELSE clickHouseOuterWrapper(s) /\ s[1] = "nullable"]
           E == CHOOSE f : f = Body(f)
<1>1. ASSUME NEW s \in D, clickHouseOuterWrapper(s) PROVE Inner(s) \in D /\ Len(Inner(s)) < Len(s)
  <2>1. Len(s) > 2 /\ Len(s) \in Nat /\ \A k \in 3 .. (Len(s) - 1) : s[k] \in Range(t)
    BY <1>1 DEF clickHouseOuterWrapper
  <2>2. /\ SubSeq(s, 3, Len(s) - 1) \in D
        /\ Len(SubSeq(s, 3, Len(s) - 1)) = IF 3 <= Len(s) - 1 THEN (Len(s) - 1) - 3 + 1 ELSE 0
    BY <2>1, SubSeqProperties
  <2>3. QED
    BY <2>1, <2>2 DEF Inner
<1>2. \E f : f = Body(f)
  <2> DEFINE rank == [s \in D |-> Len(s)]
             Stop == {s \in D : ~(clickHouseOuterWrapper(s) /\ s[1] = "lowcardinality")}
             value == [s \in D |-> clickHouseOuterWrapper(s) /\ s[1] = "nullable"]
             next == [s \in D |-> Inner(s)]
  <2>1. rank \in [D -> Nat]
    OBVIOUS
  <2>2. ASSUME NEW s \in D \ Stop PROVE next[s] \in D /\ rank[next[s]] < rank[s]
    <3>1. Inner(s) \in D /\ Len(Inner(s)) < Len(s)
      BY <1>1
    <3>2. QED
      BY <3>1
  <2>3. PICK f : IsLoop(f, D, Stop, value, next)
    <3> HIDE DEF rank, Stop, value, next, D
    <3>1. QED
      BY <2>1, <2>2, Loop DEF Descends
  <2>4. \A s \in D : (IF s \in Stop THEN value[s] ELSE f[next[s]]) =
            IF clickHouseOuterWrapper(s) /\ s[1] = "lowcardinality" THEN f[Inner(s)]
            ELSE clickHouseOuterWrapper(s) /\ s[1] = "nullable"
    OBVIOUS
  <2>5. f = Body(f)
    <3> HIDE DEF Stop, value, next, D
    <3>1. QED
      BY <2>3, <2>4 DEF IsLoop
  <2>6. QED
    BY <2>5
<1>3. E = Body(E)
  BY <1>2
<1>4. isClickHouseNullable(t) = E[t]
  BY DEF isClickHouseNullable
<1>5. t \in D
  <2>1. Len(t) \in Nat /\ t = [k \in 1 .. Len(t) |-> t[k]] /\ \A k \in 1 .. Len(t) : t[k] \in Range(t)
    BY DEF Range
  <2>2. QED
    BY <2>1
<1>6. plain \in D
  BY <1>1, <1>5
<1> HIDE DEF E, D
<1>7. E[plain] = (clickHouseOuterWrapper(plain) /\ plain[1] = "nullable")
  BY <1>3, <1>6
<1>8. E[t] = E[plain]
  <2>1. CASE clickHouseOuterWrapper(t) /\ t[1] = "lowcardinality"
    BY <1>3, <1>5, <2>1
  <2>2. CASE ~(clickHouseOuterWrapper(t) /\ t[1] = "lowcardinality")
    BY <2>2
  <2>3. QED
    BY <2>1, <2>2
<1>9. QED
  BY <1>4, <1>7, <1>8

\* It ends at once if the type is no low cardinality.
LEMMA NullableEnds ==
    ASSUME NEW S, NEW t \in Seq(S), t[1] # "lowcardinality"
    PROVE  isClickHouseNullable(t) = (clickHouseOuterWrapper(t) /\ t[1] = "nullable")
<1>1. t = IF clickHouseOuterWrapper(t) /\ t[1] = "lowcardinality" THEN Inner(t) ELSE t
  OBVIOUS
<1>2. QED
  BY <1>1, NullableInside

Parentheses == {"(", ")"}

\* One and two elements.
LEMMA Tuples ==
    ASSUME NEW S, NEW x \in S, NEW y \in S
    PROVE  /\ <<x>> \in Seq(S) /\ Len(<<x>>) = 1 /\ <<x>>[1] = x
           /\ <<x, y>> \in Seq(S) /\ Len(<<x, y>>) = 2 /\ <<x, y>>[1] = x /\ <<x, y>>[2] = y
OBVIOUS

\* A name around a type, and its parentheses.
LEMMA Wrapping ==
    ASSUME NEW S, "(" \in S, ")" \in S,
           NEW wrapper \in S, NEW type \in Seq(S)
    PROVE  LET w == Wrapped(wrapper, type) IN
           /\ w \in Seq(S) /\ Len(w) = Len(type) + 3
           /\ w[1] = wrapper /\ w[2] = "(" /\ w[Len(type) + 3] = ")"
           /\ \A i \in 1 .. Len(type) : w[i + 2] = type[i]
<1> DEFINE a == <<wrapper, "(">>
           b == <<")">>
           n == Len(type)
           w == Wrapped(wrapper, type)
<1>1. a \in Seq(S) /\ Len(a) = 2 /\ a[1] = wrapper /\ a[2] = "("
  BY Tuples, Zenon
<1>2. b \in Seq(S) /\ Len(b) = 1 /\ b[1] = ")"
  BY Tuples, Zenon
<1>3. w = (a \o type) \o b
  BY DEF Wrapped
<1>4. n \in Nat
  OBVIOUS
<1> HIDE DEF a, b, n, w
<1>5. /\ a \o type \in Seq(S) /\ Len(a \o type) = 2 + n
      /\ \A i \in 1 .. 2 + n : (a \o type)[i] = IF i <= 2 THEN a[i] ELSE type[i - 2]
  <2>1. /\ a \o type \in Seq(S) /\ Len(a \o type) = Len(a) + Len(type)
        /\ \A i \in 1 .. Len(a) + Len(type) : (a \o type)[i] = IF i <= Len(a) THEN a[i] ELSE type[i - Len(a)]
    BY <1>1, ConcatProperties, Zenon
  <2>2. Len(a) = 2 /\ Len(type) = n
    BY <1>1 DEF n
  <2>3. QED
    BY <2>1, <2>2, Zenon
<1> DEFINE c == a \o type
<1> HIDE DEF c
<1>6. c \in Seq(S) /\ Len(c) = 2 + n /\ \A i \in 1 .. 2 + n : c[i] = IF i <= 2 THEN a[i] ELSE type[i - 2]
  BY <1>5 DEF c
<1>7. /\ w \in Seq(S) /\ Len(w) = (2 + n) + 1
      /\ \A i \in 1 .. (2 + n) + 1 : w[i] = IF i <= 2 + n THEN c[i] ELSE b[i - (2 + n)]
  <2>1. w = c \o b
    BY <1>3 DEF c
  <2>2. /\ c \o b \in Seq(S) /\ Len(c \o b) = Len(c) + Len(b)
        /\ \A i \in 1 .. Len(c) + Len(b) : (c \o b)[i] = IF i <= Len(c) THEN c[i] ELSE b[i - Len(c)]
    BY <1>2, <1>6, ConcatProperties, Zenon
  <2>3. Len(c) = 2 + n /\ Len(b) = 1
    BY <1>2, <1>6
  <2>4. QED
    BY <2>1, <2>2, <2>3, Zenon
<1>8. (2 + n) + 1 = n + 3 /\ 1 \in 1 .. 2 + n /\ 2 \in 1 .. 2 + n
  BY <1>4
<1>9. w[1] = wrapper /\ w[2] = "("
  BY <1>1, <1>4, <1>6, <1>7
<1>10. w[n + 3] = ")"
  BY <1>2, <1>4, <1>7
<1>11. ASSUME NEW i \in 1 .. n PROVE w[i + 2] = type[i]
  <2>1. i + 2 \in 1 .. 2 + n /\ ~(i + 2 <= 2) /\ (i + 2) - 2 = i /\ i + 2 \in 1 .. (2 + n) + 1 /\ i + 2 <= 2 + n
    BY <1>4
  <2>2. QED
    BY <1>6, <1>7, <2>1
<1>12. QED
  BY <1>7, <1>8, <1>9, <1>10, <1>11 DEF n, w

\* Two elements are two.
LEMMA TwoOfThem ==
    ASSUME NEW a, NEW b, a # b
    PROVE  Cardinality({a, b}) = 2
<1>1. IsFiniteSet({a}) /\ Cardinality({a}) = 1
  BY FS_Singleton
<1>2. Cardinality({a} \cup {b}) = 1 + 1
  BY <1>1, FS_AddElement
<1>3. {a} \cup {b} = {a, b}
  OBVIOUS
<1>4. QED
  BY <1>2, <1>3

\* The types the builder writes for a nullable column have one wrapper around all:
\* around a name,
LEMMA NameWrapped ==
    ASSUME NEW S, NEW t \in Seq(S), Len(t) = 4,
           t[1] \notin Parentheses, t[2] = "(", t[3] \notin Parentheses, t[4] = ")"
    PROVE  clickHouseOuterWrapper(t)
<1> DEFINE opened(i) == {k \in 1 .. i : t[k] = "("}
           closed(i) == {k \in 1 .. i : t[k] = ")"}
<1>1. /\ opened(2) = {2} /\ opened(3) = {2} /\ opened(4) = {2}
      /\ closed(2) = {} /\ closed(3) = {} /\ closed(4) = {4}
  BY DEF Parentheses
<1>2. \A i \in 2 .. 4 : Depth(t, i) = Cardinality(opened(i)) - Cardinality(closed(i))
  BY DEF Depth
<1> HIDE DEF opened, closed
<1>3. Cardinality({}) = 0 /\ Cardinality({2}) = 1 /\ Cardinality({4}) = 1
  BY FS_EmptySet, FS_Singleton
<1>4. Depth(t, 2) = 1 /\ Depth(t, 3) = 1 /\ Depth(t, 4) = 0
  <2>1. 2 \in 2 .. 4 /\ 3 \in 2 .. 4 /\ 4 \in 2 .. 4
    OBVIOUS
  <2>2. Depth(t, 2) = 1 - 0 /\ Depth(t, 3) = 1 - 0 /\ Depth(t, 4) = 1 - 1
    BY <1>1, <1>2, <1>3, <2>1, Zenon
  <2>3. QED
    BY <2>2
<1>5. QED
  BY <1>4 DEF clickHouseOuterWrapper

\* and around a name with its own parentheses.
LEMMA ParametersWrapped ==
    ASSUME NEW S, NEW t \in Seq(S), Len(t) = 6,
           t[1] \notin Parentheses, t[2] = "(", t[3] \notin Parentheses,
           t[4] = "(", t[5] = ")", t[6] = ")"
    PROVE  clickHouseOuterWrapper(t)
<1> DEFINE opened(i) == {k \in 1 .. i : t[k] = "("}
           closed(i) == {k \in 1 .. i : t[k] = ")"}
<1>1. /\ opened(2) = {2} /\ opened(3) = {2} /\ opened(4) = {2, 4}
      /\ opened(5) = {2, 4} /\ opened(6) = {2, 4}
  BY DEF Parentheses
<1>2. /\ closed(2) = {} /\ closed(3) = {} /\ closed(4) = {}
      /\ closed(5) = {5} /\ closed(6) = {5, 6}
  BY DEF Parentheses
<1>3. \A i \in 2 .. 6 : Depth(t, i) = Cardinality(opened(i)) - Cardinality(closed(i))
  BY DEF Depth
<1> HIDE DEF opened, closed
<1>4. /\ Cardinality({}) = 0 /\ Cardinality({2}) = 1 /\ Cardinality({5}) = 1
      /\ Cardinality({2, 4}) = 2 /\ Cardinality({5, 6}) = 2
  <2>1. Cardinality({}) = 0 /\ Cardinality({2}) = 1 /\ Cardinality({5}) = 1
    BY FS_EmptySet, FS_Singleton
  <2>2. \A a, b : a # b => Cardinality({a, b}) = 2
    BY TwoOfThem, Zenon
  <2>3. 2 # 4 /\ 5 # 6
    OBVIOUS
  <2>4. Cardinality({2, 4}) = 2 /\ Cardinality({5, 6}) = 2
    BY <2>2, <2>3, Zenon
  <2>5. QED
    BY <2>1, <2>4
<1>5. Depth(t, 2) = 1 /\ Depth(t, 3) = 1 /\ Depth(t, 4) = 2 /\ Depth(t, 5) = 1 /\ Depth(t, 6) = 0
  <2>1. /\ Depth(t, 2) = 1 - 0 /\ Depth(t, 3) = 1 - 0 /\ Depth(t, 4) = 2 - 0
        /\ Depth(t, 5) = 2 - 1 /\ Depth(t, 6) = 2 - 2
    <3>1. 2 \in 2 .. 6 /\ 3 \in 2 .. 6 /\ 4 \in 2 .. 6 /\ 5 \in 2 .. 6 /\ 6 \in 2 .. 6
      OBVIOUS
    <3>2. Depth(t, 2) = 1 - 0
      <4>1. Depth(t, 2) = Cardinality(opened(2)) - Cardinality(closed(2))
        BY <1>3, <3>1
      <4>2. QED
        BY <1>1, <1>2, <1>4, <4>1
    <3>3. Depth(t, 3) = 1 - 0
      <4>1. Depth(t, 3) = Cardinality(opened(3)) - Cardinality(closed(3))
        BY <1>3, <3>1
      <4>2. QED
        BY <1>1, <1>2, <1>4, <4>1
    <3>4. Depth(t, 4) = 2 - 0
      <4>1. Depth(t, 4) = Cardinality(opened(4)) - Cardinality(closed(4))
        BY <1>3, <3>1
      <4>2. QED
        BY <1>1, <1>2, <1>4, <4>1
    <3>5. Depth(t, 5) = 2 - 1
      <4>1. Depth(t, 5) = Cardinality(opened(5)) - Cardinality(closed(5))
        BY <1>3, <3>1
      <4>2. QED
        BY <1>1, <1>2, <1>4, <4>1
    <3>6. Depth(t, 6) = 2 - 2
      <4>1. Depth(t, 6) = Cardinality(opened(6)) - Cardinality(closed(6))
        BY <1>3, <3>1
      <4>2. QED
        BY <1>1, <1>2, <1>4, <4>1
    <3>7. QED
      BY <3>2, <3>3, <3>4, <3>5, <3>6
  <2>2. QED
    BY <2>1
<1>6. QED
  BY <1>5 DEF clickHouseOuterWrapper

\* A type that is not wrapped: its kind, and parentheses if it has dimensions.
LEMMA PlainTypes ==
    ASSUME NEW S, "(" \in S, ")" \in S, NEW spec, spec.kind \in S
    PROVE  /\ PlainType(spec) \in Seq(S) /\ PlainType(spec)[1] = spec.kind
           /\ \/ Len(PlainType(spec)) = 1
              \/ /\ Len(PlainType(spec)) = 3
                 /\ PlainType(spec)[2] = "(" /\ PlainType(spec)[3] = ")"
<1> DEFINE plain == PlainType(spec)
           kind == spec.kind
<1>1. plain = <<kind>> \/ plain = Wrapped(kind, <<>>)
  BY DEF PlainType
<1>2. kind \in S
  OBVIOUS
<1> HIDE DEF plain, kind
<1>3. CASE plain = <<kind>>
  BY <1>2, <1>3 DEF plain, kind
<1>4. CASE plain = Wrapped(kind, <<>>)
  <2>1. <<>> \in Seq(S) /\ Len(<<>>) = 0
    OBVIOUS
  <2>2. PICK none \in Seq(S) : Len(none) = 0 /\ plain = Wrapped(kind, none)
    BY <1>4, <2>1
  <2> DEFINE w == Wrapped(kind, none)
  <2>3. /\ w \in Seq(S) /\ Len(w) = Len(none) + 3
        /\ w[1] = kind /\ w[2] = "(" /\ w[Len(none) + 3] = ")"
    BY <1>2, Wrapping
  <2>4. QED
    BY <2>2, <2>3 DEF plain, kind
<1>5. QED
  BY <1>1, <1>3, <1>4

\* A type that one of the builders writes is nullable to the reader if it was to be.
LEMMA BuiltNullable ==
    ASSUME NEW spec, Accepted("clickhouse", spec), spec.nullable \in BOOLEAN
    PROVE  isClickHouseNullable(ColumnSQL("clickhouse", spec).type) = spec.nullable
<1> DEFINE kind == spec.kind
           S == {"(", ")", "nullable", kind}
           plain == PlainType(spec)
           t == ColumnSQL("clickhouse", spec).type
<1>1. kind \in {"int64", "uint64", "string", "bool", "date", "datetime", "decimal"}
  BY DEF Accepted, clickHouseColumn
<1>2. kind \notin Parentheses /\ kind # "nullable" /\ kind # "lowcardinality"
  BY <1>1 DEF Parentheses
<1>3. t = IF spec.nullable THEN Wrapped("nullable", plain) ELSE plain
  BY DEF ColumnSQL
<1>4. "(" \in S /\ ")" \in S /\ "nullable" \in S /\ kind \in S
  OBVIOUS
<1> HIDE DEF t, plain, kind, S
<1>5. /\ plain \in Seq(S) /\ plain[1] = kind
      /\ \/ Len(plain) = 1
         \/ Len(plain) = 3 /\ plain[2] = "(" /\ plain[3] = ")"
  BY <1>4, PlainTypes DEF plain, kind
<1>6. CASE spec.nullable
  <2>1. /\ t \in Seq(S) /\ Len(t) = Len(plain) + 3
        /\ t[1] = "nullable" /\ t[2] = "(" /\ t[Len(plain) + 3] = ")"
        /\ \A i \in 1 .. Len(plain) : t[i + 2] = plain[i]
    <3>1. t = Wrapped("nullable", plain)
      BY <1>3, <1>6
    <3>2. QED
      <4> DEFINE w == Wrapped("nullable", plain)
      <4>1. /\ w \in Seq(S) /\ Len(w) = Len(plain) + 3
            /\ w[1] = "nullable" /\ w[2] = "(" /\ w[Len(plain) + 3] = ")"
            /\ \A i \in 1 .. Len(plain) : w[i + 2] = plain[i]
        BY <1>4, <1>5, Wrapping
      <4>2. QED
        BY <3>1, <4>1
  <2>2. "nullable" \notin Parentheses
    BY DEF Parentheses
  <2>3. clickHouseOuterWrapper(t)
    <3>1. CASE Len(plain) = 1
      <4>1. Len(t) = 4 /\ t[4] = ")" /\ t[3] = kind
        BY <1>5, <2>1, <3>1
      <4>2. QED
        BY <1>2, <2>1, <2>2, <4>1, NameWrapped
    <3>2. CASE Len(plain) = 3 /\ plain[2] = "(" /\ plain[3] = ")"
      <4>1. Len(t) = 6 /\ t[6] = ")" /\ t[3] = kind /\ t[4] = "(" /\ t[5] = ")"
        BY <1>5, <2>1, <3>2
      <4>2. QED
        BY <1>2, <2>1, <2>2, <4>1, ParametersWrapped
    <3>3. QED
      BY <1>5, <3>1, <3>2
  <2>4. isClickHouseNullable(t) = (clickHouseOuterWrapper(t) /\ t[1] = "nullable")
    BY <2>1, NullableEnds
  <2>5. QED
    BY <1>6, <2>1, <2>3, <2>4 DEF t
<1>7. CASE ~spec.nullable
  <2>1. t \in Seq(S) /\ t[1] = kind
    BY <1>3, <1>5, <1>7
  <2>2. isClickHouseNullable(t) = FALSE
    BY <1>2, <2>1, NullableEnds
  <2>3. QED
    BY <1>7, <2>2 DEF t
<1>8. QED
  BY <1>6, <1>7

\* What is shown of a column that a builder has written: its name, its nullability, and
\* the dimensions it was given.
LEMMA BuiltShown ==
    ASSUME NEW e \in {"mysql", "clickhouse"}, NEW spec, Accepted(e, spec), spec.nullable \in BOOLEAN,
           NEW c, c = Stored(e, ColumnSQL(e, spec))
    PROVE  /\ c.name = spec.name /\ (Dimensions(spec) # <<>> => c.dims = Dimensions(spec))
           /\ e = "mysql" => c.null = spec.nullable
           /\ e = "clickhouse" => isClickHouseNullable(c.type) = spec.nullable
<1> DEFINE type == ColumnSQL(e, spec).type
<1>1. /\ c.name = spec.name
      /\ ~GetsWidth(e, type) => c.dims = Dimensions(spec) /\ c.type = type
      /\ c.null = ((e = "mysql" /\ spec.nullable) \/ type[1] = "nullable")
  BY DEF Stored, StoredType, ColumnSQL
<1> HIDE DEF type
<1>2. CASE e = "clickhouse"
  <2>1. ~GetsWidth(e, type)
    BY <1>2 DEF GetsWidth
  <2>2. QED
    BY <1>1, <1>2, <2>1, BuiltNullable DEF type
<1>3. CASE e = "mysql"
  <2> DEFINE kind == spec.kind
             S == {"(", ")", kind}
  <2>1. kind # "nullable"
    <3>1. mysqlColumn(spec)
      BY <1>3 DEF Accepted
    <3>2. ASSUME kind = "nullable" PROVE FALSE
      <4>1. spec.kind = "nullable"
        BY <3>2
      <4>2. ~mysqlColumn(spec)
        BY <4>1 DEF mysqlColumn
      <4>3. QED
        BY <3>1, <4>2
    <3>3. QED
      BY <3>2
  <2>2. type = PlainType(spec)
    BY <1>3 DEF ColumnSQL, type
  <2>3. "(" \in S /\ ")" \in S /\ spec.kind \in S
    OBVIOUS
  <2> HIDE DEF S
  <2>4. PlainType(spec)[1] = kind
    BY <2>3, PlainTypes
  <2>5. ASSUME Dimensions(spec) # <<>> PROVE ~GetsWidth(e, type)
    <3>1. PlainType(spec) = <<kind, "(">> \o <<>> \o <<")">>
      BY <2>5, Zenon DEF PlainType, Wrapped
    <3> HIDE DEF kind
    <3>2. PlainType(spec) \notin {<<"boolean">>, <<"int">>, <<"bigint">>}
      BY <3>1
    <3>3. QED
      BY <2>2, <3>2 DEF GetsWidth
  <2>6. QED
    BY <1>1, <1>3, <2>1, <2>2, <2>4, <2>5
<1>4. QED
  BY <1>2, <1>3

\* The table that create_table makes of columns.
TableOf(e, specs) ==
    [NoTable EXCEPT !.columns = StoredColumns(e, [i \in DOMAIN specs |-> ColumnSQL(e, specs[i])])]

\* What is shown of such a table: its columns in order, with the dimensions they were
\* given and nullable as they were to be.
LEMMA TableShown ==
    ASSUME NEW e \in {"mysql", "clickhouse"}, NEW specs, IsList(specs), buildColumns(e, specs),
           \A i \in DOMAIN specs : specs[i].nullable \in BOOLEAN,
           NEW shown, shown = describedColumns(e, TableOf(e, specs))
    PROVE  /\ Len(shown) = Len(specs)
           /\ \A i \in DOMAIN specs :
                 /\ shown[i].name = specs[i].name /\ shown[i].nullable = specs[i].nullable
                 /\ Dimensions(specs[i]) # <<>> => shown[i].dims = Dimensions(specs[i])
<1> DEFINE columns == [i \in DOMAIN specs |-> Stored(e, ColumnSQL(e, specs[i]))]
           nullable(i) == IF e = "clickhouse" THEN isClickHouseNullable(columns[i].type) ELSE columns[i].null
<1>1. TableOf(e, specs).columns = columns
  BY DEF TableOf, NoTable, StoredColumns
<1>2. DOMAIN columns = DOMAIN specs
  OBVIOUS
<1>3. \A i \in DOMAIN specs : columns[i] = Stored(e, ColumnSQL(e, specs[i]))
  OBVIOUS
<1> HIDE DEF columns
<1>4. shown = [i \in DOMAIN specs |-> Described(columns[i], nullable(i))]
  BY <1>1, <1>2 DEF describedColumns, clickHouseColumns, mysqlColumns
<1>5. Len(shown) = Len(specs)
  <2>1. shown = [i \in DOMAIN specs |-> shown[i]]
    BY <1>4
  <2>2. IsList(shown)
    BY <2>1, SameList
  <2>3. specs \in Seq(Range(specs)) /\ shown \in Seq(Range(shown))
    BY <2>2 DEF IsList
  <2>4. DOMAIN specs = 1 .. Len(specs) /\ DOMAIN shown = 1 .. Len(shown) /\ Len(specs) \in Nat /\ Len(shown) \in Nat
    BY <2>3
  <2>5. DOMAIN shown = DOMAIN specs
    BY <2>1
  <2> DEFINE m == Len(shown)
             n == Len(specs)
  <2>6. m \in Nat /\ n \in Nat /\ 1 .. m = 1 .. n
    BY <2>4, <2>5
  <2> HIDE DEF m, n
  <2>7. m = n
    BY <2>6
  <2>8. QED
    BY <2>7 DEF m, n
<1>6. ASSUME NEW i \in DOMAIN specs
      PROVE  /\ shown[i].name = specs[i].name /\ shown[i].nullable = specs[i].nullable
             /\ Dimensions(specs[i]) # <<>> => shown[i].dims = Dimensions(specs[i])
  <2>1. Accepted(e, specs[i]) /\ specs[i].nullable \in BOOLEAN
    BY DEF buildColumns
  <2>2. /\ columns[i].name = specs[i].name
        /\ Dimensions(specs[i]) # <<>> => columns[i].dims = Dimensions(specs[i])
        /\ e = "mysql" => columns[i].null = specs[i].nullable
        /\ e = "clickhouse" => isClickHouseNullable(columns[i].type) = specs[i].nullable
    BY <1>3, <2>1, BuiltShown
  <2>3. nullable(i) = specs[i].nullable
    BY <2>2
  <2> HIDE DEF nullable
  <2>4. shown[i] = Described(columns[i], nullable(i))
    BY <1>4
  <2>5. QED
    BY <2>2, <2>3, <2>4 DEF Described
<1>7. QED
  BY <1>5, <1>6

-----------------------------------------------------------------------------
(* What the readers have seen.                                             *)

Made(c) == TableOf(engine, request[c].columns)

\* Call c has created a table, and nobody has changed anything else.
Creating(c) == request[c] # NoRequest /\ request[c].tool = "create_table" /\ Took(c) /\ Alone(c)

HasRead(r) == reading[r].step \in {"columns", "described"}

\* A table that create_table alone has touched is as it was made, and nobody has seen
\* it otherwise, except before it was there.
Witnessed(c) ==
    /\ request[c].table \in DOMAIN tables
    /\ tables[request[c].table] = Made(c)
    /\ \A r \in Readers : HasRead(r) /\ reading[r].table = request[c].table =>
          reading[r].seen \in {NoTable, Made(c)}

SeenInv ==
    /\ DOMAIN reading = Readers
    /\ \A r \in Readers : HasRead(r) => reading[r].columns = describedColumns(engine, reading[r].seen)
    /\ (\A c \in Calls : ~Took(c)) =>
          \A r \in Readers : HasRead(r) => reading[r].seen = Table(reading[r].table)
    /\ \A c \in Calls : Creating(c) => Witnessed(c)

\* It holds at first,
LEMMA InitRead == Init => SeenInv
<1>1. ASSUME Init PROVE SeenInv
  <2>1. DOMAIN reading = Readers /\ \A r \in Readers : ~HasRead(r)
    BY <1>1 DEF Init, Unread, HasRead
  <2>2. \A c \in Calls : ~Took(c)
    BY <1>1 DEF Init, PlanInit, Took
  <2>3. QED
    BY <2>1, <2>2 DEF SeenInv, Creating
<1>2. QED
  BY <1>1

\* Steps that no reader takes and no table shows.
LEMMA QuietRead ==
    ASSUME SeenInv, UNCHANGED <<applied, tables, engine, reading>>,
           \A c \in Calls : Took(c) => request'[c] = request[c]
    PROVE  SeenInv'
<1>1. \A c \in Calls : (Took(c)' <=> Took(c)) /\ (Alone(c)' <=> Alone(c))
  BY DEF Took, Alone
<1>2. \A c \in Calls : Creating(c)' => Creating(c) /\ request'[c] = request[c]
  BY <1>1 DEF Creating
<1>3. \A r \in Readers : HasRead(r)' <=> HasRead(r)
  BY DEF HasRead
<1>4. \A c \in Calls : Creating(c)' => Witnessed(c)'
  <2> SUFFICES ASSUME NEW c \in Calls, Creating(c)' PROVE Witnessed(c)'
    OBVIOUS
  <2>1. Witnessed(c) /\ request'[c] = request[c]
    BY <1>2 DEF SeenInv
  <2>2. Made(c)' = Made(c)
    BY <2>1 DEF Made
  <2>3. QED
    BY <1>3, <2>1, <2>2 DEF Witnessed
<1>5. QED
  BY <1>1, <1>3, <1>4 DEF SeenInv, Table

\* A statement of a structured tool.
LEMMA RunRead ==
    ASSUME IInv, SeenInv, NEW c \in Calls, Run(c)
    PROVE  SeenInv'
<1> DEFINE r == request[c]
<1>1. r.tool \in StructuredTools
  BY RunMoves
<1>2. PICK k \in 0 .. 1 :
         /\ applied[c] = 1 .. k
         /\ k + 1 \in 1 .. Len(Built(engine, r))
         /\ applied' = [applied EXCEPT ![c] = 1 .. (k + 1)]
         /\ Execute(Built(engine, r)[k + 1])
  BY RunMoves
<1>3. UNCHANGED <<request, engine, reading>>
  BY DEF Run, toolVars
<1>4. Took(c)' /\ (k = 0 => ~Took(c)) /\ \A d \in Calls \ {c} : Took(d)' <=> Took(d)
  <2>1. applied'[c] = 1 .. (k + 1) /\ \A d \in Calls \ {c} : applied'[d] = applied[d]
    BY <1>2 DEF IInv, Shaped
  <2>2. 1 .. 0 = {} /\ 1 \in 1 .. (k + 1)
    OBVIOUS
  <2>3. applied'[c] # {} /\ (k = 0 => applied[c] = {})
    BY <1>2, <2>1, <2>2
  <2>4. QED
    BY <2>1, <2>3 DEF Took
<1>5. ASSUME NEW d \in Calls, Creating(d)' PROVE Witnessed(d)'
  <2>1. d = c /\ r.tool = "create_table"
    BY <1>3, <1>4, <1>5 DEF Creating, Alone
  <2>2. Len(Built(engine, r)) = 1
    BY <1>1, <2>1, Statements DEF CopyTools
  <2>3. k = 0
    BY <1>2, <2>2
  <2>4. \A other \in Calls : ~Took(other)
    BY <1>4, <1>5, <2>1, <2>3 DEF Creating, Alone
  <2> DEFINE columns == [i \in DOMAIN r.columns |-> ColumnSQL(engine, r.columns[i])]
             t == TableOf(engine, r.columns)
             s == Built(engine, r)[1]
  <2>5. s = [do |-> "create_table", table |-> r.table, columns |-> columns]
    BY <2>1 DEF Built
  <2>6. s.do = "create_table" /\ s.table = r.table
        /\ [NoTable EXCEPT !.columns = StoredColumns(engine, s.columns)] = t
    BY <2>5 DEF TableOf
  <2>7. Execute(s)
    BY <1>2, <2>3
  <2> HIDE DEF s, t
  <2>8. Create(r.table, t)
    BY <2>6, <2>7 DEF Execute, ExecuteTableStatement, ExecuteColumnStatement, ExecuteIndexStatement
  <2>9. r.table \notin DOMAIN tables /\ r.table \in DOMAIN tables' /\ tables'[r.table] = t
    BY <2>8 DEF Create, Added
  <2>10. Made(c)' = t
    BY <1>3 DEF Made, t
  <2>11. ASSUME NEW q \in Readers, HasRead(q)', reading'[q].table = r.table
         PROVE  reading'[q].seen = NoTable
    <3>1. HasRead(q) /\ reading[q].table = r.table
      BY <1>3, <2>11 DEF HasRead
    <3>2. reading[q].seen = Table(r.table)
      BY <2>4, <3>1 DEF SeenInv
    <3>3. QED
      BY <1>3, <2>9, <3>2 DEF Table
  <2>12. QED
    BY <1>3, <2>1, <2>9, <2>10, <2>11 DEF Witnessed
<1>6. \A q \in Readers : HasRead(q)' <=> HasRead(q)
  BY <1>3 DEF HasRead
<1>7. QED
  BY <1>3, <1>4, <1>5, <1>6 DEF SeenInv

\* A reader takes a step.
LEMMA ReaderRead ==
    ASSUME SeenInv, UNCHANGED <<planVars, toolVars, tables>>, NEW r \in Readers, NEW got,
           reading' = [reading EXCEPT ![r] = got],
           got.step \in {"columns", "described"} =>
              /\ got.columns = describedColumns(engine, got.seen)
              /\ \/ got.seen = Table(got.table)
                 \/ /\ HasRead(r)
                    /\ got.table = reading[r].table /\ got.seen = reading[r].seen
    PROVE  SeenInv'
<1>1. UNCHANGED <<applied, engine, request, tables>>
  BY DEF planVars, toolVars
<1>2. /\ DOMAIN reading' = Readers /\ reading'[r] = got
      /\ \A q \in Readers \ {r} : reading'[q] = reading[q]
  BY DEF SeenInv
<1>3. \A c \in Calls : /\ (Took(c)' <=> Took(c)) /\ (Creating(c)' <=> Creating(c))
                       /\ Made(c)' = Made(c)
  BY <1>1 DEF Took, Creating, Alone, Made
<1>4. \A name : Table(name)' = Table(name)
  BY <1>1 DEF Table
<1>5. ASSUME NEW q \in Readers, HasRead(q)'
      PROVE  /\ reading'[q].columns = describedColumns(engine, reading'[q].seen)
             /\ \/ reading'[q].seen = Table(reading'[q].table)
                \/ /\ HasRead(q)
                   /\ reading'[q].table = reading[q].table /\ reading'[q].seen = reading[q].seen
  <2>1. CASE q = r
    BY <1>2, <1>5, <2>1 DEF HasRead
  <2>2. CASE q # r
    BY <1>2, <1>5, <2>2 DEF HasRead, SeenInv
  <2>3. QED
    BY <2>1, <2>2
<1>6. ASSUME NEW c \in Calls, Creating(c)' PROVE Witnessed(c)'
  <2>1. Witnessed(c)
    BY <1>3, <1>6 DEF SeenInv
  <2>2. Table(request[c].table) = Made(c)
    BY <2>1 DEF Witnessed, Table
  <2>3. ASSUME NEW q \in Readers, HasRead(q)', reading'[q].table = request[c].table
        PROVE  reading'[q].seen \in {NoTable, Made(c)}
    BY <1>5, <2>1, <2>2, <2>3 DEF Witnessed
  <2>4. QED
    BY <1>1, <1>3, <2>1, <2>3 DEF Witnessed
<1>7. (\A c \in Calls : ~Took(c))' => \A q \in Readers : HasRead(q)' => reading'[q].seen = Table(reading'[q].table)
  BY <1>3, <1>5 DEF SeenInv
<1>8. QED
  BY <1>1, <1>2, <1>4, <1>5, <1>6, <1>7 DEF SeenInv

\* is kept by every step,
LEMMA NextRead == IInv /\ SeenInv /\ [Next]_vars => SeenInv'
<1> SUFFICES ASSUME IInv, SeenInv, [Next]_vars PROVE SeenInv'
  OBVIOUS
<1>1. ASSUME NEW c \in Calls, NEW r \in Requests, Deny(c, r) \/ Start(c, r) PROVE SeenInv'
  <2>1. /\ request[c] = NoRequest /\ request' = [request EXCEPT ![c] = r]
        /\ UNCHANGED <<applied, tables, engine, reading>>
    BY <1>1 DEF Deny, Start, Ask, Begin, planVars
  <2>2. ~Took(c)
    BY <2>1, CatalogAssumption DEF IInv, Progressed, Took
  <2>3. \A d \in Calls : Took(d) => request'[d] = request[d]
    BY <2>1, <2>2 DEF IInv, Shaped
  <2>4. QED
    BY <2>1, <2>3, QuietRead
<1>2. ASSUME NEW c \in Calls, Run(c) PROVE SeenInv'
  BY <1>2, RunRead
<1>3. ASSUME NEW c \in Calls, End(c) PROVE SeenInv'
  <2>1. UNCHANGED <<applied, tables, engine, reading, request>>
    BY <1>3 DEF End, Succeed, Forget, Fail, toolVars
  <2>2. QED
    BY <2>1, QuietRead
<1>4. ASSUME NEW r \in Readers, NEW name \in TableNames, ReadColumns(r, name) PROVE SeenInv'
  <2> DEFINE got == IF name \in Identifiers
                    THEN [step |-> "columns", table |-> name, seen |-> Table(name),
                          columns |-> describedColumns(engine, Table(name))]
                    ELSE [step |-> "failed"]
  <2>1. reading' = [reading EXCEPT ![r] = got] /\ UNCHANGED <<planVars, toolVars, tables>>
    BY <1>4 DEF ReadColumns
  <2>2. got.step \in {"columns", "described"} =>
           got.columns = describedColumns(engine, got.seen) /\ got.seen = Table(got.table)
    OBVIOUS
  <2> HIDE DEF got
  <2>3. QED
    BY <2>1, <2>2, ReaderRead
<1>5. ASSUME NEW r \in Readers, ReadIndexes(r) PROVE SeenInv'
  <2> DEFINE d == reading[r]
             got == [step |-> "described", table |-> d.table, seen |-> d.seen, columns |-> d.columns,
                     seenLast |-> Table(d.table), indexes |-> describedIndexes(engine, Table(d.table))]
  <2>1. /\ reading' = [reading EXCEPT ![r] = got] /\ UNCHANGED <<planVars, toolVars, tables>>
        /\ HasRead(r)
    BY <1>5 DEF ReadIndexes, HasRead
  <2>2. got.columns = d.columns /\ got.seen = d.seen /\ got.table = d.table
    OBVIOUS
  <2>3. d.columns = describedColumns(engine, d.seen)
    BY <2>1 DEF SeenInv
  <2> HIDE DEF got
  <2>4. QED
    BY <2>1, <2>2, <2>3, ReaderRead
<1>6. ASSUME NEW r \in Readers, ReadFails(r) PROVE SeenInv'
  <2> DEFINE got == [step |-> "failed"]
  <2>1. reading' = [reading EXCEPT ![r] = got] /\ UNCHANGED <<planVars, toolVars, tables>>
    BY <1>6 DEF ReadFails
  <2>2. got.step \notin {"columns", "described"}
    OBVIOUS
  <2> HIDE DEF got
  <2>3. QED
    BY <2>1, <2>2, ReaderRead
<1>7. CASE UNCHANGED vars
  BY <1>7, QuietRead DEF vars, planVars, toolVars
<1>8. QED
  BY <1>1, <1>2, <1>3, <1>4, <1>5, <1>6, <1>7 DEF Next

\* and so always holds.
LEMMA InductiveRead == Spec => []SeenInv
BY InitRead, NextRead, Inductive, PTL DEF Spec

\* What describe_table shows of a table that create_table has made, and that nobody has
\* changed, has the columns that were asked for, in order, nullable where they were to
\* be and with the dimensions they were given, whatever width the server shows where
\* none was given: on MySQL and on ClickHouse, also when it was created between the two
\* queries, and also when the call was reported as failed.
THEOREM CreatedIsDescribed == Spec => []DescribedAsCreated
<1>1. ASSUME IInv, NamesInv, SeenInv PROVE DescribedAsCreated
  <2> SUFFICES ASSUME NEW c \in Calls, NEW r \in Readers,
                      request[c] # NoRequest, request[c].tool = "create_table",
                      Took(c), \A other \in Calls \ {c} : ~Took(other),
                      reading[r].step = "described", reading[r].table = request[c].table,
                      reading[r].seen # NoTable
               PROVE  LET asked == request[c].columns
                          shown == reading[r].columns IN
                      /\ Len(shown) = Len(asked)
                      /\ \A i \in DOMAIN asked :
                            /\ shown[i].name = asked[i].name
                            /\ shown[i].nullable = asked[i].nullable
                            /\ Dimensions(asked[i]) # <<>> => shown[i].dims = Dimensions(asked[i])
    BY DEF DescribedAsCreated
  <2>1. Witnessed(c) /\ HasRead(r)
    BY <1>1 DEF SeenInv, Creating, Alone, HasRead
  <2>2. reading[r].seen = TableOf(engine, request[c].columns)
    BY <2>1 DEF Witnessed, Made
  <2>3. reading[r].columns = describedColumns(engine, TableOf(engine, request[c].columns))
    BY <1>1, <2>1, <2>2 DEF SeenInv
  <2>4. phase[c] # "idle" /\ request[c] \in Requests
    BY <1>1 DEF IInv, Progressed, Took
  <2>5. Refusal(engine, request[c]) = "none"
    BY <1>1, <2>4 DEF NamesInv, Judged
  <2>6. buildColumns(engine, request[c].columns)
    BY <2>5 DEF Refusal
  <2>7. IsList(request[c].columns) /\ \A i \in DOMAIN request[c].columns : request[c].columns[i].nullable \in BOOLEAN
    BY <2>4, CatalogAssumption
  <2>8. engine \in {"mysql", "clickhouse"}
    BY <1>1 DEF NamesInv
  <2>9. QED
    BY <2>3, <2>6, <2>7, <2>8, TableShown
<1>2. QED
  BY <1>1, Inductive, InductiveNamed, InductiveRead, PTL

-----------------------------------------------------------------------------
(* Nullability of the types a database comes with.                         *)

\* The parentheses open after a character, counted on.
LEMMA DepthStep ==
    ASSUME NEW S, NEW t \in Seq(S), NEW i \in Nat, i + 1 <= Len(t)
    PROVE  /\ Depth(t, 0) = 0 /\ Depth(t, i) \in Int
           /\ Depth(t, i + 1) = Depth(t, i) + (IF t[i + 1] = "(" THEN 1 ELSE IF t[i + 1] = ")" THEN 0 - 1 ELSE 0)
<1> DEFINE opened(j) == {k \in 1 .. j : t[k] = "("}
           closed(j) == {k \in 1 .. j : t[k] = ")"}
<1>1. \A j \in Nat : Depth(t, j) = Cardinality(opened(j)) - Cardinality(closed(j))
  BY DEF Depth
<1>2. opened(0) = {} /\ closed(0) = {}
  OBVIOUS
<1>3. \A j \in Nat : /\ IsFiniteSet(opened(j)) /\ Cardinality(opened(j)) \in Nat
                     /\ IsFiniteSet(closed(j)) /\ Cardinality(closed(j)) \in Nat
  <2> SUFFICES ASSUME NEW j \in Nat
               PROVE  /\ IsFiniteSet(opened(j)) /\ Cardinality(opened(j)) \in Nat
                      /\ IsFiniteSet(closed(j)) /\ Cardinality(closed(j)) \in Nat
    OBVIOUS
  <2>1. IsFiniteSet(1 .. j)
    BY FS_Interval
  <2>2. opened(j) \subseteq 1 .. j /\ closed(j) \subseteq 1 .. j
    OBVIOUS
  <2>3. IsFiniteSet(opened(j)) /\ IsFiniteSet(closed(j))
    BY <2>1, <2>2, FS_Subset
  <2>4. QED
    BY <2>3, FS_CardinalityType
<1>4. /\ opened(i + 1) = IF t[i + 1] = "(" THEN opened(i) \cup {i + 1} ELSE opened(i)
      /\ closed(i + 1) = IF t[i + 1] = ")" THEN closed(i) \cup {i + 1} ELSE closed(i)
      /\ i + 1 \notin opened(i) /\ i + 1 \notin closed(i)
  OBVIOUS
<1> HIDE DEF opened, closed
<1>5. Depth(t, 0) = 0
  <2>1. Depth(t, 0) = Cardinality({}) - Cardinality({})
    BY <1>1, <1>2
  <2>2. Cardinality({}) = 0
    BY FS_EmptySet
  <2>3. QED
    BY <2>1, <2>2
<1>6. i + 1 \in Nat /\ i \in Nat
  OBVIOUS
<1> DEFINE a == Cardinality(opened(i))
           b == Cardinality(closed(i))
<1>7. Cardinality(opened(i) \cup {i + 1}) = a + 1 /\ Cardinality(closed(i) \cup {i + 1}) = b + 1
  BY <1>3, <1>4, <1>6, FS_AddElement
<1>8. a \in Nat /\ b \in Nat /\ Depth(t, i) = a - b
  BY <1>1, <1>3
<1>9. Depth(t, i + 1) = Cardinality(opened(i + 1)) - Cardinality(closed(i + 1))
  BY <1>1, <1>6
<1> HIDE DEF a, b
<1>10. CASE t[i + 1] = "("
  <2>1. Cardinality(opened(i + 1)) = a + 1 /\ Cardinality(closed(i + 1)) = b
    BY <1>4, <1>7, <1>10 DEF a, b
  <2>2. Depth(t, i + 1) = (a + 1) - b
    BY <1>9, <2>1
  <2>3. Depth(t, i + 1) = Depth(t, i) + 1
    BY <1>8, <2>2
  <2>4. QED
    BY <1>5, <1>8, <1>10, <2>3
<1>11. CASE t[i + 1] = ")"
  <2>1. Cardinality(opened(i + 1)) = a /\ Cardinality(closed(i + 1)) = b + 1
    BY <1>4, <1>7, <1>11 DEF a, b
  <2>2. Depth(t, i + 1) = a - (b + 1)
    BY <1>9, <2>1
  <2>3. Depth(t, i + 1) = Depth(t, i) + (0 - 1)
    BY <1>8, <2>2
  <2>4. QED
    BY <1>5, <1>8, <1>11, <2>3
<1>12. CASE t[i + 1] # "(" /\ t[i + 1] # ")"
  <2>1. Cardinality(opened(i + 1)) = a /\ Cardinality(closed(i + 1)) = b
    BY <1>4, <1>12 DEF a, b
  <2>2. Depth(t, i + 1) = Depth(t, i) + 0
    BY <1>8, <1>9, <2>1
  <2>3. QED
    BY <1>5, <1>8, <1>12, <2>2
<1>13. QED
  BY <1>10, <1>11, <1>12

\* What has its parentheses in pairs has one pair around it when it is wrapped.
LEMMA WrapperFound ==
    ASSUME NEW S, NEW type \in Seq(S), IsWrapped(type), type[1] \notin {"(", ")"}
    PROVE  clickHouseOuterWrapper(type)
<1> DEFINE T == S \cup {"(", ")"}
           inner == Inner(type)
           n == Len(inner)
           At(i) == Depth(type, i + 2) = Depth(inner, i) + 1
           U == {i \in Nat : i <= n => At(i)}
<1>1. /\ Len(type) > 2 /\ type = Wrapped(type[1], inner)
      /\ \A i \in 0 .. n : Depth(inner, i) >= 0
      /\ Depth(inner, n) = 0
  BY DEF IsWrapped
<1>2. type \in Seq(T) /\ type[1] \in T /\ "(" \in T /\ ")" \in T
  BY <1>1
<1>3. inner \in Seq(T)
  <2>1. \A k \in 3 .. (Len(type) - 1) : type[k] \in T
    BY <1>2
  <2> HIDE DEF T
  <2>2. SubSeq(type, 3, Len(type) - 1) \in Seq(T)
    BY <2>1, SubSeqProperties
  <2>3. QED
    BY <2>2 DEF Inner
<1> HIDE DEF T, inner
<1>4. /\ Len(type) = n + 3 /\ type[2] = "(" /\ type[n + 3] = ")"
      /\ \A i \in 1 .. n : type[i + 2] = inner[i]
  <2> DEFINE name == type[1]
             w == Wrapped(name, inner)
  <2>1. name \in T
    BY <1>2
  <2> HIDE DEF name, n
  <2>2. /\ w \in Seq(T) /\ Len(w) = Len(inner) + 3
        /\ w[1] = name /\ w[2] = "(" /\ w[Len(inner) + 3] = ")"
        /\ \A i \in 1 .. Len(inner) : w[i + 2] = inner[i]
    BY <1>2, <1>3, <2>1, Wrapping
  <2>3. w = type
    BY <1>1 DEF name
  <2> HIDE DEF w
  <2>4. QED
    BY <2>2, <2>3 DEF n
<1>5. n \in Nat
  BY <1>3
<1> HIDE DEF n
<1>6. Depth(type, 2) = 1
  <2>1. 0 \in Nat /\ 0 + 1 <= Len(type) /\ type[0 + 1] # "(" /\ type[0 + 1] # ")"
    BY <1>4, <1>5
  <2>2. Depth(type, 0) = 0 /\ Depth(type, 0 + 1) = Depth(type, 0) + 0
    BY <1>2, <2>1, DepthStep
  <2>3. Depth(type, 1) = 0
    BY <2>2
  <2>4. Depth(type, 1 + 1) = Depth(type, 1) + 1
    BY <1>2, <1>4, <1>5, DepthStep
  <2>5. QED
    BY <2>3, <2>4
<1>7. Depth(inner, 0) = 0
  BY FS_EmptySet DEF Depth
<1>8. 0 \in U
  <2>1. Depth(type, 0 + 2) = 1
    BY <1>6
  <2>2. QED
    BY <1>7, <2>1
<1>9. ASSUME NEW i \in Nat, i \in U PROVE i + 1 \in U
  <2> SUFFICES ASSUME i + 1 <= n PROVE At(i + 1)
    OBVIOUS
  <2>1. At(i) /\ type[(i + 2) + 1] = inner[i + 1]
    BY <1>4, <1>5, <1>9
  <2> DEFINE x == inner[i + 1]
             d == IF x = "(" THEN 1 ELSE IF x = ")" THEN 0 - 1 ELSE 0
  <2>2. Depth(inner, i) \in Int /\ Depth(inner, i + 1) = Depth(inner, i) + d
    BY <1>3, <1>5, DepthStep DEF n
  <2>3. Depth(type, (i + 2) + 1) = Depth(type, i + 2) + d
    <3>1. i + 2 \in Nat /\ (i + 2) + 1 <= Len(type)
      BY <1>4, <1>5
    <3>2. QED
      BY <1>2, <2>1, <3>1, DepthStep
  <2>4. d \in Int
    BY DEF d
  <2> HIDE DEF d
  <2>5. (i + 1) + 2 = (i + 2) + 1
    OBVIOUS
  <2>6. QED
    BY <2>1, <2>2, <2>3, <2>4, <2>5
<1>10. \A i \in 0 .. n : At(i)
  <2>1. \A i \in Nat : i \in U
    <3> HIDE DEF U
    <3>1. QED
      BY <1>8, <1>9, Upward
  <2>2. QED
    BY <1>5, <2>1
<1>11. \A i \in 0 .. n : Depth(inner, i) \in Int
  <2>1. ASSUME NEW i \in 0 .. n PROVE Depth(inner, i) \in Int
    <3>1. CASE i = 0
      BY <1>7, <3>1
    <3>2. CASE i # 0
      <4>1. i - 1 \in Nat /\ (i - 1) + 1 = i
        BY <1>5, <3>2
      <4> DEFINE j == i - 1
      <4> HIDE DEF j
      <4>2. Depth(inner, j) \in Int /\ \E d \in {0, 1, 0 - 1} : Depth(inner, j + 1) = Depth(inner, j) + d
        BY <1>3, <1>5, <4>1, DepthStep DEF n, j
      <4>3. QED
        BY <4>1, <4>2 DEF j
    <3>3. QED
      BY <3>1, <3>2
  <2>2. QED
    BY <2>1
<1>12. \A i \in 0 .. n : Depth(type, i + 2) \in Nat \ {0}
  BY <1>1, <1>5, <1>10, <1>11 DEF n
<1>13. Depth(type, n + 3) = 0
  <2>1. Depth(type, n + 2) = 1
    <3>1. At(n)
      BY <1>5, <1>10
    <3>2. QED
      BY <1>1, <3>1 DEF n
  <2>2. Depth(type, (n + 2) + 1) = Depth(type, n + 2) + (0 - 1)
    <3>1. n + 2 \in Nat /\ (n + 2) + 1 <= Len(type) /\ type[(n + 2) + 1] = ")"
      BY <1>4, <1>5
    <3>2. QED
      BY <1>2, <3>1, DepthStep
  <2>3. (n + 2) + 1 = n + 3
    BY <1>5
  <2>4. QED
    BY <2>1, <2>2, <2>3
<1>14. ASSUME NEW i \in 2 .. Len(type) PROVE Depth(type, i) = 0 <=> i = Len(type)
  <2>1. CASE i = Len(type)
    BY <1>4, <1>13, <2>1
  <2>2. CASE i # Len(type)
    <3>1. i - 2 \in 0 .. n /\ (i - 2) + 2 = i
      BY <1>4, <1>5, <2>2
    <3>2. Depth(type, i) # 0
      BY <1>12, <3>1
    <3>3. QED
      BY <2>2, <3>2
  <2>3. QED
    BY <2>1, <2>2
<1>15. QED
  BY <1>1, <1>4, <1>14 DEF clickHouseOuterWrapper

\* A type of one word has no wrapper, and a named one with more has one.
LEMMA NamedWrapped ==
    ASSUME NEW S, NEW type \in Seq(S), IsNamed(type)
    PROVE  clickHouseOuterWrapper(type) <=> Len(type) > 1
<1>1. CASE Len(type) = 1
  BY <1>1 DEF clickHouseOuterWrapper
<1>2. CASE IsWrapped(type)
  BY <1>2, WrapperFound DEF IsNamed, IsWrapped
<1>3. QED
  BY <1>1, <1>2 DEF IsNamed

\* describe_table is right about the types of ClickHouse.
LEMMA TypesUnderstood ==
    ASSUME NEW type, IsClickHouseType(type)
    PROVE  isClickHouseNullable(type) = MayBeNull(type)
<1> DEFINE S == Range(type)
           plain == IF type[1] = "lowcardinality" THEN Inner(type) ELSE type
<1>1. type \in Seq(S) /\ IsNamed(type)
  BY DEF IsClickHouseType, IsList
<1>2. type[1] = "lowcardinality" =>
         Len(type) > 1 /\ IsNamed(Inner(type)) /\ Inner(type)[1] # "lowcardinality"
  BY DEF IsClickHouseType
<1> HIDE DEF S
<1>3. clickHouseOuterWrapper(type) <=> Len(type) > 1
  BY <1>1, NamedWrapped
<1>4. plain = IF clickHouseOuterWrapper(type) /\ type[1] = "lowcardinality" THEN Inner(type) ELSE type
  BY <1>2, <1>3
<1>5. plain[1] # "lowcardinality" /\ IsNamed(plain)
  BY <1>1, <1>2
<1>6. plain \in Seq(S)
  <2>1. \A k \in 3 .. (Len(type) - 1) : type[k] \in S
    BY <1>1
  <2>2. SubSeq(type, 3, Len(type) - 1) \in Seq(S)
    BY <2>1, SubSeqProperties
  <2>3. QED
    BY <1>1, <2>2 DEF Inner
<1>7. MayBeNull(type) = (Len(plain) > 1 /\ plain[1] = "nullable")
  BY DEF MayBeNull
<1> HIDE DEF plain
<1>8. isClickHouseNullable(type) = (clickHouseOuterWrapper(plain) /\ plain[1] = "nullable")
  BY <1>1, <1>4, <1>5, NullableInside
<1>9. clickHouseOuterWrapper(plain) <=> Len(plain) > 1
  BY <1>5, <1>6, NamedWrapped
<1>10. QED
  BY <1>7, <1>8, <1>9

-----------------------------------------------------------------------------
(* The scanner of MySQL's indexes.                                         *)

\* A list with one more element.
LEMMA LongerList ==
    ASSUME NEW s, IsList(s), NEW e
    PROVE  /\ IsList(Append(s, e)) /\ Len(s) \in Nat /\ Len(Append(s, e)) = Len(s) + 1
           /\ DOMAIN s = 1 .. Len(s) /\ DOMAIN Append(s, e) = 1 .. (Len(s) + 1)
           /\ \A i \in 1 .. Len(s) : Append(s, e)[i] = s[i]
           /\ Append(s, e)[Len(s) + 1] = e
<1> DEFINE S == Range(s) \cup {e}
<1>1. s \in Seq(S) /\ e \in S
  BY DEF IsList
<1> HIDE DEF S
<1>2. Append(s, e) \in Seq(S)
  BY <1>1
<1>3. IsList(Append(s, e))
  BY <1>2, SequenceIsList
<1>4. QED
  BY <1>1, <1>3

\* What the scanner keeps of an index.
Entry(index, columns, expression) ==
    [name |-> index.name, unique |-> index.unique, columns |-> columns, expression |-> expression]

\* The scanner has begun with the index, and found these columns.
Scanned(now, begun, index, columns) == \E last : now = Append(begun, Entry(index, columns, last))

Extended(columns, index, k) ==
    IF index.parts[k].column # Absent THEN Append(columns, index.parts[k].column) ELSE columns

\* A row of an index adds its column to the entry at the end, which the first begins.
LEMMA RowScanned ==
    ASSUME NEW begun, IsList(begun), NEW index, \A i \in DOMAIN begun : begun[i].name # index.name,
           NEW columns, NEW now,
           Scanned(now, begun, index, columns) \/ (now = begun /\ columns = <<>>),
           NEW k
    PROVE  Scanned(ScanIndexRow(now, StatisticsRow(index, k)), begun, index, Extended(columns, index, k))
<1>1. PICK expression : \/ now = Append(begun, Entry(index, columns, expression))
                        \/ now = begun /\ columns = <<>> /\ expression = Absent
  BY DEF Scanned
<1> DEFINE row == StatisticsRow(index, k)
           column == index.parts[k].column
           entry == Entry(index, columns, expression)
           more == Append(begun, entry)
           n == Len(begun)
           at == CHOOSE i \in DOMAIN more : more[i].name = row.name
<1>2. /\ n \in Nat /\ DOMAIN begun = 1 .. n /\ DOMAIN more = 1 .. (n + 1)
      /\ \A i \in 1 .. n : more[i] = begun[i]
      /\ more[n + 1] = entry
  BY LongerList
<1>3. row.name = index.name /\ row.unique = index.unique /\ row.part = index.parts[k]
  BY DEF StatisticsRow
<1>4. entry.name = index.name /\ entry = [name |-> index.name, unique |-> index.unique,
                                          columns |-> columns, expression |-> expression]
  BY DEF Entry
<1> HIDE DEF n, row, more, entry
<1>5. more = IF \E i \in DOMAIN now : now[i].name = row.name THEN now
             ELSE Append(now, [name |-> row.name, unique |-> row.unique,
                               columns |-> <<>>, expression |-> Absent])
  <2>1. CASE now = begun /\ columns = <<>> /\ expression = Absent
    BY <1>2, <1>3, <1>4, <2>1 DEF more
  <2>2. CASE now = more
    BY <1>2, <1>3, <1>4, <2>2
  <2>3. QED
    BY <1>1, <2>1, <2>2 DEF more, entry
<1>6. at = n + 1
  <2>1. n + 1 \in DOMAIN more /\ more[n + 1].name = row.name
    BY <1>2, <1>3, <1>4
  <2>2. ASSUME NEW i \in DOMAIN more, more[i].name = row.name PROVE i = n + 1
    BY <1>2, <1>3, <2>2
  <2>3. QED
    BY <2>1, <2>2
<1>7. ScanIndexRow(now, row) = IF row.part.column # Absent
                               THEN [more EXCEPT ![at].columns = Append(@, row.part.column)]
                               ELSE IF row.part.expression # Absent
                               THEN [more EXCEPT ![at].expression = row.part.expression]
                               ELSE more
  <2> DEFINE b == IF \E i \in DOMAIN now : now[i].name = row.name THEN now
                  ELSE Append(now, [name |-> row.name, unique |-> row.unique,
                                    columns |-> <<>>, expression |-> Absent])
             p == CHOOSE i \in DOMAIN b : b[i].name = row.name
  <2>1. ScanIndexRow(now, row) = IF row.part.column # Absent
                                 THEN [b EXCEPT ![p].columns = Append(@, row.part.column)]
                                 ELSE IF row.part.expression # Absent
                                 THEN [b EXCEPT ![p].expression = row.part.expression]
                                 ELSE b
    BY Zenon DEF ScanIndexRow
  <2>2. b = more
    BY <1>5
  <2> HIDE DEF b
  <2>3. QED
    BY <2>1, <2>2 DEF at
<1> HIDE DEF at
<1>8. more[n + 1] = entry /\ entry.columns = columns
  BY <1>2, <1>4
<1>9. ASSUME NEW e, NEW f, f = [more EXCEPT ![n + 1] = e] PROVE f = Append(begun, e)
  <2>1. /\ DOMAIN Append(begun, e) = 1 .. (n + 1) /\ IsList(Append(begun, e))
        /\ \A i \in 1 .. n : Append(begun, e)[i] = begun[i]
        /\ Append(begun, e)[n + 1] = e
    BY LongerList DEF n
  <2>2. DOMAIN f = 1 .. (n + 1) /\ f = [i \in DOMAIN more |-> f[i]]
    BY <1>2, <1>9
  <2>3. \A i \in 1 .. (n + 1) : f[i] = IF i = n + 1 THEN e ELSE begun[i]
    BY <1>2, <1>9
  <2>4. Append(begun, e) = [i \in 1 .. (n + 1) |-> Append(begun, e)[i]]
    <3> DEFINE q == Append(begun, e)
    <3>1. q \in Seq(Range(q)) /\ DOMAIN q = 1 .. (n + 1)
      BY <2>1 DEF IsList
    <3> HIDE DEF q
    <3>2. q = [i \in 1 .. (n + 1) |-> q[i]]
      BY <3>1
    <3>3. QED
      BY <3>2 DEF q
  <2>5. \A i \in 1 .. (n + 1) : Append(begun, e)[i] = f[i]
    BY <1>2, <2>1, <2>3
  <2>6. QED
    BY <1>2, <2>2, <2>4, <2>5
<1>10. CASE column # Absent
  <2> DEFINE f == ScanIndexRow(now, row)
             e == [entry EXCEPT !.columns = Append(columns, column)]
  <2>1. f = [more EXCEPT ![n + 1].columns = Append(@, column)]
    BY <1>3, <1>6, <1>7, <1>10
  <2>2. f = [more EXCEPT ![n + 1] = [entry EXCEPT !.columns = Append(columns, column)]]
    <3>1. f = [more EXCEPT ![n + 1] = [more[n + 1] EXCEPT !.columns = Append(more[n + 1].columns, column)]]
      BY <2>1
    <3> HIDE DEF f
    <3>2. QED
      BY <1>8, <3>1
  <2>3. e = Entry(index, Append(columns, column), expression)
    BY <1>4 DEF Entry
  <2> HIDE DEF f, e
  <2>4. f = Append(begun, e)
    BY <1>9, <2>2 DEF e
  <2>5. QED
    BY <1>10, <2>3, <2>4 DEF f, row, Scanned, Extended
<1>11. CASE column = Absent /\ row.part.expression # Absent
  <2> DEFINE f == ScanIndexRow(now, row)
             last == row.part.expression
             e == [entry EXCEPT !.expression = last]
  <2>1. f = [more EXCEPT ![n + 1].expression = last]
    BY <1>3, <1>6, <1>7, <1>11
  <2>2. f = [more EXCEPT ![n + 1] = [entry EXCEPT !.expression = last]]
    <3>1. f = [more EXCEPT ![n + 1] = [more[n + 1] EXCEPT !.expression = last]]
      BY <2>1
    <3> HIDE DEF f
    <3>2. QED
      BY <1>8, <3>1
  <2>3. e = Entry(index, columns, last)
    BY <1>4 DEF Entry
  <2> HIDE DEF f, e, last
  <2>4. f = Append(begun, e)
    BY <1>9, <2>2 DEF e
  <2>5. QED
    BY <1>11, <2>3, <2>4 DEF f, row, Scanned, Extended
<1>12. CASE column = Absent /\ row.part.expression = Absent
  <2>1. ScanIndexRow(now, row) = Append(begun, Entry(index, columns, expression))
    BY <1>3, <1>7, <1>12 DEF more, entry
  <2>2. QED
    BY <1>12, <2>1 DEF row, Scanned, Extended
<1>13. QED
  BY <1>10, <1>11, <1>12

\* The columns of an index, in their order.
ColumnsOf(index) ==
    Selected([j \in DOMAIN index.parts |-> index.parts[j].column],
             {j \in DOMAIN index.parts : index.parts[j].column # Absent})

\* The loop over the rows of an index.
LEMMA RowsScanned ==
    ASSUME NEW begun, NEW index, IsList(index.parts)
    PROVE  \E upTo : /\ upTo[0] = begun /\ ScanIndex(begun, index) = upTo[Len(index.parts)]
                     /\ \A k \in 1 .. Len(index.parts) :
                           upTo[k] = ScanIndexRow(upTo[k - 1], StatisticsRow(index, k))
<1> DEFINE Value(f, k) == IF k = 0 THEN begun ELSE ScanIndexRow(f[k - 1], StatisticsRow(index, k))
           Solves(f, n) == f = [k \in 0 .. n |-> Value(f, k)]
           T == {n \in Nat : \E f : Solves(f, n)}
           m == Len(index.parts)
<1>1. m \in Nat
  BY DEF IsList
<1>2. 0 \in T
  <2>1. Solves([k \in 0 .. 0 |-> begun], 0)
    OBVIOUS
  <2> HIDE DEF Solves
  <2>2. QED
    BY <2>1
<1>3. ASSUME NEW n \in Nat, n \in T PROVE n + 1 \in T
  <2>1. PICK f : Solves(f, n)
    BY <1>3
  <2> DEFINE g == [k \in 0 .. (n + 1) |-> Value(f, k)]
  <2>2. \A k \in 0 .. n : g[k] = f[k]
    <3> HIDE DEF Value
    <3>1. QED
      BY <2>1
  <2>3. \A k \in 0 .. (n + 1) : Value(g, k) = Value(f, k)
    <3> SUFFICES ASSUME NEW k \in 0 .. (n + 1) PROVE Value(g, k) = Value(f, k)
      OBVIOUS
    <3>1. k # 0 => g[k - 1] = f[k - 1]
      <4> HIDE DEF g
      <4>1. QED
        BY <2>2
    <3> HIDE DEF g
    <3>2. QED
      BY <3>1
  <2>4. Solves(g, n + 1)
    <3> HIDE DEF Value
    <3>1. g = [k \in 0 .. (n + 1) |-> Value(f, k)]
      OBVIOUS
    <3> HIDE DEF g
    <3>2. QED
      BY <2>3, <3>1
  <2> HIDE DEF g, Solves
  <2>5. QED
    BY <2>4
<1>4. m \in T
  <2> HIDE DEF T
  <2>1. QED
    BY <1>1, <1>2, <1>3, Upward
<1> DEFINE E == CHOOSE f : Solves(f, m)
<1>5. Solves(E, m)
  <2> HIDE DEF Solves
  <2>1. QED
    BY <1>4
<1>6. ScanIndex(begun, index) = E[m]
  BY DEF ScanIndex
<1> HIDE DEF E
<1>7. \A k \in 0 .. m : E[k] = Value(E, k)
  <2> HIDE DEF Value
  <2>1. QED
    BY <1>5
<1>8. E[0] = begun
  <2>1. E[0] = Value(E, 0)
    <3> HIDE DEF Value
    <3>1. QED
      BY <1>1, <1>7
  <2>2. QED
    BY <2>1
<1>9. \A k \in 1 .. m : E[k] = ScanIndexRow(E[k - 1], StatisticsRow(index, k))
  <2> SUFFICES ASSUME NEW k \in 1 .. m
               PROVE  E[k] = ScanIndexRow(E[k - 1], StatisticsRow(index, k))
    OBVIOUS
  <2>1. E[k] = Value(E, k) /\ k # 0
    <3> HIDE DEF Value
    <3>1. QED
      BY <1>1, <1>7
  <2>2. QED
    BY <2>1
<1>10. QED
  BY <1>6, <1>8, <1>9

\* An index that is scanned is one entry more, with its columns in their order.
LEMMA IndexScanned ==
    ASSUME NEW begun, IsList(begun), NEW index, IsList(index.parts), index.parts # <<>>,
           \A i \in DOMAIN begun : begun[i].name # index.name
    PROVE  \E last : ScanIndex(begun, index) = Append(begun, Entry(index, ColumnsOf(index), last))
<1> DEFINE n == Len(index.parts)
           columns == [j \in DOMAIN index.parts |-> index.parts[j].column]
           I == {j \in DOMAIN index.parts : index.parts[j].column # Absent}
<1>1. /\ n \in Nat /\ n # 0 /\ DOMAIN index.parts = 1 .. n
      /\ columns \in Seq(Range(columns)) /\ Len(columns) = n
  <2>1. index.parts \in Seq(Range(index.parts))
    BY DEF IsList
  <2>2. columns = [j \in DOMAIN index.parts |-> columns[j]]
    OBVIOUS
  <2>3. IsList(columns) /\ DOMAIN columns = DOMAIN index.parts
    BY <2>2, SameList
  <2>4. columns \in Seq(Range(columns))
    BY <2>3 DEF IsList
  <2>5. QED
    BY <2>1, <2>3, <2>4
<1>2. PICK row : /\ row[0] = begun /\ ScanIndex(begun, index) = row[n]
                 /\ \A k \in 1 .. n : row[k] = ScanIndexRow(row[k - 1], StatisticsRow(index, k))
  BY RowsScanned
<1>3. PICK sel : /\ sel[0] = <<>> /\ Selected(columns, I) = sel[Len(columns)]
                 /\ \A k \in 1 .. Len(columns) :
                       sel[k] = IF k \in I THEN Append(sel[k - 1], columns[k]) ELSE sel[k - 1]
  <2> HIDE DEF columns, I
  <2>1. QED
    BY <1>1, SelectedSteps
<1>4. ColumnsOf(index) = sel[n]
  BY <1>1, <1>3 DEF ColumnsOf
<1>5. \A k \in 1 .. n : sel[k] = Extended(sel[k - 1], index, k)
  BY <1>1, <1>3 DEF Extended
<1> HIDE DEF columns, I, n
<1> DEFINE Done(k) == Scanned(row[k], begun, index, sel[k])
           U == {k \in Nat : k <= n => k = 0 \/ Done(k)}
<1>6. 0 \in U
  OBVIOUS
<1>7. ASSUME NEW k \in Nat, k \in U PROVE k + 1 \in U
  <2> SUFFICES ASSUME k + 1 <= n PROVE Done(k + 1)
    OBVIOUS
  <2>1. k + 1 \in 1 .. n /\ (k + 1) - 1 = k
    BY <1>1
  <2>2. /\ row[k + 1] = ScanIndexRow(row[k], StatisticsRow(index, k + 1))
        /\ sel[k + 1] = Extended(sel[k], index, k + 1)
    BY <1>2, <1>5, <2>1
  <2>3. Scanned(row[k], begun, index, sel[k]) \/ (row[k] = begun /\ sel[k] = <<>>)
    <3>1. CASE k = 0
      BY <1>2, <1>3, <3>1
    <3>2. CASE k # 0
      BY <1>1, <1>7, <2>1, <3>2
    <3>3. QED
      BY <3>1, <3>2
  <2>4. Scanned(ScanIndexRow(row[k], StatisticsRow(index, k + 1)), begun, index, Extended(sel[k], index, k + 1))
    BY <2>3, RowScanned
  <2>5. QED
    BY <2>2, <2>4
<1>8. Done(n)
  <2>1. \A k \in Nat : k \in U
    <3> HIDE DEF U
    <3>1. QED
      BY <1>6, <1>7, Upward
  <2>2. QED
    BY <1>1, <2>1
<1>9. QED
  BY <1>2, <1>4, <1>8 DEF Scanned

\* The order in which a finite set is listed.
LEMMA Enumerated ==
    ASSUME NEW S, IsFiniteSet(S), NEW q, q = SetToSeq(S)
    PROVE  /\ IsList(q) /\ Len(q) \in Nat /\ DOMAIN q = 1 .. Len(q)
           /\ \A i, j \in DOMAIN q : q[i] = q[j] => i = j
           /\ \A i \in DOMAIN q : q[i] \in S
           /\ \A x \in S : \E i \in DOMAIN q : q[i] = x
<1> DEFINE n == Cardinality(S)
<1>1. n \in Nat /\ ExistsBijection(1 .. n, S)
  BY FS_CardinalityType
<1>2. \E f \in [1 .. n -> S] : IsInjective(f)
  BY <1>1 DEF ExistsBijection, Bijection, Injection
<1>3. q = CHOOSE f \in [1 .. n -> S] : IsInjective(f)
  BY DEF SetToSeq
<1> HIDE DEF n
<1>4. q \in [1 .. n -> S] /\ IsInjective(q)
  BY <1>2, <1>3
<1>5. q \in Injection(1 .. n, S)
  BY <1>4 DEF Injection
<1>6. IsFiniteSet(1 .. n) /\ Cardinality(1 .. n) = n
  BY <1>1, FS_Interval
<1>7. Cardinality(1 .. n) = Cardinality(S)
  BY <1>6 DEF n
<1>8. q \in Surjection(1 .. n, S)
  BY <1>5, <1>7, FS_Injection
<1>9. \A x \in S : \E i \in 1 .. n : q[i] = x
  BY <1>8 DEF Surjection
<1>10. q \in Seq(S) /\ Len(q) = n
  BY <1>1, <1>4
<1>11. IsList(q)
  BY <1>10, SequenceIsList
<1>12. QED
  BY <1>1, <1>4, <1>9, <1>10, <1>11 DEF IsInjective

\* What is shown of the indexes in S: each once, with its columns in order.
Mirrors(shown, S) ==
    /\ \A k \in DOMAIN shown : \E x \in S : shown[k].name = x.name /\ shown[k].columns = ColumnsOf(x)
    /\ \A k, l \in DOMAIN shown : shown[k].name = shown[l].name => k = l
    /\ \A x \in S : \E k \in DOMAIN shown :
          shown[k].name = x.name /\ shown[k].columns = ColumnsOf(x) /\ shown[k].unique = x.unique

\* The loop over the indexes.
LEMMA IndexesScanned ==
    ASSUME NEW t, NEW q, q = SetToSeq(t.indexes), IsList(q)
    PROVE  \E upTo : /\ upTo[0] = <<>> /\ mysqlIndexes(t) = upTo[Len(q)]
                     /\ \A i \in 1 .. Len(q) : upTo[i] = ScanIndex(upTo[i - 1], q[i])
<1> DEFINE Value(f, i) == IF i = 0 THEN <<>> ELSE ScanIndex(f[i - 1], q[i])
           Solves(f, n) == f = [i \in 0 .. n |-> Value(f, i)]
           T == {n \in Nat : \E f : Solves(f, n)}
           m == Len(q)
<1>1. m \in Nat
  BY DEF IsList
<1>2. 0 \in T
  <2>1. Solves([i \in 0 .. 0 |-> <<>>], 0)
    OBVIOUS
  <2> HIDE DEF Solves
  <2>2. QED
    BY <2>1
<1>3. ASSUME NEW n \in Nat, n \in T PROVE n + 1 \in T
  <2>1. PICK f : Solves(f, n)
    BY <1>3
  <2> DEFINE g == [i \in 0 .. (n + 1) |-> Value(f, i)]
  <2>2. \A i \in 0 .. n : g[i] = f[i]
    <3> HIDE DEF Value
    <3>1. QED
      BY <2>1
  <2>3. \A i \in 0 .. (n + 1) : Value(g, i) = Value(f, i)
    <3> SUFFICES ASSUME NEW i \in 0 .. (n + 1) PROVE Value(g, i) = Value(f, i)
      OBVIOUS
    <3>1. i # 0 => g[i - 1] = f[i - 1]
      <4> HIDE DEF g
      <4>1. QED
        BY <2>2
    <3> HIDE DEF g
    <3>2. QED
      BY <3>1
  <2>4. Solves(g, n + 1)
    <3> HIDE DEF Value
    <3>1. g = [i \in 0 .. (n + 1) |-> Value(f, i)]
      OBVIOUS
    <3> HIDE DEF g
    <3>2. QED
      BY <2>3, <3>1
  <2> HIDE DEF g, Solves
  <2>5. QED
    BY <2>4
<1>4. m \in T
  <2> HIDE DEF T
  <2>1. QED
    BY <1>1, <1>2, <1>3, Upward
<1> DEFINE E == CHOOSE f : Solves(f, m)
<1>5. Solves(E, m)
  <2> HIDE DEF Solves
  <2>1. QED
    BY <1>4
<1>6. mysqlIndexes(t) = E[m]
  BY DEF mysqlIndexes
<1> HIDE DEF E
<1>7. \A i \in 0 .. m : E[i] = Value(E, i)
  <2> HIDE DEF Value
  <2>1. QED
    BY <1>5
<1>8. E[0] = <<>>
  <2>1. E[0] = Value(E, 0)
    <3> HIDE DEF Value
    <3>1. QED
      BY <1>1, <1>7
  <2>2. QED
    BY <2>1
<1>9. \A i \in 1 .. m : E[i] = ScanIndex(E[i - 1], q[i])
  <2> SUFFICES ASSUME NEW i \in 1 .. m PROVE E[i] = ScanIndex(E[i - 1], q[i])
    OBVIOUS
  <2>1. E[i] = Value(E, i) /\ i # 0
    <3> HIDE DEF Value
    <3>1. QED
      BY <1>1, <1>7
  <2>2. QED
    BY <2>1
<1>10. QED
  BY <1>6, <1>8, <1>9

\* describe_table shows every index of a table, on either engine.
LEMMA MySQLMirrors ==
    ASSUME NEW t, HasIndexes(t)
    PROVE  Mirrors(mysqlIndexes(t), t.indexes)
<1> DEFINE q == SetToSeq(t.indexes)
<1>1. IsFiniteSet(t.indexes) /\ \A x, y \in t.indexes : x.name = y.name => x = y
  BY DEF HasIndexes
<1>2. /\ IsList(q) /\ Len(q) \in Nat /\ DOMAIN q = 1 .. Len(q)
      /\ \A i, j \in DOMAIN q : q[i] = q[j] => i = j
      /\ \A i \in DOMAIN q : q[i] \in t.indexes
      /\ \A x \in t.indexes : \E i \in DOMAIN q : q[i] = x
  BY <1>1, Enumerated
<1>3. PICK upTo : /\ upTo[0] = <<>> /\ mysqlIndexes(t) = upTo[Len(q)]
                  /\ \A i \in 1 .. Len(q) : upTo[i] = ScanIndex(upTo[i - 1], q[i])
  BY <1>2, IndexesScanned
<1> DEFINE n == Len(q)
           ShownAs(shown, i) == \E last : shown = Entry(q[i], ColumnsOf(q[i]), last)
           Done(i) == /\ IsList(upTo[i]) /\ Len(upTo[i]) = i
                      /\ \A j \in 1 .. i : ShownAs(upTo[i][j], j)
           U == {i \in Nat : i <= n => Done(i)}
<1>4. \A shown, i : ShownAs(shown, i) =>
         shown.name = q[i].name /\ shown.columns = ColumnsOf(q[i]) /\ shown.unique = q[i].unique
  BY DEF Entry
<1>5. \A i, j \in 1 .. n : q[i].name = q[j].name => i = j
  BY <1>1, <1>2
<1> HIDE DEF q, n
<1>6. 0 \in U
  <2>1. upTo[0] \in Seq({}) /\ Len(upTo[0]) = 0
    BY <1>3
  <2>2. IsList(upTo[0])
    BY <2>1, SequenceIsList
  <2>3. QED
    BY <2>1, <2>2
<1>7. ASSUME NEW i \in Nat, i \in U PROVE i + 1 \in U
  <2> SUFFICES ASSUME i + 1 <= n PROVE Done(i + 1)
    OBVIOUS
  <2> DEFINE begun == upTo[i]
             index == q[i + 1]
  <2>1. i + 1 \in 1 .. n /\ (i + 1) - 1 = i /\ i <= n
    BY <1>2 DEF n
  <2>2. IsList(begun) /\ Len(begun) = i /\ \A j \in 1 .. i : ShownAs(begun[j], j)
    <3> HIDE DEF ShownAs
    <3>1. QED
      BY <1>7, <2>1
  <2>3. upTo[i + 1] = ScanIndex(begun, index)
    BY <1>3, <2>1 DEF n
  <2>4. IsList(index.parts) /\ index.parts # <<>>
    BY <1>2, <2>1 DEF HasIndexes, n
  <2>5. DOMAIN begun = 1 .. i
    BY <2>2, LongerList
  <2>6. \A j \in DOMAIN begun : begun[j].name # index.name
    <3> SUFFICES ASSUME NEW j \in 1 .. i PROVE begun[j].name # index.name
      BY <2>5
    <3>1. begun[j].name = q[j].name
      <4> HIDE DEF ShownAs
      <4>1. QED
        BY <1>4, <2>2
    <3>2. j \in 1 .. n /\ j # i + 1
      BY <1>2, <2>1 DEF n
    <3>3. QED
      BY <1>5, <2>1, <3>1, <3>2
  <2> HIDE DEF begun, index
  <2>7. PICK last : ScanIndex(begun, index) = Append(begun, Entry(index, ColumnsOf(index), last))
    BY <2>2, <2>4, <2>6, IndexScanned
  <2> DEFINE e == Entry(index, ColumnsOf(index), last)
             more == Append(begun, e)
  <2>8. ShownAs(e, i + 1)
    BY DEF index
  <2>9. upTo[i + 1] = more
    BY <2>3, <2>7
  <2> HIDE DEF e, ShownAs
  <2>10. /\ IsList(more) /\ Len(more) = i + 1
         /\ \A j \in 1 .. i : more[j] = begun[j]
         /\ more[i + 1] = e
    BY <2>2, LongerList
  <2> HIDE DEF more
  <2>11. \A j \in 1 .. (i + 1) : ShownAs(more[j], j)
    <3> SUFFICES ASSUME NEW j \in 1 .. (i + 1) PROVE ShownAs(more[j], j)
      OBVIOUS
    <3>1. CASE j = i + 1
      BY <2>8, <2>10, <3>1
    <3>2. CASE j # i + 1
      <4>1. j \in 1 .. i
        BY <3>2
      <4>2. QED
        BY <2>2, <2>10, <4>1
    <3>3. QED
      BY <3>1, <3>2
  <2>12. QED
    BY <2>9, <2>10, <2>11
<1>8. Done(n)
  <2>1. \A i \in Nat : i \in U
    <3> HIDE DEF U
    <3>1. QED
      BY <1>6, <1>7, Upward
  <2>2. QED
    BY <1>2, <2>1 DEF n
<1> DEFINE shown == mysqlIndexes(t)
<1>9. /\ DOMAIN shown = 1 .. n
      /\ \A j \in 1 .. n : /\ shown[j].name = q[j].name /\ shown[j].columns = ColumnsOf(q[j])
                           /\ shown[j].unique = q[j].unique
  <2>1. shown = upTo[n]
    BY <1>3 DEF n
  <2> HIDE DEF shown, ShownAs
  <2>2. IsList(shown) /\ Len(shown) = n /\ \A j \in 1 .. n : ShownAs(shown[j], j)
    BY <1>8, <2>1
  <2>3. DOMAIN shown = 1 .. n
    BY <2>2, LongerList
  <2>4. QED
    BY <1>4, <2>2, <2>3
<1> HIDE DEF shown
<1>10. /\ \A j \in 1 .. n : q[j] \in t.indexes
       /\ \A x \in t.indexes : \E j \in 1 .. n : q[j] = x
  BY <1>2 DEF n
<1>11. Mirrors(shown, t.indexes)
  BY <1>5, <1>9, <1>10 DEF Mirrors
<1>12. QED
  BY <1>11 DEF shown

\* An index of ClickHouse.
OnExpression(x) == x.unique = FALSE /\ \A k \in DOMAIN x.parts : x.parts[k].column = Absent

\* It has no columns to show.
LEMMA NoColumns ==
    ASSUME NEW x, IsList(x.parts), OnExpression(x)
    PROVE  ColumnsOf(x) = <<>>
<1> DEFINE s == [j \in DOMAIN x.parts |-> x.parts[j].column]
           I == {j \in DOMAIN x.parts : x.parts[j].column # Absent}
           q == Selected(s, I)
<1>1. IsList(s)
  <2>1. s = [j \in DOMAIN x.parts |-> s[j]]
    OBVIOUS
  <2> HIDE DEF s
  <2>2. QED
    BY <2>1, SameList
<1>2. I = {}
  BY DEF OnExpression
<1> HIDE DEF s, I
<1>3. s \in Seq(Range(s))
  BY <1>1 DEF IsList
<1>4. q \in Seq(Range(s)) /\ \A k \in DOMAIN q : \E j \in DOMAIN s : j \in I /\ q[k] = s[j]
  BY <1>3, SelectedElements
<1> HIDE DEF q
<1>5. q \in Seq(Range(s)) /\ \A k \in DOMAIN q : FALSE
  BY <1>2, <1>4
<1>6. q = <<>>
  BY <1>5
<1>7. QED
  BY <1>6 DEF q, s, I, ColumnsOf

\* (On ClickHouse, one row an index.)
LEMMA ClickHouseMirrors ==
    ASSUME NEW t, HasIndexes(t), \A x \in t.indexes : OnExpression(x)
    PROVE  Mirrors(clickHouseIndexes(t), t.indexes)
<1> DEFINE q == SetToSeq(t.indexes)
           shown == clickHouseIndexes(t)
<1>1. IsFiniteSet(t.indexes) /\ \A x, y \in t.indexes : x.name = y.name => x = y
  BY DEF HasIndexes
<1>2. /\ \A i, j \in DOMAIN q : q[i] = q[j] => i = j
      /\ \A i \in DOMAIN q : q[i] \in t.indexes
      /\ \A x \in t.indexes : \E i \in DOMAIN q : q[i] = x
  BY <1>1, Enumerated
<1>3. /\ DOMAIN shown = DOMAIN q
      /\ \A k \in DOMAIN q : shown[k].name = q[k].name /\ shown[k].unique = FALSE /\ shown[k].columns = <<>>
  BY DEF clickHouseIndexes
<1>4. \A x \in t.indexes : ColumnsOf(x) = <<>> /\ x.unique = FALSE
  BY NoColumns DEF HasIndexes, OnExpression
<1> HIDE DEF q, shown
<1>5. \A k \in DOMAIN q : shown[k].columns = ColumnsOf(q[k]) /\ shown[k].unique = q[k].unique
  BY <1>2, <1>3, <1>4
<1>6. \A i, j \in DOMAIN q : q[i].name = q[j].name => i = j
  BY <1>1, <1>2
<1>7. Mirrors(shown, t.indexes)
  BY <1>2, <1>3, <1>5, <1>6 DEF Mirrors
<1>8. QED
  BY <1>7 DEF shown

-----------------------------------------------------------------------------
(* Tables that can be described.                                           *)

\* What is shown of a column of ClickHouse, its nullability, is so.
Agrees(c) == Quoting(c.type) \/ isClickHouseNullable(c.type) = c.null

Sound(e, t) ==
    /\ HasIndexes(t)
    /\ e = "clickhouse" => /\ \A i \in DOMAIN t.columns : Agrees(t.columns[i])
                           /\ \A x \in t.indexes : OnExpression(x)

AllSound == \A name \in DOMAIN tables : Sound(engine, tables[name])

\* Also what is seen where there is no table.
LEMMA NoTableSound == \A e : Sound(e, NoTable)
<1>1. NoTable.indexes = {} /\ NoTable.columns = <<>>
  BY DEF NoTable
<1>2. IsFiniteSet({})
  BY FS_EmptySet
<1>3. DOMAIN <<>> = {}
  OBVIOUS
<1>4. QED
  BY <1>1, <1>2, <1>3 DEF Sound, HasIndexes

\* What a statement replaces a table by.
LEMMA ChangeSound ==
    ASSUME AllSound, engine' = engine, NEW name \in DOMAIN tables, NEW t, Change(name, t), Sound(engine, t)
    PROVE  AllSound'
<1>1. DOMAIN tables' = DOMAIN tables
      /\ \A n \in DOMAIN tables : tables'[n] = IF n = name THEN t ELSE tables[n]
  BY DEF Change
<1>2. QED
  BY <1>1 DEF AllSound

\* A table is added.
LEMMA CreateSound ==
    ASSUME AllSound, engine' = engine, NEW name, NEW t, Create(name, t), Sound(engine, t)
    PROVE  AllSound'
<1>1. DOMAIN tables' = DOMAIN tables \cup {name}
      /\ \A n \in DOMAIN tables' : tables'[n] = IF n = name THEN t ELSE tables[n]
  BY DEF Create, Added
<1>2. QED
  BY <1>1 DEF AllSound

\* The rows do not matter.
LEMMA SameSound ==
    ASSUME NEW e, NEW t, Sound(e, t), NEW u, u.columns = t.columns, u.indexes = t.indexes
    PROVE  Sound(e, u)
BY DEF Sound, HasIndexes, ColumnNames

\* The columns that a statement brings in.
AgreedColumns(columns) == engine = "clickhouse" => \A i \in DOMAIN columns : Agrees(columns[i])

\* A statement on tables.
LEMMA TableSound ==
    ASSUME AllSound, Held, engine' = engine, NEW s, ExecuteTableStatement(s),
           s.do = "create_table" => AgreedColumns(StoredColumns(engine, s.columns))
    PROVE  AllSound'
<1>1. CASE s.do = "create_table"
  <2> DEFINE t == [NoTable EXCEPT !.columns = StoredColumns(engine, s.columns)]
  <2>1. Create(s.table, t)
    BY <1>1 DEF ExecuteTableStatement
  <2>2. t.columns = StoredColumns(engine, s.columns) /\ t.indexes = {}
    BY DEF NoTable
  <2> HIDE DEF t
  <2>3. Sound(engine, t)
    BY <1>1, <2>2, FS_EmptySet DEF Sound, HasIndexes, AgreedColumns
  <2>4. QED
    BY <2>1, <2>3, CreateSound
<1>2. CASE s.do = "drop_table"
  <2>1. tables' = Restrict(tables, DOMAIN tables \ {s.table})
    BY <1>2 DEF ExecuteTableStatement
  <2>2. QED
    BY <2>1 DEF Restrict, AllSound
<1>3. CASE s.do = "rename_table"
  <2>1. /\ s.from \in DOMAIN tables
        /\ tables' = Added(Restrict(tables, DOMAIN tables \ {s.from}), s.to, tables[s.from])
    BY <1>3 DEF ExecuteTableStatement
  <2>2. QED
    BY <2>1 DEF Restrict, Added, AllSound
<1>4. CASE s.do = "create_like"
  <2> DEFINE t == [tables[s.like] EXCEPT !.rows = 0]
  <2>1. s.like \in DOMAIN tables /\ Create(s.table, t)
    BY <1>4 DEF ExecuteTableStatement
  <2>2. t.columns = tables[s.like].columns /\ t.indexes = tables[s.like].indexes
    BY <2>1 DEF Held, IsTable
  <2> HIDE DEF t
  <2>3. Sound(engine, t)
    BY <2>1, <2>2, SameSound DEF AllSound
  <2>4. QED
    BY <2>1, <2>3, CreateSound
<1>5. CASE s.do = "copy_rows"
  <2> DEFINE t == [tables[s.table] EXCEPT !.rows = @ + tables[s.from].rows]
  <2>1. s.table \in DOMAIN tables /\ Change(s.table, t)
    BY <1>5 DEF ExecuteTableStatement
  <2>2. t.columns = tables[s.table].columns /\ t.indexes = tables[s.table].indexes
    BY <2>1 DEF Held, IsTable
  <2> HIDE DEF t
  <2>3. Sound(engine, t)
    BY <2>1, <2>2, SameSound DEF AllSound
  <2>4. QED
    BY <2>1, <2>3, ChangeSound
<1>6. QED
  BY <1>1, <1>2, <1>3, <1>4, <1>5 DEF ExecuteTableStatement

\* More columns.
LEMMA ExtendedSound ==
    ASSUME NEW e, NEW t, Sound(e, t), GoodColumns(t.columns), NEW new, GoodColumns(new),
           e = "clickhouse" => \A i \in DOMAIN new : Agrees(new[i]),
           NEW u, u.columns = t.columns \o new, u.indexes = t.indexes
    PROVE  Sound(e, u)
<1> DEFINE a == t.columns
           S == Range(a) \cup Range(new)
           m == Len(a)
           n == Len(new)
<1>1. a \in Seq(Range(a)) /\ new \in Seq(Range(new))
  BY DEF GoodColumns, IsList
<1>2. a \in Seq(S) /\ new \in Seq(S)
  BY <1>1
<1> HIDE DEF S, a
<1>3. /\ m \in Nat /\ n \in Nat /\ DOMAIN a = 1 .. m /\ DOMAIN new = 1 .. n
      /\ DOMAIN (a \o new) = 1 .. (m + n)
      /\ \A i \in 1 .. (m + n) : (a \o new)[i] = IF i <= m THEN a[i] ELSE new[i - m]
  BY <1>2
<1> HIDE DEF m, n
<1>4. ColumnNames(t) \subseteq ColumnNames(u)
  <2> SUFFICES ASSUME NEW i \in DOMAIN a PROVE a[i].name \in ColumnNames(u)
    BY DEF ColumnNames, a
  <2>1. i \in 1 .. (m + n) /\ (a \o new)[i] = a[i]
    BY <1>3
  <2>2. u.columns = a \o new
    BY DEF a
  <2>3. QED
    BY <1>3, <2>1, <2>2 DEF ColumnNames
<1>5. e = "clickhouse" => \A i \in DOMAIN u.columns : Agrees(u.columns[i])
  <2> SUFFICES ASSUME e = "clickhouse", NEW i \in 1 .. (m + n) PROVE Agrees((a \o new)[i])
    BY <1>3 DEF a
  <2>1. \A j \in DOMAIN a : Agrees(a[j])
    BY DEF Sound, a
  <2>2. i <= m \/ i - m \in 1 .. n
    BY <1>3
  <2>3. i <= m => i \in 1 .. m
    BY <1>3
  <2>4. QED
    BY <1>3, <2>1, <2>2, <2>3
<1>6. QED
  BY <1>4, <1>5 DEF Sound, HasIndexes

\* Other columns under the same names.
LEMMA ModifiedSound ==
    ASSUME NEW e, NEW t, Sound(e, t), NEW u, u.indexes = t.indexes, DOMAIN u.columns = DOMAIN t.columns,
           \A i \in DOMAIN t.columns : /\ u.columns[i].name = t.columns[i].name
                                       /\ e = "clickhouse" => Agrees(u.columns[i])
    PROVE  Sound(e, u)
<1>1. ColumnNames(u) = ColumnNames(t)
  BY DEF ColumnNames
<1>2. QED
  BY <1>1 DEF Sound, HasIndexes

\* The columns and the indexes of a table that are left without some columns.
ColumnsLeft(t, names) == Selected(t.columns, {k \in DOMAIN t.columns : t.columns[k].name \notin names})

PartsLeft(x, names) == Selected(x.parts, {k \in DOMAIN x.parts : x.parts[k].column \notin names})

IndexesLeft(t, names) == {x \in {[y EXCEPT !.parts = PartsLeft(y, names)] : y \in t.indexes} : x.parts # <<>>}

\* They can still be described.
LEMMA DroppedSound ==
    ASSUME NEW e, NEW t, Sound(e, t), GoodColumns(t.columns), GoodIndexes(t.indexes), NEW names,
           NEW u, u.columns = ColumnsLeft(t, names), u.indexes = IndexesLeft(t, names)
    PROVE  Sound(e, u)
<1> DEFINE a == t.columns
           I == {k \in DOMAIN a : a[k].name \notin names}
           b == u.columns
           Shrunk == [x \in t.indexes |-> [x EXCEPT !.parts = PartsLeft(x, names)]]
           From(y, x) == /\ y.name = x.name /\ y.unique = x.unique /\ IsList(y.parts)
                         /\ \A k \in DOMAIN y.parts : \E j \in DOMAIN x.parts :
                               y.parts[k] = x.parts[j] /\ x.parts[j].column \notin names
<1>1. /\ \A k \in DOMAIN b : \E j \in DOMAIN a : b[k] = a[j]
      /\ \A j \in DOMAIN a : j \in I => \E k \in DOMAIN b : b[k] = a[j]
  <2>1. a \in Seq(Range(a))
    BY DEF GoodColumns, IsList
  <2>2. b = Selected(a, I)
    BY DEF ColumnsLeft
  <2> HIDE DEF a, b, I
  <2> DEFINE q == Selected(a, I)
  <2>3. /\ q \in Seq(Range(a))
        /\ \A k \in DOMAIN q : \E j \in DOMAIN a : j \in I /\ q[k] = a[j]
        /\ \A j \in DOMAIN a : j \in I => \E k \in DOMAIN q : q[k] = a[j]
    BY <2>1, SelectedElements
  <2> HIDE DEF q
  <2>4. QED
    BY <2>2, <2>3 DEF q
<1>2. \A c \in ColumnNames(t) \ names : c \in ColumnNames(u)
  <2> SUFFICES ASSUME NEW j \in DOMAIN a, a[j].name \notin names PROVE a[j].name \in ColumnNames(u)
    BY DEF ColumnNames
  <2>1. j \in I
    OBVIOUS
  <2> HIDE DEF a, b, I
  <2>2. PICK k \in DOMAIN b : b[k] = a[j]
    BY <1>1, <2>1
  <2>3. QED
    BY <2>2 DEF ColumnNames, b
<1>3. e = "clickhouse" => \A k \in DOMAIN b : Agrees(b[k])
  <2>1. e = "clickhouse" => \A j \in DOMAIN a : Agrees(a[j])
    BY DEF Sound
  <2> HIDE DEF a, b
  <2>2. QED
    BY <1>1, <2>1
<1>4. \A x \in t.indexes : From(Shrunk[x], x)
  <2> SUFFICES ASSUME NEW x \in t.indexes PROVE From(Shrunk[x], x)
    OBVIOUS
  <2> DEFINE P == {k \in DOMAIN x.parts : x.parts[k].column \notin names}
             kept == PartsLeft(x, names)
  <2>1. IsIndex(x) /\ IsList(x.parts)
    BY DEF GoodIndexes, Sound, HasIndexes
  <2>2. Shrunk[x] = [x EXCEPT !.parts = kept]
    OBVIOUS
  <2>3. x.parts \in Seq(Range(x.parts)) /\ kept = Selected(x.parts, P)
    BY <2>1 DEF IsList, PartsLeft
  <2> HIDE DEF P, kept
  <2>4. /\ kept \in Seq(Range(x.parts))
        /\ \A k \in DOMAIN kept : \E j \in DOMAIN x.parts : j \in P /\ kept[k] = x.parts[j]
    BY <2>3, SelectedElements
  <2>5. Shrunk[x].name = x.name /\ Shrunk[x].unique = x.unique /\ Shrunk[x].parts = kept
    BY <2>1, <2>2 DEF IsIndex
  <2>6. IsList(kept)
    BY <2>4, SequenceIsList
  <2>7. QED
    BY <2>4, <2>5, <2>6 DEF P
<1>5. /\ \A y \in u.indexes : y.parts # <<>> /\ y \in Range(Shrunk)
      /\ DOMAIN Shrunk = t.indexes /\ Shrunk = [x \in t.indexes |-> Shrunk[x]]
  BY DEF IndexesLeft, Range
<1> HIDE DEF From, a, b, I, Shrunk
<1>6. IsFiniteSet(u.indexes)
  <2>1. Shrunk \in Surjection(t.indexes, Range(Shrunk))
    BY <1>5 DEF Surjection, Range
  <2>2. IsFiniteSet(t.indexes)
    BY DEF Sound, HasIndexes
  <2>3. IsFiniteSet(Range(Shrunk))
    BY <2>1, <2>2, FS_Surjection
  <2>4. u.indexes \subseteq Range(Shrunk)
    BY <1>5
  <2>5. QED
    BY <2>3, <2>4, FS_Subset
<1>7. ASSUME NEW y \in u.indexes PROVE y.parts # <<>> /\ \E x \in t.indexes : y = Shrunk[x] /\ From(y, x)
  <2>1. y.parts # <<>> /\ y \in Range(Shrunk) /\ DOMAIN Shrunk = t.indexes
    BY <1>5
  <2>2. QED
    BY <1>4, <2>1 DEF Range
<1>8. ASSUME NEW y \in u.indexes, NEW z \in u.indexes, y.name = z.name PROVE y = z
  <2>1. PICK v \in t.indexes : y = Shrunk[v] /\ From(y, v)
    BY <1>7
  <2>2. PICK w \in t.indexes : z = Shrunk[w] /\ From(z, w)
    BY <1>7
  <2>3. v.name = w.name
    BY <1>8, <2>1, <2>2 DEF From
  <2>4. v = w
    BY <2>3 DEF Sound, HasIndexes
  <2>5. QED
    BY <2>1, <2>2, <2>4
<1>9. ASSUME NEW y \in u.indexes
      PROVE  /\ IsList(y.parts)
             /\ \A k \in DOMAIN y.parts : y.parts[k].column \in ColumnNames(u) \cup {Absent}
             /\ e = "clickhouse" => OnExpression(y)
  <2>1. PICK x \in t.indexes : From(y, x)
    BY <1>7
  <2>2. /\ y.unique = x.unique /\ IsList(y.parts)
        /\ \A k \in DOMAIN y.parts : \E j \in DOMAIN x.parts :
              y.parts[k] = x.parts[j] /\ x.parts[j].column \notin names
    BY <2>1 DEF From
  <2>3. \A j \in DOMAIN x.parts : x.parts[j].column \in ColumnNames(t) \cup {Absent}
    BY DEF Sound, HasIndexes
  <2>4. \A k \in DOMAIN y.parts : y.parts[k].column \in ColumnNames(u) \cup {Absent}
    BY <1>2, <2>2, <2>3
  <2>5. e = "clickhouse" => OnExpression(y)
    <3>1. e = "clickhouse" => x.unique = FALSE /\ \A j \in DOMAIN x.parts : x.parts[j].column = Absent
      BY DEF Sound, OnExpression
    <3>2. QED
      BY <2>2, <3>1 DEF OnExpression
  <2>6. QED
    BY <2>2, <2>4, <2>5
<1>10. QED
  BY <1>3, <1>6, <1>7, <1>8, <1>9 DEF Sound, HasIndexes, b

\* A statement on columns.
LEMMA ColumnSound ==
    ASSUME AllSound, Named, Held, engine' = engine, NEW s, ExecuteColumnStatement(s),
           s.do \in {"add_columns", "modify_columns"} =>
               GoodColumns(StoredColumns(engine, s.columns)) /\ AgreedColumns(StoredColumns(engine, s.columns))
    PROVE  AllSound'
<1> DEFINE t == tables[s.table]
<1>1. /\ s.table \in DOMAIN tables /\ IsTable(t) /\ Sound(engine, t)
      /\ GoodColumns(t.columns) /\ GoodIndexes(t.indexes)
  BY DEF ExecuteColumnStatement, Held, Named, AllSound
<1>2. CASE s.do = "add_columns"
  <2> DEFINE new == StoredColumns(engine, s.columns)
             columns == t.columns \o new
             u == [t EXCEPT !.columns = columns]
  <2>1. Change(s.table, u)
    BY <1>2 DEF ExecuteColumnStatement
  <2>2. u.columns = columns /\ u.indexes = t.indexes
    <3> HIDE DEF columns
    <3>1. QED
      BY <1>1, OtherColumns
  <2> HIDE DEF u
  <2>3. GoodColumns(new) /\ (engine = "clickhouse" => \A i \in DOMAIN new : Agrees(new[i]))
    BY <1>2 DEF AgreedColumns
  <2> HIDE DEF new, t
  <2>4. Sound(engine, u)
    BY <1>1, <2>2, <2>3, ExtendedSound
  <2>5. QED
    BY <1>1, <2>1, <2>4, ChangeSound
<1>3. CASE s.do = "modify_columns"
  <2> DEFINE at(c) == CHOOSE i \in DOMAIN s.columns : s.columns[i].name = c.name
             New(c) == IF c.name \notin NamesOf(s.columns) THEN c
                       ELSE [Stored(engine, s.columns[at(c)]) EXCEPT
                                !.default = IF engine = "clickhouse" THEN c.default ELSE @]
             columns == [i \in DOMAIN t.columns |-> New(t.columns[i])]
             u == [t EXCEPT !.columns = columns]
  <2>1. Change(s.table, u)
    BY <1>3 DEF ExecuteColumnStatement
  <2>2. ASSUME NEW i \in DOMAIN t.columns
        PROVE  columns[i].name = t.columns[i].name /\ (engine = "clickhouse" => Agrees(columns[i]))
    <3> DEFINE c == t.columns[i]
    <3>1. columns[i] = New(c) /\ (engine = "clickhouse" => Agrees(c))
      BY <1>1 DEF Sound
    <3> HIDE DEF c, columns
    <3>2. CASE c.name \in NamesOf(s.columns)
      <4>1. at(c) \in DOMAIN s.columns /\ s.columns[at(c)].name = c.name
        BY <3>2 DEF NamesOf
      <4> DEFINE d == Stored(engine, s.columns[at(c)])
      <4>2. d.name = c.name /\ d = [name |-> d.name, type |-> d.type, dims |-> d.dims, default |-> d.default, null |-> d.null]
        BY <4>1 DEF Stored
      <4>3. engine = "clickhouse" => Agrees(d)
        BY <1>3, <4>1 DEF AgreedColumns, StoredColumns
      <4>4. columns[i] = [d EXCEPT !.default = IF engine = "clickhouse" THEN c.default ELSE @]
        BY <3>1, <3>2
      <4> HIDE DEF d, at
      <4>5. columns[i].name = d.name /\ columns[i].type = d.type /\ columns[i].null = d.null
        BY <4>2, <4>4
      <4>6. QED
        BY <4>2, <4>3, <4>5 DEF Agrees, c
    <3>3. CASE c.name \notin NamesOf(s.columns)
      BY <3>1, <3>3 DEF c
    <3>4. QED
      BY <3>2, <3>3
  <2>3. DOMAIN columns = DOMAIN t.columns
    <3> HIDE DEF New
    <3>1. QED
      OBVIOUS
  <2> HIDE DEF columns
  <2>4. u.columns = columns /\ u.indexes = t.indexes
    BY <1>1, OtherColumns
  <2> HIDE DEF u, t
  <2>5. Sound(engine, u)
    BY <1>1, <2>2, <2>3, <2>4, ModifiedSound
  <2>6. QED
    BY <1>1, <2>1, <2>5, ChangeSound
<1>4. CASE s.do = "drop_columns"
  <2> DEFINE names == ToSet(s.names)
             Shrunk(x) == [x EXCEPT !.parts = Selected(@, {k \in DOMAIN @ : @[k].column \notin names})]
             columns == Selected(t.columns, {k \in DOMAIN t.columns : t.columns[k].name \notin names})
             indexes == {x \in {Shrunk(y) : y \in t.indexes} : x.parts # <<>>}
             u == [t EXCEPT !.columns = columns, !.indexes = indexes]
  <2>1. Change(s.table, u)
    BY <1>4 DEF ExecuteColumnStatement
  <2>2. indexes = IndexesLeft(t, names)
    <3>1. \A y : Shrunk(y) = [y EXCEPT !.parts = PartsLeft(y, names)]
      BY Zenon DEF PartsLeft
    <3> HIDE DEF Shrunk, names, t
    <3>2. {Shrunk(y) : y \in t.indexes} = {[y EXCEPT !.parts = PartsLeft(y, names)] : y \in t.indexes}
      BY <3>1
    <3>3. QED
      BY <3>2, Zenon DEF IndexesLeft
  <2>3. columns = ColumnsLeft(t, names)
    BY Zenon DEF ColumnsLeft
  <2> HIDE DEF columns, indexes, names
  <2>4. u.columns = columns /\ u.indexes = indexes
    BY <1>1, OtherColumns
  <2> HIDE DEF u, t
  <2>5. u.columns = ColumnsLeft(t, names) /\ u.indexes = IndexesLeft(t, names)
    BY <2>2, <2>3, <2>4
  <2>6. Sound(engine, u)
    BY <1>1, <2>5, DroppedSound
  <2>7. QED
    BY <1>1, <2>1, <2>6, ChangeSound DEF t
<1>5. QED
  BY <1>2, <1>3, <1>4 DEF ExecuteColumnStatement

\* A statement on indexes: there is none that makes an index on ClickHouse.
LEMMA IndexSound ==
    ASSUME AllSound, Held, engine' = engine, NEW s, ExecuteIndexStatement(s),
           s.do = "create_index" => engine # "clickhouse" /\ IsList(s.names) /\ s.names # <<>>
    PROVE  AllSound'
<1> DEFINE t == tables[s.table]
<1>1. s.table \in DOMAIN tables /\ IsTable(t) /\ Sound(engine, t)
  BY DEF ExecuteIndexStatement, Held, AllSound
<1>2. CASE s.do = "create_index"
  <2> DEFINE parts == [i \in DOMAIN s.names |-> Column(s.names[i])]
             new == [name |-> s.index, unique |-> s.unique, parts |-> parts]
             u == [t EXCEPT !.indexes = t.indexes \cup {new}]
  <2>1. /\ Change(s.table, u) /\ {x \in t.indexes : x.name = s.index} = {}
        /\ ToSet(s.names) \subseteq ColumnNames(t)
    BY <1>2 DEF ExecuteIndexStatement
  <2>2. u.columns = t.columns /\ u.indexes = t.indexes \cup {new}
    <3> DEFINE indexes == t.indexes \cup {new}
    <3> HIDE DEF indexes, t
    <3>1. [t EXCEPT !.indexes = indexes].columns = t.columns /\ [t EXCEPT !.indexes = indexes].indexes = indexes
      BY <1>1, OtherColumns
    <3>2. QED
      BY <3>1 DEF indexes
  <2> HIDE DEF u
  <2>3. IsList(parts) /\ parts # <<>> /\ \A k \in DOMAIN parts : parts[k].column \in ColumnNames(t)
    <3>1. parts = [i \in DOMAIN s.names |-> parts[i]] /\ DOMAIN parts = DOMAIN s.names
      OBVIOUS
    <3>2. \A k \in DOMAIN s.names : parts[k].column = s.names[k]
      BY DEF Column
    <3> HIDE DEF parts
    <3>3. IsList(parts)
      BY <1>2, <3>1, SameList
    <3>4. s.names \in Seq(Range(s.names)) /\ s.names # <<>>
      BY <1>2 DEF IsList
    <3>5. 1 \in DOMAIN s.names
      BY <3>4
    <3>6. DOMAIN <<>> = {}
      OBVIOUS
    <3>7. \A k \in DOMAIN s.names : s.names[k] \in ColumnNames(t)
      BY <2>1, <3>4 DEF ToSet
    <3>8. QED
      BY <3>1, <3>2, <3>3, <3>5, <3>6, <3>7
  <2> HIDE DEF parts, t
  <2>4. new.name = s.index /\ new.parts = parts
    OBVIOUS
  <2> HIDE DEF new
  <2>5. ColumnNames(u) = ColumnNames(t)
    BY <2>2 DEF ColumnNames
  <2>6. IsFiniteSet(u.indexes)
    BY <1>1, <2>2, FS_AddElement DEF Sound, HasIndexes
  <2>7. Sound(engine, u)
    <3>1. \A x, y \in u.indexes : x.name = y.name => x = y
      BY <1>1, <2>1, <2>2, <2>4 DEF Sound, HasIndexes
    <3>2. \A x \in u.indexes : /\ IsList(x.parts) /\ x.parts # <<>>
                               /\ \A k \in DOMAIN x.parts : x.parts[k].column \in ColumnNames(u) \cup {Absent}
      BY <1>1, <2>2, <2>3, <2>4, <2>5 DEF Sound, HasIndexes
    <3>3. QED
      BY <1>2, <2>6, <3>1, <3>2 DEF Sound, HasIndexes
  <2>8. QED
    BY <1>1, <2>1, <2>7, ChangeSound DEF t
<1>3. CASE s.do = "drop_index"
  <2> DEFINE indexes == t.indexes \ {x \in t.indexes : x.name = s.index}
             u == [t EXCEPT !.indexes = indexes]
  <2>1. Change(s.table, u)
    BY <1>3 DEF ExecuteIndexStatement
  <2>2. u.columns = t.columns /\ u.indexes = indexes
    <3> HIDE DEF indexes
    <3>1. QED
      BY <1>1, OtherColumns
  <2> HIDE DEF u, t
  <2>3. u.indexes \subseteq t.indexes /\ ColumnNames(u) = ColumnNames(t)
    BY <2>2 DEF ColumnNames
  <2>4. IsFiniteSet(u.indexes)
    BY <1>1, <2>3, FS_Subset DEF Sound, HasIndexes
  <2>5. Sound(engine, u)
    BY <1>1, <2>2, <2>3, <2>4 DEF Sound, HasIndexes
  <2>6. QED
    BY <1>1, <2>1, <2>5, ChangeSound DEF t
<1>4. QED
  BY <1>2, <1>3 DEF ExecuteIndexStatement

\* A column that a builder has written.
LEMMA BuiltAgrees ==
    ASSUME NEW spec, Accepted("clickhouse", spec), spec.nullable \in BOOLEAN
    PROVE  Agrees(Stored("clickhouse", ColumnSQL("clickhouse", spec)))
<1> DEFINE c == ColumnSQL("clickhouse", spec)
           S == {"(", ")", "nullable", spec.kind}
           plain == PlainType(spec)
<1>1. isClickHouseNullable(c.type) = spec.nullable
  BY BuiltNullable
<1>2. /\ c.type = IF spec.nullable THEN Wrapped("nullable", plain) ELSE plain
      /\ c.null = FALSE
  BY DEF ColumnSQL
<1>3. Stored("clickhouse", c).type = c.type /\ Stored("clickhouse", c).null = (c.null \/ c.type[1] = "nullable")
  BY DEF Stored, StoredType, GetsWidth
<1> HIDE DEF c
<1>4. "(" \in S /\ ")" \in S /\ "nullable" \in S /\ spec.kind \in S /\ spec.kind # "nullable"
  BY DEF Accepted, clickHouseColumn
<1> HIDE DEF S
<1>5. plain \in Seq(S) /\ plain[1] = spec.kind
  BY <1>4, PlainTypes
<1> HIDE DEF plain
<1> DEFINE w == Wrapped("nullable", plain)
<1>6. w[1] = "nullable"
  BY <1>4, <1>5, Wrapping
<1> HIDE DEF w
<1>7. c.type[1] = "nullable" <=> spec.nullable
  BY <1>2, <1>4, <1>5, <1>6 DEF w
<1>8. Stored("clickhouse", c).null = spec.nullable
  BY <1>2, <1>3, <1>7
<1>9. QED
  BY <1>1, <1>3, <1>8 DEF Agrees, c

\* What a statement brings into a table that is shown.
LEMMA BuiltSound ==
    ASSUME NEW r \in Requests, Refusal(engine, r) = "none", NEW k \in 1 .. Len(Built(engine, r)),
           NEW s, s = Built(engine, r)[k]
    PROVE  /\ s.do \in {"create_table", "add_columns", "modify_columns"} =>
                 AgreedColumns(StoredColumns(engine, s.columns))
           /\ s.do = "create_index" => engine # "clickhouse" /\ IsList(s.names) /\ s.names # <<>>
<1>1. /\ r.tool \in StructuredTools
      /\ r.tool \in {"create_table", "add_columns", "modify_columns"} =>
            \A i \in DOMAIN r.columns : r.columns[i].nullable \in BOOLEAN
      /\ r.tool = "create_index" => IsList(r.names)
  BY CatalogAssumption
<1>2. /\ ~Unsupported(engine, r)
      /\ r.tool \in {"create_table", "add_columns", "modify_columns"} => buildColumns(engine, r.columns)
      /\ r.tool = "create_index" => r.names # <<>>
  BY DEF Refusal, quotedColumns
<1>3. CASE r.tool \in CopyTools
  <2>1. s.do \in {"create_like", "copy_rows"}
    <3>1. Len(Built(engine, r)) \in 1 .. 2
      BY <1>1, Statements
    <3>2. k = 1 \/ k = 2
      BY <3>1
    <3>3. k = 1 => s = [do |-> "create_like", table |-> r.destination, like |-> r.source]
      BY <1>1, <1>3, Statements
    <3>4. k = 2 => s = [do |-> "copy_rows", table |-> r.destination, from |-> r.source]
      <4>1. CASE WithData(r)
        BY <1>1, <1>3, <4>1, Statements
      <4>2. CASE ~WithData(r)
        <5>1. Len(Built(engine, r)) = 1
          BY <1>1, <1>3, <4>2, Statements
        <5>2. QED
          BY <5>1
      <4>3. QED
        BY <4>1, <4>2
    <3>5. QED
      BY <3>2, <3>3, <3>4
  <2>2. QED
    BY <2>1
<1>4. CASE r.tool \notin CopyTools
  <2>1. k = 1 /\ s = Built(engine, r)[1] /\ s.do = r.tool
    <3>1. Len(Built(engine, r)) = 1 /\ Built(engine, r)[1].do = r.tool
      BY <1>1, <1>4, Statements
    <3>2. k = 1
      BY <3>1
    <3>3. QED
      BY <3>1, <3>2
  <2>2. CASE r.tool \in {"create_table", "add_columns", "modify_columns"}
    <3> DEFINE cs == [i \in DOMAIN r.columns |-> ColumnSQL(engine, r.columns[i])]
    <3>1. Built(engine, r)[1] = [do |-> r.tool, table |-> r.table, columns |-> cs]
      BY <2>2 DEF Built
    <3>2. s.columns = cs
      <4> HIDE DEF cs
      <4>1. QED
        BY <2>1, <3>1
    <3>3. StoredColumns(engine, cs) = [i \in DOMAIN r.columns |-> Stored(engine, ColumnSQL(engine, r.columns[i]))]
      BY DEF StoredColumns
    <3>4. \A i \in DOMAIN r.columns : Accepted(engine, r.columns[i]) /\ r.columns[i].nullable \in BOOLEAN
      BY <1>1, <1>2, <2>2 DEF buildColumns
    <3>5. engine = "clickhouse" =>
             \A i \in DOMAIN r.columns : Agrees(Stored(engine, ColumnSQL(engine, r.columns[i])))
      BY <3>4, BuiltAgrees
    <3> HIDE DEF cs
    <3>6. AgreedColumns(StoredColumns(engine, cs))
      BY <3>3, <3>5 DEF AgreedColumns
    <3>7. QED
      BY <2>1, <2>2, <3>2, <3>6
  <2>3. CASE r.tool = "create_index"
    <3>1. Built(engine, r)[1] = [do |-> r.tool, table |-> r.table, index |-> r.index,
                                 names |-> r.names, unique |-> r.unique]
      BY <2>3 DEF Built
    <3>2. s.names = r.names
      BY <2>1, <3>1
    <3>3. engine # "clickhouse"
      BY <1>2, <2>3 DEF Unsupported, IndexTools
    <3>4. QED
      BY <1>1, <1>2, <2>1, <2>3, <3>2, <3>3
  <2>4. CASE r.tool \notin {"create_table", "add_columns", "modify_columns", "create_index"}
    BY <2>1, <2>4
  <2>5. QED
    BY <2>2, <2>3, <2>4
<1>5. QED
  BY <1>3, <1>4

-----------------------------------------------------------------------------
(* What the readers show.                                                  *)

\* A description that is complete.
Shown(d) == Sound(engine, d.seenLast) /\ d.indexes = describedIndexes(engine, d.seenLast)

StoredInv ==
    /\ AllSound
    /\ \A r \in Readers : HasRead(r) => Sound(engine, reading[r].seen)
    /\ \A r \in Readers : reading[r].step = "described" => Shown(reading[r])

\* It holds at first: the types of what is there are understood,
LEMMA InitStored == Init => StoredInv
<1> SUFFICES ASSUME Init PROVE StoredInv
  OBVIOUS
<1>1. PICK d \in Databases : engine = d.engine /\ tables = d.tables
  BY DEF Init
<1>2. ASSUME NEW name \in DOMAIN tables PROVE Sound(engine, tables[name])
  <2> DEFINE t == tables[name]
  <2>1. HasIndexes(t) /\ (engine = "clickhouse" => IsClickHouseTable(t))
    BY <1>1, CatalogAssumption
  <2> HIDE DEF t
  <2>2. IsClickHouseTable(t) => \A i \in DOMAIN t.columns : Agrees(t.columns[i])
    BY TypesUnderstood DEF IsClickHouseTable, Agrees
  <2>3. IsClickHouseTable(t) => \A x \in t.indexes : OnExpression(x)
    BY DEF IsClickHouseTable, OnExpression
  <2>4. Sound(engine, t)
    BY <2>1, <2>2, <2>3 DEF Sound
  <2>5. QED
    BY <2>4 DEF t
<1>3. \A r \in Readers : reading[r].step = "none"
  BY DEF Init, Unread
<1>4. QED
  BY <1>2, <1>3 DEF StoredInv, AllSound, HasRead

\* A reader takes a step.
LEMMA ReaderStored ==
    ASSUME StoredInv, SeenInv, UNCHANGED <<engine, tables>>, NEW r \in Readers, NEW got,
           reading' = [reading EXCEPT ![r] = got],
           got.step \in {"columns", "described"} => Sound(engine, got.seen),
           got.step = "described" => Shown(got)
    PROVE  StoredInv'
<1>1. /\ reading'[r] = got
      /\ \A q \in Readers \ {r} : reading'[q] = reading[q]
  BY DEF SeenInv
<1>2. AllSound'
  BY DEF StoredInv, AllSound
<1>3. \A d : Shown(d)' <=> Shown(d)
  BY DEF Shown
<1>4. ASSUME NEW q \in Readers, HasRead(q)' PROVE Sound(engine, reading'[q].seen)
  <2>1. CASE q = r
    BY <1>1, <1>4, <2>1 DEF HasRead
  <2>2. CASE q # r
    BY <1>1, <1>4, <2>2 DEF HasRead, StoredInv
  <2>3. QED
    BY <2>1, <2>2
<1>5. ASSUME NEW q \in Readers, reading'[q].step = "described" PROVE Shown(reading'[q])
  <2>1. CASE q = r
    BY <1>1, <1>5, <2>1
  <2>2. CASE q # r
    BY <1>1, <1>5, <2>2 DEF StoredInv
  <2>3. QED
    BY <2>1, <2>2
<1>6. QED
  BY <1>2, <1>3, <1>4, <1>5 DEF StoredInv, Shown

\* is kept by every step,
LEMMA NextStored == IInv /\ NamesInv /\ SeenInv /\ StoredInv /\ [Next]_vars => StoredInv'
<1> SUFFICES ASSUME IInv, NamesInv, SeenInv, StoredInv, [Next]_vars PROVE StoredInv'
  OBVIOUS
<1>1. ASSUME UNCHANGED <<engine, tables, reading>> PROVE StoredInv'
  BY <1>1 DEF StoredInv, AllSound, HasRead, Shown
<1>2. ASSUME NEW c \in Calls, NEW r \in Requests, Deny(c, r) \/ Start(c, r) PROVE StoredInv'
  BY <1>1, <1>2 DEF Deny, Start
<1>3. ASSUME NEW c \in Calls, Run(c) PROVE StoredInv'
  <2>1. UNCHANGED <<engine, reading>>
    BY <1>3 DEF Run, toolVars
  <2> DEFINE r == request[c]
  <2>2. PICK k \in 0 .. 1 :
           k + 1 \in 1 .. Len(Built(engine, r)) /\ Execute(Built(engine, r)[k + 1])
    BY <1>3, RunMoves
  <2>3. r \in Requests /\ Refusal(engine, r) = "none"
    BY <1>3 DEF Run, Publish, PublishLate, IInv, Progressed, NamesInv, Judged, Failures
  <2> DEFINE s == Built(engine, r)[k + 1]
  <2> HIDE DEF r
  <2>4. s.do \in {"create_table", "add_columns", "modify_columns"} => GoodColumns(StoredColumns(engine, s.columns))
    BY <2>2, <2>3, BuiltNames
  <2>5. /\ s.do \in {"create_table", "add_columns", "modify_columns"} => AgreedColumns(StoredColumns(engine, s.columns))
        /\ s.do = "create_index" => engine # "clickhouse" /\ IsList(s.names) /\ s.names # <<>>
    BY <2>2, <2>3, BuiltSound
  <2>6. Execute(s)
    BY <2>2
  <2>7. AllSound /\ Named /\ Held
    BY DEF StoredInv, NamesInv, IInv
  <2> HIDE DEF s
  <2>8. AllSound'
    BY <2>1, <2>4, <2>5, <2>6, <2>7, TableSound, ColumnSound, IndexSound DEF Execute
  <2>9. QED
    BY <2>1, <2>8 DEF StoredInv, HasRead, Shown
<1>4. ASSUME NEW c \in Calls, End(c) PROVE StoredInv'
  BY <1>1, <1>4 DEF End, toolVars
<1>5. \A name : Sound(engine, Table(name))
  BY NoTableSound DEF StoredInv, AllSound, Table
<1>6. ASSUME NEW r \in Readers, NEW name \in TableNames, ReadColumns(r, name) PROVE StoredInv'
  <2> DEFINE got == IF name \in Identifiers
                    THEN [step |-> "columns", table |-> name, seen |-> Table(name),
                          columns |-> describedColumns(engine, Table(name))]
                    ELSE [step |-> "failed"]
  <2>1. reading' = [reading EXCEPT ![r] = got] /\ UNCHANGED <<engine, tables>>
    BY <1>6 DEF ReadColumns, toolVars
  <2>2. /\ got.step \in {"columns", "described"} => got.seen = Table(name)
        /\ got.step # "described"
    OBVIOUS
  <2> HIDE DEF got
  <2>3. QED
    BY <1>5, <2>1, <2>2, ReaderStored
<1>7. ASSUME NEW r \in Readers, ReadIndexes(r) PROVE StoredInv'
  <2> DEFINE d == reading[r]
             got == [step |-> "described", table |-> d.table, seen |-> d.seen, columns |-> d.columns,
                     seenLast |-> Table(d.table), indexes |-> describedIndexes(engine, Table(d.table))]
  <2>1. /\ reading' = [reading EXCEPT ![r] = got] /\ UNCHANGED <<engine, tables>>
        /\ HasRead(r)
    BY <1>7 DEF ReadIndexes, HasRead, toolVars
  <2>2. /\ got.seen = d.seen /\ got.seenLast = Table(d.table)
        /\ got.indexes = describedIndexes(engine, Table(d.table))
    OBVIOUS
  <2>3. Sound(engine, d.seen)
    BY <2>1 DEF StoredInv
  <2> HIDE DEF got
  <2>4. Shown(got)
    BY <1>5, <2>2 DEF Shown
  <2>5. QED
    BY <2>1, <2>2, <2>3, <2>4, ReaderStored
<1>8. ASSUME NEW r \in Readers, ReadFails(r) PROVE StoredInv'
  <2> DEFINE got == [step |-> "failed"]
  <2>1. reading' = [reading EXCEPT ![r] = got] /\ UNCHANGED <<engine, tables>>
    BY <1>8 DEF ReadFails, toolVars
  <2>2. got.step \notin {"columns", "described"}
    OBVIOUS
  <2> HIDE DEF got
  <2>3. QED
    BY <2>1, <2>2, ReaderStored
<1>9. CASE UNCHANGED vars
  BY <1>1, <1>9 DEF vars, toolVars
<1>10. QED
  BY <1>2, <1>3, <1>4, <1>6, <1>7, <1>8, <1>9 DEF Next

\* and so always holds.
LEMMA InductiveStored == Spec => []StoredInv
BY InitStored, NextStored, Inductive, InductiveNamed, InductiveRead, PTL DEF Spec

\* What is shown of the columns: each with its name, and with its nullability unless
\* its type quotes a parenthesis.
LEMMA ColumnsShown ==
    ASSUME NEW e, NEW t, Sound(e, t), ~QuotedParenthesis(t), NEW shown, shown = describedColumns(e, t)
    PROVE  /\ DOMAIN shown = DOMAIN t.columns
           /\ \A i \in DOMAIN t.columns : /\ shown[i].name = t.columns[i].name
                                          /\ shown[i].nullable = t.columns[i].null
<1>1. CASE e = "clickhouse"
  <2>1. shown = [i \in DOMAIN t.columns |-> Described(t.columns[i], isClickHouseNullable(t.columns[i].type))]
    BY <1>1 DEF describedColumns, clickHouseColumns
  <2>2. \A i \in DOMAIN t.columns : isClickHouseNullable(t.columns[i].type) = t.columns[i].null
    BY <1>1 DEF Sound, Agrees, QuotedParenthesis
  <2>3. QED
    BY <2>1, <2>2 DEF Described
<1>2. CASE e # "clickhouse"
  <2>1. shown = [i \in DOMAIN t.columns |-> Described(t.columns[i], t.columns[i].null)]
    BY <1>2 DEF describedColumns, mysqlColumns
  <2>2. QED
    BY <2>1 DEF Described
<1>3. QED
  BY <1>1, <1>2

\* The columns of an index are columns of its table.
LEMMA ColumnsHeld ==
    ASSUME NEW t, HasIndexes(t), NEW x \in t.indexes
    PROVE  ToSet(ColumnsOf(x)) \subseteq ColumnNames(t)
<1> DEFINE s == [j \in DOMAIN x.parts |-> x.parts[j].column]
           I == {j \in DOMAIN x.parts : x.parts[j].column # Absent}
           q == Selected(s, I)
<1>1. IsList(s)
  <2>1. s = [j \in DOMAIN x.parts |-> s[j]]
    OBVIOUS
  <2> HIDE DEF s
  <2>2. IsList(x.parts)
    BY DEF HasIndexes
  <2>3. QED
    BY <2>1, <2>2, SameList
<1>2. \A j \in DOMAIN s : j \in I => s[j] \in ColumnNames(t)
  BY DEF HasIndexes
<1> HIDE DEF s, I
<1>3. s \in Seq(Range(s))
  BY <1>1 DEF IsList
<1>4. q \in Seq(Range(s)) /\ \A k \in DOMAIN q : \E j \in DOMAIN s : j \in I /\ q[k] = s[j]
  BY <1>3, SelectedElements
<1> HIDE DEF q
<1>5. \A k \in DOMAIN q : q[k] \in ColumnNames(t)
  BY <1>2, <1>4
<1>6. ToSet(q) \subseteq ColumnNames(t)
  BY <1>4, <1>5 DEF ToSet
<1>7. QED
  BY <1>6 DEF q, s, I, ColumnsOf

\* A description is exact for the two moments it was read at, whatever structured
\* operations did to the table: every index appears once, with its columns in order, and
\* the text of a ClickHouse type tells whether its column may be null.
THEOREM DescriptionsExact == Spec => []DescribedAsStored
<1>1. ASSUME SeenInv, StoredInv PROVE DescribedAsStored
  <2> SUFFICES ASSUME NEW r \in Readers, reading[r].step = "described", ~QuotedParenthesis(reading[r].seen)
               PROVE  LET d == reading[r]
                          columnNames == {d.columns[i].name : i \in DOMAIN d.columns} IN
                      /\ \A i \in DOMAIN d.columns : d.columns[i].nullable = d.seen.columns[i].null
                      /\ IsInjective([k \in DOMAIN d.indexes |-> d.indexes[k].name])
                      /\ \A index \in d.seenLast.indexes : \E k \in DOMAIN d.indexes :
                            /\ d.indexes[k].name = index.name
                            /\ d.indexes[k].columns =
                                  Selected([j \in DOMAIN index.parts |-> index.parts[j].column],
                                           {j \in DOMAIN index.parts : index.parts[j].column # Absent})
                            /\ d.indexes[k].unique = index.unique
                      /\ \/ d.seen # d.seenLast
                         \/ \A k \in DOMAIN d.indexes : ToSet(d.indexes[k].columns) \subseteq columnNames
    BY DEF DescribedAsStored
  <2> DEFINE d == reading[r]
             columnNames == {d.columns[i].name : i \in DOMAIN d.columns}
  <2>1. HasRead(r)
    BY DEF HasRead
  <2>2. /\ Sound(engine, d.seen) /\ d.columns = describedColumns(engine, d.seen)
        /\ Sound(engine, d.seenLast) /\ d.indexes = describedIndexes(engine, d.seenLast)
    BY <1>1, <2>1 DEF SeenInv, StoredInv, Shown
  <2> HIDE DEF d
  <2>3. /\ DOMAIN d.columns = DOMAIN d.seen.columns
        /\ \A i \in DOMAIN d.seen.columns : /\ d.columns[i].name = d.seen.columns[i].name
                                            /\ d.columns[i].nullable = d.seen.columns[i].null
    BY <2>2, ColumnsShown DEF d
  <2>4. Mirrors(d.indexes, d.seenLast.indexes)
    <3>1. CASE engine = "clickhouse"
      <4>1. d.indexes = clickHouseIndexes(d.seenLast)
        BY <2>2, <3>1 DEF describedIndexes
      <4>2. QED
        BY <2>2, <3>1, <4>1, ClickHouseMirrors DEF Sound
    <3>2. CASE engine # "clickhouse"
      <4>1. d.indexes = mysqlIndexes(d.seenLast)
        BY <2>2, <3>2 DEF describedIndexes
      <4>2. QED
        BY <2>2, <4>1, MySQLMirrors DEF Sound
    <3>3. QED
      BY <3>1, <3>2
  <2>5. columnNames = ColumnNames(d.seen)
    BY <2>3 DEF ColumnNames
  <2>6. d.seen # d.seenLast \/ \A k \in DOMAIN d.indexes : ToSet(d.indexes[k].columns) \subseteq columnNames
    <3> SUFFICES ASSUME d.seen = d.seenLast, NEW k \in DOMAIN d.indexes
                 PROVE  ToSet(d.indexes[k].columns) \subseteq ColumnNames(d.seen)
      BY <2>5
    <3>1. PICK x \in d.seen.indexes : d.indexes[k].columns = ColumnsOf(x)
      BY <2>4 DEF Mirrors
    <3>2. HasIndexes(d.seen)
      BY <2>2 DEF Sound
    <3>3. QED
      BY <3>1, <3>2, ColumnsHeld
  <2>7. IsInjective([k \in DOMAIN d.indexes |-> d.indexes[k].name])
    BY <2>4 DEF Mirrors, IsInjective
  <2>8. \A index \in d.seenLast.indexes : \E k \in DOMAIN d.indexes :
           /\ d.indexes[k].name = index.name
           /\ d.indexes[k].columns = Selected([j \in DOMAIN index.parts |-> index.parts[j].column],
                                              {j \in DOMAIN index.parts : index.parts[j].column # Absent})
           /\ d.indexes[k].unique = index.unique
    BY <2>4, Zenon DEF Mirrors, ColumnsOf
  <2>9. QED
    BY <2>3, <2>6, <2>7, <2>8 DEF d
<1>2. QED
  BY <1>1, InductiveRead, InductiveStored, PTL
==============================================================================
