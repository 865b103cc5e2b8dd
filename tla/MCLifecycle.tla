-------------------------------- MODULE MCLifecycle --------------------------------
(***************************************************************************)
(* Configuration files at and beyond each limit, for TLC.                  *)
(***************************************************************************)
EXTENDS Lifecycle

MCInks == {"", "a", "b", "c", "d", "long", "bytes"}
MCRunes == [ink \in MCInks |-> CASE ink = "" -> 0 [] ink = "c" -> 1 [] ink = "long" -> 3 [] OTHER -> 2]
MCValidUTF8 == MCInks \ {"bytes"}
MCMaxRunes == [display_name |-> 2, description |-> 3, item |-> 2]
MCMaxItems == [aliases |-> 2, keywords |-> 3]
MCEnvironments == {[X |-> "x", Y |-> "y"], [X |-> "x"], [X |-> "x", Y |-> ""]}

Text(ink) == [ink |-> ink, pad |-> FALSE]
Padded(ink) == [ink |-> ink, pad |-> TRUE]

\* Up to four items, with one repeated by itself or padded, empty or too long.
Items ==
    {<<>>, <<Text("b"), Padded("a")>>, <<Padded("a"), Text("b"), Text("a")>>,
     <<Text("a"), Text("b"), Padded("")>>, <<Text("a"), Text("b"), Padded("c")>>,
     <<Text("a"), Text("b"), Padded("c"), Text("d")>>}
    \cup {<<Text("a"), t>> : t \in {Text("a"), Padded("a"), Text(""), Text("long"), Text("bytes")}}

Good ==
    [name |-> 1, display_name |-> Padded("a"), description |-> Text("long"),
     aliases |-> <<>>, keywords |-> <<Padded("c")>>, type |-> "mysql", dsn |-> "X"]

OneSource ==
    {[Good EXCEPT !.display_name = t, !.description = u] : t, u \in Texts}
    \cup {[Good EXCEPT !.aliases = x, !.keywords = y] : x, y \in Items}
    \cup {[Good EXCEPT !.name = n, !.type = y, !.dsn = d] :
            n \in 0 .. 1, y \in {"mysql", "clickhouse", "oracle"}, d \in {"X", "Y", NoReference}}

\* Two sources one after the other, right by themselves.
TwoSources ==
    {<<[Good EXCEPT !.name = n], [Good EXCEPT !.name = o, !.aliases = <<Text("a")>>, !.dsn = d]>> :
        n, o \in 1 .. 2, d \in {"X", "Y", NoReference}}

Five == [s \in 1 .. 5 |-> [Good EXCEPT !.name = 6 - s]]

MCFiles ==
    [form : {"one_document"}, mode : {""}, sources : {<<s>> : s \in OneSource} \cup TwoSources \cup {Five}]
    \cup [form : {"one_document", "two_documents", "malformed"},
          mode : {"quick", "strict", "lax"}, sources : {<<>>, <<Good>>}]
=============================================================================
