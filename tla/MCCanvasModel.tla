--------------------------- MODULE MCCanvasModel ---------------------------
(***************************************************************************)
(* An instance of CanvasModel for TLC: names that differ in case only, a   *)
(* node without fields, a table whose name is another's but for case.      *)
(***************************************************************************)
EXTENDS CanvasModel

MCWords == {"a", "A", "b", "c", "e", "E", "f"}
MCFold == [w \in MCWords |-> CASE w = "A" -> "a" [] w = "E" -> "e" [] OTHER -> w]

Table(id, table, fields, selected) ==
    [id |-> id, table |-> table, alias |-> "", fields |-> fields, selected |-> selected]

MCNewNodes ==
    {Table("a", "a", {"x", "y"}, {}), Table("A", "c", {"x"}, {}), Table("b", "b", {"x"}, {"y"}),
     Table("c", "A", {}, {}), Table("c", "c", {}, {"x"}), Table("b", "", {}, {})}

JoinOn(id, from, to, column, type) ==
    [id |-> id, from |-> from, to |-> to, fromColumn |-> column, toColumn |-> column,
     joinType |-> type]

MCNewEdges ==
    {JoinOn(id, from, to, column, "LEFT") :
        id \in {"e", "f"}, from, to \in {"a", "b", "c"}, column \in {"x", "y"}}
    \cup {JoinOn("E", "a", "b", "x", "LEFT"), JoinOn("e", "a", "b", "x", "CROSS")}

\* Single tables, some without a list of edges; two tables under ids that differ in
\* case; edges whose ids differ in case, and edges without ids.
MCPastes ==
    {[nodes |-> <<n>>, edges |-> << >>, listed |-> n.fields = {"x"}] : n \in MCNewNodes}
    \cup {[nodes |-> <<Table("a", "a", {"x", "y"}, {}), Table("A", "b", {"x"}, {})>>,
           edges |-> <<JoinOn("e", "a", "A", "x", "LEFT"), JoinOn("E", "a", "A", "x", "LEFT")>>,
           listed |-> TRUE],
          [nodes |-> <<Table("a", "a", {"x", "y"}, {"x"}), Table("b", "b", {"x"}, {})>>,
           edges |-> <<JoinOn("", "b", "a", "x", "LEFT"), JoinOn("", "a", "b", "x", "LEFT")>>,
           listed |-> TRUE]}

=============================================================================
