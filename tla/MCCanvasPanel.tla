--------------------------- MODULE MCCanvasPanel ---------------------------
(***************************************************************************)
(* An instance of CanvasPanel for TLC: canvases that share node and edge   *)
(* ids, or differ in the ids' case.                                        *)
(***************************************************************************)
EXTENDS CanvasPanel

MCWords == {"a", "b", "c", "edge-1", "Edge-1", "edge-2", "edge-3"}
MCFold == [w \in MCWords |-> IF w = "Edge-1" THEN "edge-1" ELSE w]

Table(id, fields, selected) ==
    [id |-> id, table |-> id, alias |-> "", fields |-> fields, selected |-> selected]

Join(id, from, to, column) ==
    [id |-> id, from |-> from, to |-> to, fromColumn |-> column, toColumn |-> column,
     joinType |-> "INNER"]

a == Table("a", {"x", "y"}, {})
b == Table("b", {"x"}, {"x"})
c == Table("c", {}, {})

Canvas(nodes, edges) == [nodes |-> nodes, edges |-> edges, listed |-> TRUE]

MCPastes ==
    {Canvas(<<a, b>>, << >>),
     Canvas(<<a, b, c>>, <<Join("edge-2", "a", "b", "x")>>),
     Canvas(<<b, c>>, <<Join("", "b", "c", "x")>>),
     Canvas(<<b, a>>, <<Join("Edge-1", "a", "b", "x")>>),
     Canvas(<<a, c>>, <<Join("edge-1", "a", "c", "y"), Join("edge-2", "c", "a", "y")>>)}

MCLineIds == <<"edge-1", "edge-2", "edge-3">>

=============================================================================
