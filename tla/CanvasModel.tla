---------------------------- MODULE CanvasModel ----------------------------
(***************************************************************************)
(* The canvas itself: what NormalizeCanvasSpec accepts and makes of it,    *)
(* the edits of the draft (internal/query/canvas_model.go), and whether a  *)
(* canvas can be turned into SQL (canvas_sql_bridge.go, query.go).         *)
(*                                                                         *)
(* A canvas is a sequence of nodes, the first of which is the FROM table,  *)
(* and a sequence of edges, the joins in their order.  Names are compared  *)
(* exactly in some places and without regard to case in others: Fold gives *)
(* a name in lower case.  Columns are compared without regard to case      *)
(* everywhere and stand for their lower case here; none is called "*".     *)
(* Positions, labels and field aliases are left out: nothing is decided    *)
(* from them.  In the text an empty list of edges and none at all (null)   *)
(* differ, and so would a draft from the saved spec: `listed' tells them   *)
(* apart.  A node's own lists need no such mark: when empty they have but  *)
(* one form in a text, since MarshalCanvasSpec normalizes what has been    *)
(* normalized before.                                                      *)
(***************************************************************************)
EXTENDS Naturals, Sequences, FiniteSets

CONSTANTS
    Words,          \* names and ids, as written
    Fold,           \* Fold[w]: w in lower case
    Blank,          \* the empty string
    Columns,
    JoinTypes,
    KnownJoinTypes, \* those ParseJoinType accepts
    Pastes,         \* canvases that may be opened, or set as the draft
    NewNodes,       \* nodes that may be added
    NewEdges,       \* edges that may be added or patched in
    MaxNodes,       \* bound
    MaxEdges        \* bound

Node == [id : Words, table : Words \cup {Blank}, alias : Words \cup {Blank},
         fields : SUBSET Columns, selected : SUBSET Columns]
Edge == [id : Words \cup {Blank}, from : Words, to : Words,
         fromColumn : Columns, toColumn : Columns, joinType : JoinTypes]
Canvas == [nodes : Seq(Node), edges : Seq(Edge), listed : BOOLEAN]

ASSUME CanvasAssumption ==
    /\ Fold \in [Words -> Words]
    /\ Blank \notin Words
    /\ KnownJoinTypes \subseteq JoinTypes
    /\ Pastes \subseteq Canvas
    /\ NewNodes \subseteq Node
    /\ NewEdges \subseteq Edge
    /\ MaxNodes \in Nat
    /\ MaxEdges \in Nat

\* Edges that are there are in a list.
ASSUME ListedAssumption == \A c \in Pastes : c.edges # << >> => c.listed

VARIABLE canvas     \* the draft, parsed

(***************************************************************************)
(* NormalizeCanvasSpec                                                     *)
(***************************************************************************)
Alias(n) == IF n.alias = Blank THEN n.table ELSE n.alias

\* A node without fields may be joined on any column.
HasField(n, column) == n.fields = {} \/ column \in n.fields

\* Mutant: aliases are compared as written.
NodesDifferExactly(m, n) == m.id # n.id /\ Alias(m) # Alias(n)

NodesDiffer(m, n) == m.id # n.id /\ Fold[Alias(m)] # Fold[Alias(n)]

Joins(e, m, n) ==
    /\ e.from = m.id
    /\ e.to = n.id
    /\ HasField(m, e.fromColumn)
    /\ HasField(n, e.toColumn)

Acceptable(c) ==
    /\ c.nodes # << >>
    /\ \A i \in DOMAIN c.nodes : c.nodes[i].table # Blank
    /\ \A i, j \in DOMAIN c.nodes : i # j => NodesDiffer(c.nodes[i], c.nodes[j])
    /\ \A i, j \in DOMAIN c.edges :
           i # j => c.edges[i].id = Blank \/ c.edges[i].id # c.edges[j].id
    /\ \A k \in DOMAIN c.edges :
           /\ c.edges[k].joinType \in KnownJoinTypes
           /\ \E i, j \in DOMAIN c.nodes : Joins(c.edges[k], c.nodes[i], c.nodes[j])

\* Mutant: a blank alias stays blank.
NormalNodeUnnamed(n) == [n EXCEPT !.selected = n.selected \cap n.fields]

NormalNode(n) == [n EXCEPT !.alias = Alias(n), !.selected = n.selected \cap n.fields]

Normalize(c) == [c EXCEPT !.nodes = [i \in DOMAIN c.nodes |-> NormalNode(c.nodes[i])]]

TypeOK ==
    /\ canvas \in Canvas
    /\ \A i \in DOMAIN canvas.nodes : canvas.nodes[i].alias # Blank

(***************************************************************************)
(* The edits.  Each ends by normalizing what it has made; if that fails it *)
(* returns an error and the draft stays.                                   *)
(***************************************************************************)
Become(c) == Acceptable(c) /\ canvas' = Normalize(c)

Init == \E c \in Pastes : Acceptable(c) /\ canvas = Normalize(c)

\* SetActiveCanvas, SetCanvasDraft: another canvas altogether.
Paste(c) == Become(c)

\* Positions and sizes are left out, so moving a node only looks it up.
MoveNode(id) ==
    /\ \E i \in DOMAIN canvas.nodes : canvas.nodes[i].id = id
    /\ Become(canvas)

SelectFields(id, columns) ==
    \E i \in DOMAIN canvas.nodes :
        /\ canvas.nodes[i].id = id
        /\ Become([canvas EXCEPT !.nodes[i].selected = columns])

AddNode(n) ==
    /\ Len(canvas.nodes) < MaxNodes
    /\ \A i \in DOMAIN canvas.nodes : Fold[canvas.nodes[i].id] # Fold[n.id]
    /\ Become([canvas EXCEPT !.nodes = Append(canvas.nodes, n)])

\* Mutant: ids are compared as written.
IsNewEdgeExactly(c, e) ==
    /\ e.id # Blank
    /\ \A i \in DOMAIN c.edges : c.edges[i].id # e.id

\* Edges may have no id; such an edge is never taken for another.
IsNewEdge(c, e) ==
    /\ e.id # Blank
    /\ \A i \in DOMAIN c.edges :
           c.edges[i].id # Blank => Fold[c.edges[i].id] # Fold[e.id]

WithEdge(c, e) == [c EXCEPT !.edges = Append(c.edges, e), !.listed = TRUE]

AddEdge(e) ==
    /\ Len(canvas.edges) < MaxEdges
    /\ IsNewEdge(canvas, e)
    /\ Become(WithEdge(canvas, e))

\* Mutant: the patched canvas is not normalized again.
PatchEdgeUnchecked(e) ==
    \E i \in DOMAIN canvas.edges :
        /\ canvas.edges[i].id = e.id
        /\ e.id # Blank
        /\ canvas' = [canvas EXCEPT !.edges[i] = e]

PatchEdge(e) ==
    \E i \in DOMAIN canvas.edges :
        /\ canvas.edges[i].id = e.id
        /\ e.id # Blank
        /\ Become([canvas EXCEPT !.edges[i] = e])

\* The positions of the edges that a deletion by this id leaves.
Kept(c, id) ==
    {i \in DOMAIN c.edges : c.edges[i].id = Blank \/ Fold[c.edges[i].id] # Fold[id]}

\* The numbers of K in increasing order: a set of one sequence.
Increasing(K) ==
    {h \in [1 .. Cardinality(K) -> K] : \A i, j \in 1 .. Cardinality(K) : i < j => h[i] < h[j]}

\* What is kept is put into a new list, be it empty.
Deletions(c, id) ==
    {[c EXCEPT !.edges = [i \in 1 .. Cardinality(Kept(c, id)) |-> c.edges[h[i]]],
               !.listed = TRUE] :
        h \in Increasing(Kept(c, id))}

\* Every edge whose id is this one but for case goes.
DeleteEdge(id) ==
    /\ Kept(canvas, id) # DOMAIN canvas.edges
    /\ \E c \in Deletions(canvas, id) : Become(c)

Next ==
    \/ \E c \in Pastes : Paste(c)
    \/ \E id \in Words : MoveNode(id)
    \/ \E id \in Words, columns \in SUBSET Columns : SelectFields(id, columns)
    \/ \E n \in NewNodes : AddNode(n)
    \/ \E e \in NewEdges : AddEdge(e) \/ PatchEdge(e)
    \/ \E id \in Words : DeleteEdge(id)

Spec == Init /\ [][Next]_canvas

(***************************************************************************)
(* SQL: QueryGraphFromCanvas and NormalizeGraph                            *)
(***************************************************************************)
NodeOf(c, id) == CHOOSE i \in DOMAIN c.nodes : c.nodes[i].id = id

AliasOf(c, id) == Alias(c.nodes[NodeOf(c, id)])

\* The query graph: the alias of the FROM table (0) and of each joined table.
Source(c, k) == IF k = 0 THEN Alias(c.nodes[1]) ELSE AliasOf(c, c.edges[k].to)

\* The aliases in scope before the join at place k.
Declared(c, k) == {Source(c, j) : j \in 0 .. k - 1}

\* Mutant: a table may be joined again.
JoinsInTurnTwice(c) ==
    \A k \in DOMAIN c.edges : AliasOf(c, c.edges[k].from) \in Declared(c, k)

JoinsInTurn(c) ==
    \A k \in DOMAIN c.edges :
        /\ AliasOf(c, c.edges[k].from) \in Declared(c, k)
        /\ AliasOf(c, c.edges[k].to) \notin Declared(c, k)

\* Mutant: nothing is shown of a node in which nothing is selected.
ShownSelected(n) == n.selected

\* The columns of a node in the SELECT list; of a canvas that shows none, "*".
Shown(n) == IF n.selected = {} THEN n.fields ELSE n.selected

Compiles(c) ==
    /\ JoinsInTurn(c)
    /\ \A i \in DOMAIN c.nodes :
           Shown(c.nodes[i]) # {} => Alias(c.nodes[i]) \in Declared(c, Len(c.edges) + 1)

(***************************************************************************)
(* Properties                                                              *)
(***************************************************************************)
\* The draft text, compared with the saved one to tell whether work is unsaved,
\* is canonical after every edit: parsing and writing it again changes nothing.
StaysNormal == Acceptable(canvas) /\ Normalize(canvas) = canvas

\* The database does not distinguish names by case, NormalizeGraph does.  Still no
\* two tables of a canvas's SQL have names that are one to the database.
TablesAreToldApart ==
    Compiles(canvas) =>
        \A j, k \in 0 .. Len(canvas.edges) :
            j # k => Fold[Source(canvas, j)] # Fold[Source(canvas, k)]

\* Deleting an edge that was just added gives back the canvas as it was, although
\* the two compare ids differently from the normalization between them.  Only the
\* text of a canvas without a list of edges does not come back: it has an empty list
\* afterwards, and the draft counts as changed.
DeletingUndoesAdding ==
    \A e \in NewEdges :
        IsNewEdge(canvas, e) /\ Acceptable(WithEdge(canvas, e)) =>
            LET afterwards == Deletions(Normalize(WithEdge(canvas, e)), e.id)
            IN  /\ canvas.listed => afterwards = {canvas}
                /\ ~ canvas.listed => afterwards = {[canvas EXCEPT !.listed = TRUE]}

\* Nodes reached from the first along the edges.
Reached(c) ==
    LET ids == {c.nodes[i].id : i \in DOMAIN c.nodes}
        closed == {S \in SUBSET ids :
                      /\ c.nodes[1].id \in S
                      /\ \A k \in DOMAIN c.edges : c.edges[k].from \in S => c.edges[k].to \in S}
    IN  {id \in ids : \A S \in closed : id \in S}

\* The edges are a tree that hangs from the first node, and whatever the canvas
\* shows hangs on it.
IsTree(c) ==
    /\ \A k \in DOMAIN c.edges :
           /\ c.edges[k].from \in Reached(c)
           /\ c.edges[k].to # c.nodes[1].id
           /\ \A j \in DOMAIN c.edges : j # k => c.edges[j].to # c.edges[k].to
    /\ \A i \in DOMAIN c.nodes : Shown(c.nodes[i]) # {} => c.nodes[i].id \in Reached(c)

CompilesInSomeOrder(c) ==
    LET places == DOMAIN c.edges
    IN  \E p \in {q \in [places -> places] : \A i, j \in places : q[i] = q[j] => i = j} :
            Compiles([c EXCEPT !.edges = [i \in places |-> c.edges[p[i]]]])

\* What the user has to draw to get SQL, whatever the names: a tree from the first
\* node.  Every tree will do, in some order of its joins, and nothing else.
TreesCompile == CompilesInSomeOrder(canvas) <=> IsTree(canvas)

\* Selecting fields, or moving a join to other columns, never makes a canvas that
\* has SQL lose it.
SelectionNeverBreaks ==
    [][ /\ Compiles(canvas)
        /\ DOMAIN canvas'.nodes = DOMAIN canvas.nodes
        /\ \A i \in DOMAIN canvas.nodes :
               [canvas'.nodes[i] EXCEPT !.selected = {}] = [canvas.nodes[i] EXCEPT !.selected = {}]
        /\ DOMAIN canvas'.edges = DOMAIN canvas.edges
        /\ \A k \in DOMAIN canvas.edges :
               canvas'.edges[k].from = canvas.edges[k].from /\ canvas'.edges[k].to = canvas.edges[k].to
        => Compiles(canvas') ]_canvas

=============================================================================
