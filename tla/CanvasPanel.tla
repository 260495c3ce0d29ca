---------------------------- MODULE CanvasPanel ----------------------------
(***************************************************************************)
(* The canvas in the window (internal/ui/gtk/shell_window_gtk3.go).        *)
(*                                                                         *)
(* The shell keeps the draft; the window keeps a projection of it, which   *)
(* node or edge is selected, the node a line is being drawn from, and the  *)
(* contents of two small editors.  A gesture is judged by what the window  *)
(* shows and carried out on the draft.                                     *)
(*                                                                         *)
(* Positions are left out: which node or edge is under the pointer is a    *)
(* choice, and dragging a node is a dispatch that changes nothing else.    *)
(* The window has no gesture that adds a node or deletes an edge.          *)
(***************************************************************************)
EXTENDS Naturals, Sequences, FiniteSets

CONSTANTS
    Words, Fold, Blank, Columns, JoinTypes, KnownJoinTypes, Pastes,
    NewNodes, NewEdges, MaxNodes, MaxEdges,     \* as in CanvasModel
    Inner,      \* the join type of a drawn line
    LineIds,    \* edge-1, edge-2, ...
    NoDraft,    \* no canvas is open, or the one asked for could not be read
    Off         \* an editor that is disabled

VARIABLES
    draft,          \* the shell's draft, parsed, or NoDraft
    shown,          \* the window's projection of it
    node,           \* the selected node, or Blank
    edge,           \* the selected edge, or Blank
    source,         \* the node a line is being drawn from, or Blank
    dragged,        \* the node being dragged, or Blank
    nodeEditor,     \* the node and the columns in the field editor, or Off
    edgeEditor      \* the edge in the join editor, or Off

panel == <<node, edge, source, dragged, nodeEditor, edgeEditor>>
vars == <<draft, shown, panel>>

Model == INSTANCE CanvasModel WITH canvas <- draft

\* What CanvasModel asks of its constants.
ASSUME CanvasAssumption ==
    /\ Fold \in [Words -> Words]
    /\ Blank \notin Words
    /\ KnownJoinTypes \subseteq JoinTypes
    /\ \A c \in Pastes : c \in Model!Canvas
    /\ NewNodes \subseteq Model!Node
    /\ NewEdges \subseteq Model!Edge
    /\ MaxNodes \in Nat
    /\ MaxEdges \in Nat

ASSUME ListedAssumption == \A c \in Pastes : c.edges # << >> => c.listed

ASSUME PanelAssumption ==
    /\ Inner \in KnownJoinTypes
    /\ LineIds \in Seq(Words)
    /\ \A i, j \in DOMAIN LineIds : Fold[LineIds[i]] = Fold[LineIds[j]] => i = j
    /\ \A i \in DOMAIN LineIds : Fold[LineIds[i]] = LineIds[i]
    /\ NoDraft \notin Model!Canvas
    /\ Off \notin [id : Words, columns : SUBSET Columns] \cup Model!Edge

\* Mutant: a canvas is shown as it is stored.
OpenedAsWritten == {c \in Pastes : Model!Acceptable(c)}

Opened == {Model!Normalize(c) : c \in {c \in Pastes : Model!Acceptable(c)}}

TypeOK ==
    /\ draft # NoDraft => Model!TypeOK
    /\ shown \in Model!Canvas \cup {NoDraft}
    /\ {node, edge, source, dragged} \subseteq Words \cup {Blank}
    /\ nodeEditor \in [id : Words, columns : SUBSET Columns] \cup {Off}
    /\ edgeEditor \in Model!Edge \cup {Off}

(***************************************************************************)
(* What every handler ends with                                            *)
(***************************************************************************)
NodesOf(c, id) == {i \in DOMAIN c.nodes : c.nodes[i].id = id}

EdgesOf(c, id) == {k \in DOMAIN c.edges : c.edges[k].id = id}

First(K) == CHOOSE k \in K : \A j \in K : k <= j

\* Mutant: a node that is gone stays selected.
ShowNodeAnyway(c, n) ==
    /\ node' = n
    /\ nodeEditor' = IF NodesOf(c, n) = {} THEN Off
                     ELSE LET shownNode == c.nodes[First(NodesOf(c, n))]
                          IN  [id |-> n, columns |-> Model!Shown(shownNode)]

ShowNode(c, n) ==
    IF NodesOf(c, n) = {}
    THEN node' = Blank /\ nodeEditor' = Off
    ELSE /\ node' = n
         /\ nodeEditor' = [id |-> n, columns |-> Model!Shown(c.nodes[First(NodesOf(c, n))])]

\* Mutant: the editor is not filled again for the edge that is in it.
ShowEdgeOnce(c, e) ==
    IF EdgesOf(c, e) = {}
    THEN edge' = Blank /\ edgeEditor' = Off
    ELSE /\ edge' = e
         /\ edgeEditor' = IF e = edge /\ edgeEditor # Off THEN edgeEditor
                          ELSE c.edges[First(EdgesOf(c, e))]

\* With no edge selected, an edge that has no id is found and fills the editor.
ShowEdge(c, e) ==
    IF EdgesOf(c, e) = {}
    THEN edge' = Blank /\ edgeEditor' = Off
    ELSE edge' = e /\ edgeEditor' = c.edges[First(EdgesOf(c, e))]

\* Whether what is shown can be read, which every gesture asks first.
CanRead == shown # NoDraft

Select(n, e) == CanRead /\ ShowNode(shown, n) /\ ShowEdge(shown, e)

\* refreshProjection, with the draft as the dispatch has left it.
Refresh(c) ==
    /\ shown' = c
    /\ IF c = NoDraft
       THEN /\ node' = Blank /\ nodeEditor' = Off
            /\ edge' = Blank /\ edgeEditor' = Off
       ELSE ShowNode(c, node) /\ ShowEdge(c, edge)

Init ==
    /\ draft = NoDraft /\ shown = NoDraft
    /\ node = Blank /\ edge = Blank /\ source = Blank /\ dragged = Blank
    /\ nodeEditor = Off /\ edgeEditor = Off

(***************************************************************************)
(* Dispatches that are not gestures on the canvas                          *)
(***************************************************************************)
\* A half-drawn line and a drag are dropped only if no canvas is left.
GestureAfter(c) ==
    IF c = NoDraft THEN source' = Blank /\ dragged' = Blank ELSE UNCHANGED <<source, dragged>>

\* Mutant: opening a canvas that cannot be read does not refresh the window.
OpenFromExplorerUnrefreshed(c) ==
    /\ draft' = c
    /\ IF c = NoDraft THEN UNCHANGED <<shown, panel>> ELSE Refresh(c) /\ GestureAfter(c)

Show(c) == draft' = c /\ Refresh(c) /\ GestureAfter(c)

\* The button opens the canvas, then runs it in the terminal.  Opening refreshes
\* the window only if it succeeds; running always does.
OpenFromExplorer(c) == Show(c)

\* A line in the terminal or a shortcut may save another spec as the active canvas,
\* delete that canvas, or do nothing to it.  So may a dispatch that is refused.
SubmitTerminalCommand(c) == Show(c)

\* The Save, Revert, Clear, Run, New, Rename and Delete buttons.
Command(c) == Show(c)

(***************************************************************************)
(* Gestures                                                                *)
(***************************************************************************)
\* Pressing a button beside everything while a line is being drawn.
AbandonLine ==
    /\ CanRead
    /\ source # Blank
    /\ source' = Blank
    /\ UNCHANGED <<draft, shown, node, edge, dragged, nodeEditor, edgeEditor>>

\* Beside everything, or on an edge that has no id.
SelectNothing == source = Blank /\ Select(Blank, Blank) /\ UNCHANGED <<draft, shown, source, dragged>>

SelectEdge(k) ==
    /\ CanRead
    /\ source = Blank
    /\ k \in DOMAIN shown.edges
    /\ shown.edges[k].id # Blank
    /\ Select(Blank, shown.edges[k].id)
    /\ UNCHANGED <<draft, shown, source, dragged>>

\* The left button, which also begins a drag.
SelectNode(i) ==
    /\ CanRead
    /\ i \in DOMAIN shown.nodes
    /\ Select(shown.nodes[i].id, Blank)
    /\ dragged' = shown.nodes[i].id
    /\ UNCHANGED <<draft, shown, source>>

\* The canvas may have changed since the node was pressed.
Drag ==
    /\ dragged # Blank
    /\ \/ Model!MoveNode(dragged)
       \/ NodesOf(draft, dragged) = {} /\ draft' = draft
    /\ Refresh(draft')
    /\ UNCHANGED <<source, dragged>>

Release ==
    /\ dragged # Blank
    /\ dragged' = Blank
    /\ UNCHANGED <<draft, shown, node, edge, source, nodeEditor, edgeEditor>>

\* The right button on a node.
DropEdge ==
    /\ Select(node, Blank)
    /\ UNCHANGED <<draft, shown, source, dragged>>

\* The left button with Control.
BeginLine(i) ==
    /\ CanRead
    /\ i \in DOMAIN shown.nodes
    /\ source \in {Blank, shown.nodes[i].id}
    /\ source' = shown.nodes[i].id
    /\ Select(shown.nodes[i].id, Blank)
    /\ UNCHANGED <<draft, shown, dragged>>

\* Mutant: lines are numbered by counting.
NextIdByCount(c) == {LineIds[i] : i \in {i \in DOMAIN LineIds : i = Len(c.edges) + 1}}

\* The first number no edge has; none if the model's numbers are used up.
NextId(c) ==
    {LineIds[i] : i \in {i \in DOMAIN LineIds :
        /\ EdgesOf(c, LineIds[i]) = {}
        /\ \A j \in DOMAIN LineIds : j < i => EdgesOf(c, LineIds[j]) # {}}}

\* The lines that may be drawn between two nodes: on the first column of each, of
\* which this model keeps only that there is one.
Lines(c, from, to) ==
    {[id |-> id, from |-> from, to |-> to, fromColumn |-> f, toColumn |-> t, joinType |-> Inner] :
        id \in NextId(c),
        f \in UNION {c.nodes[i].fields : i \in NodesOf(c, from)},
        t \in UNION {c.nodes[i].fields : i \in NodesOf(c, to)}}

\* The node the line comes from may be none of this canvas's.
FinishLine(i) ==
    /\ CanRead
    /\ i \in DOMAIN shown.nodes
    /\ source \notin {Blank, shown.nodes[i].id}
    /\ source' = Blank
    /\ UNCHANGED dragged
    /\ \/ /\ \E e \in Lines(shown, source, shown.nodes[i].id) : Model!AddEdge(e)
          /\ Refresh(draft')
       \/ /\ \A e \in Lines(shown, source, shown.nodes[i].id) :
                 \/ ~ Model!IsNewEdge(draft, e)
                 \/ ~ Model!Acceptable(Model!WithEdge(draft, e))
          /\ draft' = draft
          /\ Refresh(draft)

\* The columns in the field editor, as the user has left them.
ApplyFields(columns) ==
    /\ node # Blank
    /\ Model!SelectFields(node, columns)
    /\ Refresh(draft')
    /\ UNCHANGED <<source, dragged>>

\* The join editor: the ends are the edge's own, columns and type as typed.
ApplyEdge(from, to, type) ==
    /\ CanRead
    /\ edge # Blank
    /\ \E k \in EdgesOf(shown, edge) :
           Model!PatchEdge([shown.edges[k] EXCEPT
                                !.fromColumn = from, !.toColumn = to, !.joinType = type])
    /\ Refresh(draft')
    /\ UNCHANGED <<source, dragged>>

Next ==
    \/ \E c \in Opened \cup {NoDraft} : OpenFromExplorer(c)
    \/ \E c \in Opened \cup {NoDraft, draft} : SubmitTerminalCommand(c) \/ Command(c)
    \/ AbandonLine \/ SelectNothing \/ DropEdge \/ Drag \/ Release
    \/ \E k \in 1 .. MaxEdges : SelectEdge(k)
    \/ \E i \in 1 .. MaxNodes : SelectNode(i) \/ BeginLine(i) \/ FinishLine(i)
    \/ \E columns \in SUBSET Columns : ApplyFields(columns)
    \/ \E from, to \in Columns, type \in KnownJoinTypes : ApplyEdge(from, to, type)

Spec == Init /\ [][Next]_vars

(***************************************************************************)
(* Properties                                                              *)
(***************************************************************************)
\* Whatever is opened, typed or refused, the window shows the draft that the next
\* gesture will change.
ShowsTheDraft == shown = draft

\* What is selected is on the canvas, whichever canvas has come up meanwhile, and
\* never both a node and an edge; a half-done gesture does not outlive the last
\* canvas.
SelectionIsOnCanvas ==
    /\ node # Blank => draft # NoDraft /\ NodesOf(draft, node) # {}
    /\ edge # Blank => draft # NoDraft /\ EdgesOf(draft, edge) # {}
    /\ node = Blank \/ edge = Blank
    /\ draft = NoDraft => source = Blank /\ dragged = Blank

\* The editors hold what the draft says of the selection, not what it said before
\* a command or a refused edit.
EditorsAreCurrent ==
    /\ nodeEditor # Off <=> node # Blank
    /\ node # Blank =>
           \A i \in NodesOf(draft, node) :
               nodeEditor = [id |-> node, columns |-> Model!Shown(draft.nodes[i])]
    /\ edge # Blank => \A k \in EdgesOf(draft, edge) : edgeEditor = draft.edges[k]

\* A line between two nodes that have fields is accepted whatever ids the edges of
\* the canvas have, unless one is a number of ours in other letters (such a canvas
\* takes no more lines) or the model's numbers are used up.
LinesAreAccepted ==
    draft # NoDraft =>
        LET foreign(k) == /\ draft.edges[k].id # Blank
                          /\ Fold[draft.edges[k].id] # draft.edges[k].id
                          /\ \E i \in DOMAIN LineIds : LineIds[i] = Fold[draft.edges[k].id]
        IN  (\A k \in DOMAIN draft.edges : ~ foreign(k)) =>
                \A i, j \in DOMAIN draft.nodes :
                    \A e \in Lines(draft, draft.nodes[i].id, draft.nodes[j].id) :
                        i # j => /\ Model!IsNewEdge(draft, e)
                                 /\ Model!Acceptable(Model!WithEdge(draft, e))

=============================================================================
