------------------------- MODULE CanvasPanel_proofs -------------------------
(***************************************************************************)
(* Theorems about the canvas in the window, for any names, columns and     *)
(* canvases: the window keeps to the draft, whatever is opened, typed,     *)
(* drawn and dragged.  What is known of the canvas itself is taken from    *)
(* the theorems about CanvasModel.                                         *)
(***************************************************************************)
EXTENDS CanvasPanel, WellFoundedInduction, TLAPS

Proved == INSTANCE CanvasModel_proofs WITH canvas <- draft

(***************************************************************************)
(* The model of the canvas and the one proved about are the same           *)
(***************************************************************************)
LEMMA SameModel ==
    /\ Model!Canvas = Proved!Canvas
    /\ Model!Edge = Proved!Edge
    /\ \A c : Model!Acceptable(c) = Proved!Acceptable(c)
    /\ \A c : Model!Normalize(c) = Proved!Normalize(c)
    /\ \A c, e : Model!WithEdge(c, e) = Proved!WithEdge(c, e)
<1>1. Model!Canvas = Proved!Canvas
    BY DEF Model!Canvas, Proved!Canvas, Model!Node, Proved!Node, Model!Edge, Proved!Edge
<1>2. \A c : Model!Acceptable(c) = Proved!Acceptable(c)
    BY DEF Model!Acceptable, Proved!Acceptable, Model!NodesDiffer, Proved!NodesDiffer,
           Model!Alias, Proved!Alias, Model!Joins, Proved!Joins, Model!HasField, Proved!HasField
<1>3. \A c : Model!Normalize(c) = Proved!Normalize(c)
    BY DEF Model!Normalize, Proved!Normalize, Model!NormalNode, Proved!NormalNode,
           Model!Alias, Proved!Alias
<1>4. \A c, e : Model!WithEdge(c, e) = Proved!WithEdge(c, e)
    BY DEF Model!WithEdge, Proved!WithEdge
<1>5. Model!Edge = Proved!Edge
    BY DEF Model!Edge, Proved!Edge
<1> QED BY <1>1, <1>2, <1>3, <1>4, <1>5

LEMMA ProvedAssumption == Proved!CanvasAssumption /\ Proved!ListedAssumption
<1>1. Pastes \subseteq Proved!Canvas
    BY CanvasAssumption, SameModel DEF CanvasAssumption
<1>2. Model!Node = Proved!Node /\ Model!Edge = Proved!Edge
    BY DEF Model!Node, Proved!Node, Model!Edge, Proved!Edge
<1>3. Proved!CanvasAssumption
    BY <1>1, <1>2, CanvasAssumption DEF CanvasAssumption, Proved!CanvasAssumption
<1>4. Proved!ListedAssumption
    BY ListedAssumption DEF ListedAssumption, Proved!ListedAssumption
<1> QED BY <1>3, <1>4

USE CanvasAssumption, PanelAssumption DEF CanvasAssumption, PanelAssumption

(***************************************************************************)
(* What every edit leaves                                                  *)
(***************************************************************************)
Good(c) ==
    /\ c \in Model!Canvas
    /\ Model!Acceptable(c)
    /\ \A i \in DOMAIN c.nodes : c.nodes[i].alias # Blank

LEMMA NormalizedIsGood ==
    ASSUME NEW c \in Model!Canvas, Model!Acceptable(c), NEW d, d = Model!Normalize(c)
    PROVE  Good(d)
BY SameModel, ProvedAssumption, Proved!NormalizedSatisfies DEF Good

LEMMA BecomeIsGood ==
    ASSUME NEW c \in Model!Canvas, Model!Become(c)
    PROVE  Good(draft')
BY NormalizedIsGood DEF Model!Become

LEMMA OpenedIsGood == \A c \in Opened : Good(c)
BY NormalizedIsGood DEF Opened

LEMMA ElementsAreTyped ==
    ASSUME NEW c, Good(c)
    PROVE  /\ \A i \in DOMAIN c.nodes : /\ c.nodes[i] \in Model!Node
                                        /\ c.nodes[i].id \in Words
                                        /\ c.nodes[i].fields \subseteq Columns
                                        /\ c.nodes[i].selected \subseteq Columns
           /\ \A k \in DOMAIN c.edges : /\ c.edges[k] \in Model!Edge
                                        /\ c.edges[k].id \in Words \cup {Blank}
<1>1. \A i \in DOMAIN c.nodes : c.nodes[i] \in Model!Node
    BY DEF Good, Model!Canvas
<1>2. \A k \in DOMAIN c.edges : c.edges[k] \in Model!Edge
    BY DEF Good, Model!Canvas
<1>3. \A n \in Model!Node : n.id \in Words /\ n.fields \subseteq Columns /\ n.selected \subseteq Columns
    BY DEF Model!Node
<1>4. \A e \in Model!Edge : e.id \in Words \cup {Blank}
    BY DEF Model!Edge
<1> QED BY <1>1, <1>2, <1>3, <1>4

LEMMA GoodIsADraft == \A c : Good(c) => c # NoDraft
BY DEF Good

LEMMA MovingIsGood ==
    ASSUME Good(draft), NEW id, Model!MoveNode(id)
    PROVE  Good(draft')
BY BecomeIsGood DEF Model!MoveNode, Good

LEMMA SelectingIsGood ==
    ASSUME Good(draft), NEW id, NEW columns \in SUBSET Columns, Model!SelectFields(id, columns)
    PROVE  Good(draft')
<1>1. PICK i \in DOMAIN draft.nodes :
          Model!Become([draft EXCEPT !.nodes[i].selected = columns])
    BY DEF Model!SelectFields
<1>2. Proved!Selecting(draft, i, columns) = [draft EXCEPT !.nodes[i].selected = columns]
    BY DEF Proved!Selecting
<1>3. Proved!Selecting(draft, i, columns) \in Proved!Canvas
    BY SameModel, ProvedAssumption, Proved!SelectingIsTyped DEF Good
<1> DEFINE c == [draft EXCEPT !.nodes[i].selected = columns]
<1>4. c \in Model!Canvas /\ Model!Become(c)
    BY <1>1, <1>2, <1>3, SameModel
<1> HIDE DEF c
<1> QED BY <1>4, BecomeIsGood

LEMMA AddingIsGood ==
    ASSUME Good(draft), NEW e \in Model!Edge, Model!AddEdge(e)
    PROVE  Good(draft')
<1>1. Model!WithEdge(draft, e) \in Model!Canvas
    BY SameModel, ProvedAssumption, Proved!WithEdgeIsTyped DEF Good
<1> QED BY <1>1, BecomeIsGood DEF Model!AddEdge

LEMMA PatchingIsGood ==
    ASSUME Good(draft), NEW e \in Model!Edge, Model!PatchEdge(e)
    PROVE  Good(draft')
<1>1. PICK i \in DOMAIN draft.edges : Model!Become([draft EXCEPT !.edges[i] = e])
    BY DEF Model!PatchEdge
<1>2. [draft EXCEPT !.edges[i] = e] \in Model!Canvas
    BY SameModel, ProvedAssumption, Proved!PatchedIsTyped DEF Good
<1> DEFINE c == [draft EXCEPT !.edges[i] = e]
<1> HIDE DEF c
<1>3. c \in Model!Canvas /\ Model!Become(c)
    BY <1>1, <1>2 DEF c
<1> QED BY <1>3, BecomeIsGood

(***************************************************************************)
(* Finding nodes and edges by their ids                                    *)
(***************************************************************************)
LEMMA FirstIsIn ==
    ASSUME NEW K \in SUBSET Nat, K # {}
    PROVE  First(K) \in K
<1> DEFINE R == {ss \in Nat \X Nat : ss[1] < ss[2]}
<1>1. IsWellFoundedOn(R, Nat)
    BY NatLessThanWellFounded DEF OpToRel
<1>2. \E x \in K : \A y \in K : <<y, x>> \notin R
    <2> HIDE DEF R
    <2> QED BY <1>1, WFMin
<1>3. PICK x \in K : \A y \in K : <<y, x>> \notin R
    BY <1>2
<1>4. ASSUME NEW y \in K PROVE x <= y
    <2>1. <<y, x>> \notin R
        BY <1>3
    <2>2. ~ (y < x)
        BY <2>1
    <2> QED BY <2>2
<1> QED BY <1>4 DEF First

LEMMA NodesAreFound ==
    ASSUME NEW c, Good(c), NEW n, NodesOf(c, n) # {}
    PROVE  /\ n \in Words
           /\ First(NodesOf(c, n)) \in DOMAIN c.nodes
           /\ \A i \in NodesOf(c, n) : i = First(NodesOf(c, n))
<1>1. NodesOf(c, n) \in SUBSET Nat
    BY DEF NodesOf, Good, Model!Canvas
<1>2. First(NodesOf(c, n)) \in NodesOf(c, n)
    BY <1>1, FirstIsIn
<1>3. \A i, j \in NodesOf(c, n) : i = j
    BY DEF NodesOf, Good, Model!Acceptable, Model!NodesDiffer
<1>4. n \in Words
    BY <1>2, ElementsAreTyped DEF NodesOf
<1> QED BY <1>2, <1>3, <1>4 DEF NodesOf

LEMMA EdgesAreFound ==
    ASSUME NEW c, Good(c), NEW e, EdgesOf(c, e) # {}
    PROVE  /\ First(EdgesOf(c, e)) \in DOMAIN c.edges
           /\ c.edges[First(EdgesOf(c, e))] \in Model!Edge
           /\ e # Blank => \A k \in EdgesOf(c, e) : k = First(EdgesOf(c, e))
<1>1. EdgesOf(c, e) \in SUBSET Nat
    BY DEF EdgesOf, Good, Model!Canvas
<1>2. First(EdgesOf(c, e)) \in EdgesOf(c, e)
    BY <1>1, FirstIsIn
<1>3. e # Blank => \A j, k \in EdgesOf(c, e) : j = k
    BY DEF EdgesOf, Good, Model!Acceptable
<1>4. c.edges[First(EdgesOf(c, e))] \in Model!Edge
    BY <1>2 DEF EdgesOf, Good, Model!Canvas
<1> QED BY <1>2, <1>3, <1>4 DEF EdgesOf

(***************************************************************************)
(* Selection and editors after a refresh or a click                        *)
(***************************************************************************)
NodeFits(c, n, editor) ==
    /\ n \in Words \cup {Blank}
    /\ editor \in [id : Words, columns : SUBSET Columns] \cup {Off}
    /\ editor # Off <=> n # Blank
    /\ n # Blank =>
        /\ c # NoDraft
        /\ NodesOf(c, n) # {}
        /\ \A i \in NodesOf(c, n) : editor = [id |-> n, columns |-> Model!Shown(c.nodes[i])]

EdgeFits(c, e, editor) ==
    /\ e \in Words \cup {Blank}
    /\ editor \in Model!Edge \cup {Off}
    /\ e # Blank =>
        /\ c # NoDraft
        /\ EdgesOf(c, e) # {}
        /\ \A k \in EdgesOf(c, e) : editor = c.edges[k]

Fits(c, n, e, ne, ee) == NodeFits(c, n, ne) /\ EdgeFits(c, e, ee) /\ (n = Blank \/ e = Blank)

LEMMA ShownColumns ==
    ASSUME NEW c, Good(c), NEW i \in DOMAIN c.nodes
    PROVE  Model!Shown(c.nodes[i]) \in SUBSET Columns
BY ElementsAreTyped DEF Model!Shown

LEMMA NodeIsShown ==
    ASSUME NEW c, Good(c), NEW n, ShowNode(c, n)
    PROVE  NodeFits(c, node', nodeEditor') /\ node' \in {n, Blank}
<1>1. CASE NodesOf(c, n) = {}
    BY <1>1 DEF ShowNode, NodeFits
<1>2. CASE NodesOf(c, n) # {}
    <2> DEFINE i == First(NodesOf(c, n))
               columns == Model!Shown(c.nodes[i])
    <2>1. n \in Words /\ i \in DOMAIN c.nodes /\ \A j \in NodesOf(c, n) : j = i
        BY <1>2, NodesAreFound
    <2>2. columns \in SUBSET Columns
        BY <2>1, ShownColumns
    <2>3. node' = n /\ nodeEditor' = [id |-> n, columns |-> columns]
        BY <1>2 DEF ShowNode
    <2>4. \A j \in NodesOf(c, n) : Model!Shown(c.nodes[j]) = columns
        BY <2>1
    <2> HIDE DEF columns, i
    <2>5. nodeEditor' \in [id : Words, columns : SUBSET Columns]
        BY <2>1, <2>2, <2>3
    <2> QED BY <1>2, <2>1, <2>3, <2>4, <2>5, GoodIsADraft DEF NodeFits
<1> QED BY <1>1, <1>2

LEMMA EdgeIsShown ==
    ASSUME NEW c, Good(c), NEW e \in Words \cup {Blank}, ShowEdge(c, e)
    PROVE  EdgeFits(c, edge', edgeEditor') /\ edge' \in {e, Blank}
<1>1. CASE EdgesOf(c, e) = {}
    BY <1>1 DEF ShowEdge, EdgeFits
<1>2. CASE EdgesOf(c, e) # {}
    <2>1. edge' = e /\ edgeEditor' = c.edges[First(EdgesOf(c, e))]
        BY <1>2 DEF ShowEdge
    <2> QED BY <1>2, <2>1, EdgesAreFound, GoodIsADraft DEF EdgeFits
<1> QED BY <1>1, <1>2

(***************************************************************************)
(* The invariant                                                           *)
(***************************************************************************)
\* The window shows the draft, which is a canvas or none; selection and editors
\* fit it, and gestures begun are of a canvas.
PanelInv ==
    /\ shown = draft
    /\ draft # NoDraft => Good(draft)
    /\ {source, dragged} \subseteq Words \cup {Blank}
    /\ draft = NoDraft => source = Blank /\ dragged = Blank
    /\ Fits(draft, node, edge, nodeEditor, edgeEditor)

\* Every handler that changes the draft ends in a refresh.
LEMMA RefreshFits ==
    ASSUME PanelInv, NEW c, c = NoDraft \/ Good(c), Refresh(c)
    PROVE  shown' = c /\ Fits(c, node', edge', nodeEditor', edgeEditor')
<1>1. CASE c = NoDraft
    BY <1>1 DEF Refresh, Fits, NodeFits, EdgeFits
<1>2. CASE c # NoDraft
    <2>1. ShowNode(c, node) /\ ShowEdge(c, edge) /\ Good(c)
        BY <1>2 DEF Refresh
    <2>2. edge \in Words \cup {Blank} /\ (node = Blank \/ edge = Blank)
        BY DEF PanelInv, Fits, EdgeFits
    <2>3. NodeFits(c, node', nodeEditor') /\ node' \in {node, Blank}
        BY <2>1, NodeIsShown
    <2>4. EdgeFits(c, edge', edgeEditor') /\ edge' \in {edge, Blank}
        BY <2>1, <2>2, EdgeIsShown
    <2> QED BY <2>2, <2>3, <2>4 DEF Refresh, Fits
<1> QED BY <1>1, <1>2

LEMMA SelectFits ==
    ASSUME PanelInv, NEW n, NEW e \in Words \cup {Blank}, n = Blank \/ e = Blank,
           Select(n, e), UNCHANGED draft
    PROVE  Fits(draft', node', edge', nodeEditor', edgeEditor') /\ draft # NoDraft
<1>1. Good(draft) /\ ShowNode(draft, n) /\ ShowEdge(draft, e)
    BY DEF Select, CanRead, PanelInv
<1>2. NodeFits(draft, node', nodeEditor') /\ node' \in {n, Blank}
    BY <1>1, NodeIsShown
<1>3. EdgeFits(draft, edge', edgeEditor') /\ edge' \in {e, Blank}
    BY <1>1, EdgeIsShown
<1> QED BY <1>1, <1>2, <1>3, GoodIsADraft DEF Fits

LEMMA ShowKeeps ==
    ASSUME PanelInv, NEW c, c = NoDraft \/ Good(c), Show(c)
    PROVE  PanelInv'
<1>1. shown' = c /\ Fits(c, node', edge', nodeEditor', edgeEditor')
    BY RefreshFits DEF Show
<1> QED BY <1>1 DEF Show, GestureAfter, PanelInv

\* Clicks and drags that leave the draft as it is.
LEMMA ClicksKeep ==
    ASSUME PanelInv,
           \/ SelectNothing \/ DropEdge
           \/ \E k \in 1 .. MaxEdges : SelectEdge(k)
           \/ \E i \in 1 .. MaxNodes : SelectNode(i) \/ BeginLine(i)
    PROVE  PanelInv'
<1>1. CASE SelectNothing
    BY <1>1, SelectFits DEF SelectNothing, PanelInv
<1>2. CASE DropEdge
    BY <1>2, SelectFits DEF DropEdge, PanelInv
<1>3. ASSUME NEW k \in 1 .. MaxEdges, SelectEdge(k) PROVE PanelInv'
    <2>1. Good(shown) /\ k \in DOMAIN shown.edges
        BY <1>3 DEF SelectEdge, CanRead, PanelInv
    <2>2. shown.edges[k].id \in Words \cup {Blank}
        BY <2>1, ElementsAreTyped
    <2> QED BY <1>3, <2>2, SelectFits DEF SelectEdge, PanelInv
<1>4. ASSUME NEW i \in 1 .. MaxNodes, SelectNode(i) \/ BeginLine(i) PROVE PanelInv'
    <2>1. Good(shown) /\ i \in DOMAIN shown.nodes
        BY <1>4 DEF SelectNode, BeginLine, CanRead, PanelInv
    <2>2. shown.nodes[i].id \in Words
        BY <2>1, ElementsAreTyped
    <2>3. Select(shown.nodes[i].id, Blank) /\ UNCHANGED <<draft, shown>>
        BY <1>4 DEF SelectNode, BeginLine
    <2>4. /\ Fits(draft', node', edge', nodeEditor', edgeEditor')
          /\ draft # NoDraft
        BY <2>3, SelectFits
    <2>5. {source', dragged'} \subseteq Words \cup {Blank}
        BY <1>4, <2>2 DEF SelectNode, BeginLine, PanelInv
    <2> QED BY <2>3, <2>4, <2>5 DEF PanelInv
<1> QED BY <1>1, <1>2, <1>3, <1>4

LEMMA GesturesEnd ==
    ASSUME PanelInv, AbandonLine \/ Release
    PROVE  PanelInv'
BY DEF AbandonLine, Release, PanelInv

\* An edit of the draft that leaves a canvas, and the refresh after it.
LEMMA EditKeeps ==
    ASSUME PanelInv, Good(draft'), Refresh(draft'),
           {source', dragged'} \subseteq Words \cup {Blank}
    PROVE  PanelInv'
<1>1. shown' = draft' /\ Fits(draft', node', edge', nodeEditor', edgeEditor')
    BY RefreshFits
<1> QED BY <1>1, GoodIsADraft DEF PanelInv

LEMMA DragKeeps == ASSUME PanelInv, Drag PROVE PanelInv'
<1>1. Good(draft)
    BY DEF Drag, PanelInv
<1>2. Good(draft')
    BY <1>1, MovingIsGood DEF Drag
<1> QED BY <1>2, EditKeeps DEF Drag, PanelInv

LEMMA LinesAreTyped ==
    ASSUME NEW c, Good(c), NEW from \in Words, NEW to \in Words, NEW e \in Lines(c, from, to)
    PROVE  e \in Model!Edge
<1>1. \A i \in DOMAIN c.nodes : c.nodes[i].fields \subseteq Columns
    BY ElementsAreTyped
<1>2. PICK id \in NextId(c), f \in Columns, t \in Columns :
          e = [id |-> id, from |-> from, to |-> to, fromColumn |-> f, toColumn |-> t,
               joinType |-> Inner]
    BY <1>1 DEF Lines, NodesOf
<1>3. id \in Words
    BY DEF NextId
<1> QED BY <1>2, <1>3 DEF Model!Edge

LEMMA FinishKeeps ==
    ASSUME PanelInv, NEW i \in 1 .. MaxNodes, FinishLine(i)
    PROVE  PanelInv'
<1>1. Good(draft) /\ i \in DOMAIN draft.nodes /\ shown = draft
    BY DEF FinishLine, CanRead, PanelInv
<1>2. source \in Words /\ draft.nodes[i].id \in Words
    BY <1>1, ElementsAreTyped DEF FinishLine, PanelInv
<1>3. Good(draft')
    <2>1. CASE draft' = draft
        BY <1>1, <2>1
    <2>2. ASSUME NEW e \in Lines(shown, source, shown.nodes[i].id), Model!AddEdge(e)
          PROVE  Good(draft')
        BY <1>1, <1>2, <2>2, LinesAreTyped, AddingIsGood
    <2> QED BY <2>1, <2>2 DEF FinishLine
<1>4. Refresh(draft') /\ {source', dragged'} \subseteq Words \cup {Blank}
    BY DEF FinishLine, PanelInv
<1> QED BY <1>3, <1>4, EditKeeps

LEMMA FieldsKeep ==
    ASSUME PanelInv, NEW columns \in SUBSET Columns, ApplyFields(columns)
    PROVE  PanelInv'
<1>1. Good(draft)
    BY DEF ApplyFields, PanelInv, Fits, NodeFits
<1>2. Good(draft')
    BY <1>1, SelectingIsGood DEF ApplyFields
<1> QED BY <1>2, EditKeeps DEF ApplyFields, PanelInv

LEMMA EdgeKeeps ==
    ASSUME PanelInv, NEW from \in Columns, NEW to \in Columns, NEW type \in KnownJoinTypes,
           ApplyEdge(from, to, type)
    PROVE  PanelInv'
<1>1. Good(draft) /\ shown = draft
    BY DEF ApplyEdge, CanRead, PanelInv
<1>2. PICK k \in EdgesOf(draft, edge) :
          Model!PatchEdge([draft.edges[k] EXCEPT
                               !.fromColumn = from, !.toColumn = to, !.joinType = type])
    BY <1>1 DEF ApplyEdge
<1> DEFINE e == [draft.edges[k] EXCEPT !.fromColumn = from, !.toColumn = to, !.joinType = type]
<1>3. draft.edges[k] \in Model!Edge
    BY <1>1 DEF EdgesOf, Good, Model!Canvas
<1>4. e \in Model!Edge
    BY <1>3 DEF Model!Edge
<1>5. Model!PatchEdge(e)
    BY <1>2
<1> HIDE DEF e
<1>6. Good(draft')
    BY <1>1, <1>4, <1>5, PatchingIsGood
<1> QED BY <1>6, EditKeeps DEF ApplyEdge, PanelInv

LEMMA PanelInvStep == PanelInv /\ [Next]_vars => PanelInv'
<1> SUFFICES ASSUME PanelInv, [Next]_vars PROVE PanelInv'
    OBVIOUS
<1>1. ASSUME NEW c \in Opened \cup {NoDraft, draft}, Show(c) PROVE PanelInv'
    <2>1. c = NoDraft \/ Good(c)
        BY OpenedIsGood DEF PanelInv
    <2> QED BY <1>1, <2>1, ShowKeeps
<1>2. ASSUME NEW columns \in SUBSET Columns, ApplyFields(columns) PROVE PanelInv'
    BY <1>2, FieldsKeep
<1>3. ASSUME NEW from \in Columns, NEW to \in Columns, NEW type \in KnownJoinTypes,
             ApplyEdge(from, to, type)
      PROVE  PanelInv'
    BY <1>3, EdgeKeeps
<1>4. ASSUME NEW i \in 1 .. MaxNodes, FinishLine(i) PROVE PanelInv'
    BY <1>4, FinishKeeps
<1>5. CASE UNCHANGED vars
    BY <1>5 DEF vars, panel, PanelInv
<1> QED BY <1>1, <1>2, <1>3, <1>4, <1>5, ClicksKeep, GesturesEnd, DragKeeps
        DEF Next, OpenFromExplorer, SubmitTerminalCommand, Command

LEMMA PanelInvariant == Spec => []PanelInv
<1>1. Init => PanelInv
    BY DEF Init, PanelInv, Fits, NodeFits, EdgeFits
<1> QED BY <1>1, PanelInvStep, PTL DEF Spec

(***************************************************************************)
(* Drawn lines                                                             *)
(***************************************************************************)
\* An edge whose id is one of our numbers in other letters.
Foreign(c, k) ==
    /\ c.edges[k].id # Blank
    /\ Fold[c.edges[k].id] # c.edges[k].id
    /\ \E i \in DOMAIN LineIds : LineIds[i] = Fold[c.edges[k].id]

LEMMA LineJoinsItsEnds ==
    ASSUME NEW c, Good(c), NEW i \in DOMAIN c.nodes, NEW j \in DOMAIN c.nodes,
           NEW e \in Lines(c, c.nodes[i].id, c.nodes[j].id)
    PROVE  /\ e.id \in NextId(c)
           /\ e.joinType \in KnownJoinTypes
           /\ Model!Joins(e, c.nodes[i], c.nodes[j])
<1>1. PICK id \in NextId(c), f \in UNION {c.nodes[x].fields : x \in NodesOf(c, c.nodes[i].id)},
           t \in UNION {c.nodes[x].fields : x \in NodesOf(c, c.nodes[j].id)} :
          e = [id |-> id, from |-> c.nodes[i].id, to |-> c.nodes[j].id,
               fromColumn |-> f, toColumn |-> t, joinType |-> Inner]
    BY DEF Lines
<1>2. \A x, y \in DOMAIN c.nodes : c.nodes[x].id = c.nodes[y].id => x = y
    BY DEF Good, Model!Acceptable, Model!NodesDiffer
<1>3. NodesOf(c, c.nodes[i].id) = {i} /\ NodesOf(c, c.nodes[j].id) = {j}
    BY <1>2 DEF NodesOf
<1>4. f \in c.nodes[i].fields /\ t \in c.nodes[j].fields
    BY <1>3
<1> QED BY <1>1, <1>4 DEF Model!Joins, Model!HasField

LEMMA NextIdIsFree ==
    ASSUME NEW c, Good(c), \A k \in DOMAIN c.edges : ~ Foreign(c, k), NEW id \in NextId(c)
    PROVE  /\ id # Blank
           /\ \A k \in DOMAIN c.edges : c.edges[k].id # id
           /\ \A k \in DOMAIN c.edges : c.edges[k].id # Blank => Fold[c.edges[k].id] # Fold[id]
<1>1. PICK m \in DOMAIN LineIds : id = LineIds[m] /\ EdgesOf(c, id) = {}
    BY DEF NextId
<1>2. id \in Words /\ Fold[id] = id
    BY <1>1
<1>3. \A k \in DOMAIN c.edges : c.edges[k].id # id
    BY <1>1 DEF EdgesOf
<1>4. ASSUME NEW k \in DOMAIN c.edges, c.edges[k].id # Blank, Fold[c.edges[k].id] = Fold[id]
      PROVE  FALSE
    BY <1>1, <1>2, <1>3, <1>4 DEF Foreign
<1> QED BY <1>2, <1>3, <1>4

LEMMA Appended ==
    ASSUME NEW S, NEW s \in Seq(S), NEW e
    PROVE  /\ DOMAIN Append(s, e) = DOMAIN s \cup {Len(s) + 1}
           /\ \A k \in DOMAIN s : Append(s, e)[k] = s[k]
           /\ Append(s, e)[Len(s) + 1] = e
<1>1. s \in Seq(S \cup {e})
    OBVIOUS
<1>2. Len(s) \in Nat /\ DOMAIN s = 1 .. Len(s)
    OBVIOUS
<1>3. Append(s, e) \in Seq(S \cup {e}) /\ Len(Append(s, e)) = Len(s) + 1
    BY <1>1
<1>4. DOMAIN Append(s, e) = 1 .. Len(s) + 1
    BY <1>3
<1>5. \A k \in 1 .. Len(s) + 1 : Append(s, e)[k] = IF k <= Len(s) THEN s[k] ELSE e
    BY <1>1
<1>6. 1 .. Len(s) + 1 = (1 .. Len(s)) \cup {Len(s) + 1}
    BY <1>2
<1> QED BY <1>2, <1>4, <1>5, <1>6

LEMMA LineIsAccepted ==
    ASSUME NEW c, Good(c), \A k \in DOMAIN c.edges : ~ Foreign(c, k),
           NEW i \in DOMAIN c.nodes, NEW j \in DOMAIN c.nodes,
           NEW e \in Lines(c, c.nodes[i].id, c.nodes[j].id)
    PROVE  Model!IsNewEdge(c, e) /\ Model!Acceptable(Model!WithEdge(c, e))
<1>1. /\ e.id \in NextId(c)
      /\ e.joinType \in KnownJoinTypes
      /\ Model!Joins(e, c.nodes[i], c.nodes[j])
    BY LineJoinsItsEnds
<1>2. /\ e.id # Blank
      /\ \A k \in DOMAIN c.edges : c.edges[k].id # e.id
      /\ \A k \in DOMAIN c.edges : c.edges[k].id # Blank => Fold[c.edges[k].id] # Fold[e.id]
    BY <1>1, NextIdIsFree
<1> DEFINE d == Model!WithEdge(c, e)
           es == Append(c.edges, e)
<1>3. c.edges \in Seq(Model!Edge) /\ d.nodes = c.nodes /\ d.edges = es
    BY DEF Good, Model!Canvas, Model!WithEdge
<1>4. /\ DOMAIN es = DOMAIN c.edges \cup {Len(c.edges) + 1}
      /\ \A k \in DOMAIN c.edges : es[k] = c.edges[k]
      /\ es[Len(c.edges) + 1] = e
    BY <1>3, Appended
<1> HIDE DEF d, es
<1>5. \A a, b \in DOMAIN es : a # b => es[a].id = Blank \/ es[a].id # es[b].id
    BY <1>2, <1>4 DEF Good, Model!Acceptable
<1>6. \A k \in DOMAIN es :
          /\ es[k].joinType \in KnownJoinTypes
          /\ \E a, b \in DOMAIN c.nodes : Model!Joins(es[k], c.nodes[a], c.nodes[b])
    BY <1>1, <1>4 DEF Good, Model!Acceptable
<1>7. Model!Acceptable(d)
    BY <1>3, <1>5, <1>6 DEF Good, Model!Acceptable
<1> QED BY <1>2, <1>7 DEF Model!IsNewEdge, d

(***************************************************************************)
(* The theorems                                                            *)
(***************************************************************************)
\* What the window holds is of the right kind; the draft is a canvas of the model.
THEOREM TypeCorrect == Spec => []TypeOK
<1>1. PanelInv => TypeOK
    <2> SUFFICES ASSUME PanelInv PROVE TypeOK
        OBVIOUS
    <2>1. draft # NoDraft => Model!TypeOK
        BY DEF PanelInv, Good, Model!TypeOK
    <2>2. shown \in Model!Canvas \cup {NoDraft}
        BY DEF PanelInv, Good
    <2> QED BY <2>1, <2>2 DEF PanelInv, Fits, NodeFits, EdgeFits, TypeOK
<1> QED BY <1>1, PanelInvariant, PTL

\* The window shows the draft that the next gesture will change.
THEOREM WindowShowsTheDraft == Spec => []ShowsTheDraft
<1>1. PanelInv => ShowsTheDraft
    BY DEF PanelInv, ShowsTheDraft
<1> QED BY <1>1, PanelInvariant, PTL

\* Whatever canvas has come up, what is selected is on it, and a half-done gesture
\* does not outlive the last canvas.
THEOREM SelectionStays == Spec => []SelectionIsOnCanvas
<1>1. PanelInv => SelectionIsOnCanvas
    BY DEF PanelInv, Fits, NodeFits, EdgeFits, SelectionIsOnCanvas
<1> QED BY <1>1, PanelInvariant, PTL

\* The editors hold what the draft says of the selection.
THEOREM EditorsStayCurrent == Spec => []EditorsAreCurrent
<1>1. PanelInv => EditorsAreCurrent
    BY DEF PanelInv, Fits, NodeFits, EdgeFits, EditorsAreCurrent
<1> QED BY <1>1, PanelInvariant, PTL

\* A line between two nodes that have fields is accepted, whatever ids the edges
\* have, unless one is a number of ours in other letters.
THEOREM DrawnLinesAreAccepted == Spec => []LinesAreAccepted
<1>1. PanelInv => LinesAreAccepted
    <2> SUFFICES ASSUME Good(draft), \A k \in DOMAIN draft.edges : ~ Foreign(draft, k),
                        NEW i \in DOMAIN draft.nodes, NEW j \in DOMAIN draft.nodes,
                        NEW e \in Lines(draft, draft.nodes[i].id, draft.nodes[j].id)
                 PROVE  /\ Model!IsNewEdge(draft, e)
                        /\ Model!Acceptable(Model!WithEdge(draft, e))
        BY DEF PanelInv, LinesAreAccepted, Foreign
    <2> QED BY LineIsAccepted
<1> QED BY <1>1, PanelInvariant, PTL

=============================================================================
