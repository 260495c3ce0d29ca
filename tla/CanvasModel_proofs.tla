------------------------ MODULE CanvasModel_proofs ------------------------
(***************************************************************************)
(* Theorems about the canvas, for any names, columns and canvases pasted:  *)
(* it stays canonical, edits succeed and can be undone, and it has SQL     *)
(* exactly if it is a tree.                                                *)
(***************************************************************************)
EXTENDS CanvasModel, FiniteSetTheorems, WellFoundedInduction, TLAPS

USE CanvasAssumption DEF CanvasAssumption

(***************************************************************************)
(* Normalizing                                                             *)
(***************************************************************************)
LEMMA NormalNodeIsTyped ==
    ASSUME NEW n \in Node, n.table # Blank
    PROVE  /\ NormalNode(n) \in Node
           /\ NormalNode(n).alias # Blank
           /\ NormalNode(n).id = n.id
           /\ NormalNode(n).table = n.table
           /\ NormalNode(n).fields = n.fields
           /\ NormalNode(n).selected = n.selected \cap n.fields
           /\ Alias(NormalNode(n)) = Alias(n)
           /\ NormalNode(NormalNode(n)) = NormalNode(n)
<1> DEFINE m == NormalNode(n)
<1>1. Alias(n) \in Words \cup {Blank} /\ Alias(n) # Blank
    BY DEF Node, Alias
<1>2. /\ m \in Node
      /\ m.alias = Alias(n) /\ m.id = n.id /\ m.table = n.table /\ m.fields = n.fields
      /\ m.selected = n.selected \cap n.fields
    BY <1>1 DEF Node, NormalNode
<1>3. Alias(m) = Alias(n)
    BY <1>1, <1>2 DEF Alias
<1>4. m.selected \cap m.fields = m.selected
    BY <1>2
<1> HIDE DEF m
<1>5. NormalNode(m) = m
    BY <1>2, <1>3, <1>4 DEF NormalNode, Node
<1> QED BY <1>1, <1>2, <1>3, <1>5 DEF m

LEMMA NormalizeKeeps ==
    ASSUME NEW c \in Canvas, Acceptable(c)
    PROVE  /\ Normalize(c) \in Canvas
           /\ DOMAIN Normalize(c).nodes = DOMAIN c.nodes
           /\ \A i \in DOMAIN c.nodes : Normalize(c).nodes[i] = NormalNode(c.nodes[i])
           /\ Normalize(c).edges = c.edges
           /\ Normalize(c).listed = c.listed
<1> DEFINE ns == [i \in DOMAIN c.nodes |-> NormalNode(c.nodes[i])]
<1>1. Normalize(c) = [nodes |-> ns, edges |-> c.edges, listed |-> c.listed]
    <2>1. c \in [nodes : Seq(Node), edges : Seq(Edge), listed : BOOLEAN]
        BY DEF Canvas
    <2> HIDE DEF ns
    <2>2. Normalize(c) = [c EXCEPT !.nodes = ns]
        BY Zenon DEF Normalize, ns
    <2> QED BY <2>1, <2>2
<1>2. \A i \in DOMAIN c.nodes : NormalNode(c.nodes[i]) \in Node
    BY NormalNodeIsTyped DEF Canvas, Acceptable
<1>3. ns \in Seq(Node)
    BY <1>2 DEF Canvas
<1> QED BY <1>1, <1>3 DEF Canvas

LEMMA NormalIsAcceptable ==
    ASSUME NEW c \in Canvas, Acceptable(c)
    PROVE  Acceptable(Normalize(c))
<1> DEFINE d == Normalize(c)
<1>1. /\ DOMAIN d.nodes = DOMAIN c.nodes
      /\ d.edges = c.edges
      /\ d \in Canvas
    BY NormalizeKeeps
<1>2. \A i \in DOMAIN c.nodes :
          /\ d.nodes[i].id = c.nodes[i].id
          /\ d.nodes[i].table = c.nodes[i].table
          /\ d.nodes[i].fields = c.nodes[i].fields
          /\ Alias(d.nodes[i]) = Alias(c.nodes[i])
    BY NormalizeKeeps, NormalNodeIsTyped DEF Canvas, Acceptable
<1> HIDE DEF d
<1>3. d.nodes # << >>
    BY <1>1 DEF Canvas, Acceptable
<1>4. \A i, j \in DOMAIN d.nodes : i # j => NodesDiffer(d.nodes[i], d.nodes[j])
    BY <1>1, <1>2 DEF Acceptable, NodesDiffer
<1>5. \A k \in DOMAIN d.edges, i, j \in DOMAIN d.nodes :
          Joins(c.edges[k], c.nodes[i], c.nodes[j]) => Joins(d.edges[k], d.nodes[i], d.nodes[j])
    BY <1>1, <1>2 DEF Joins, HasField
<1>6. \A k \in DOMAIN d.edges :
          /\ d.edges[k].joinType \in KnownJoinTypes
          /\ \E i, j \in DOMAIN d.nodes : Joins(d.edges[k], d.nodes[i], d.nodes[j])
    BY <1>1, <1>5 DEF Acceptable
<1>7. \A i \in DOMAIN d.nodes : d.nodes[i].table # Blank
    BY <1>1, <1>2 DEF Acceptable
<1>8. \A i, j \in DOMAIN d.edges :
          i # j => d.edges[i].id = Blank \/ d.edges[i].id # d.edges[j].id
    BY <1>1 DEF Acceptable
<1> QED BY <1>3, <1>4, <1>6, <1>7, <1>8 DEF Acceptable, d

LEMMA NormalizeIsIdempotent ==
    ASSUME NEW c \in Canvas, Acceptable(c)
    PROVE  Normalize(Normalize(c)) = Normalize(c)
<1> DEFINE d == Normalize(c)
           e == Normalize(d)
<1>1. /\ d \in Canvas /\ Acceptable(d)
      /\ DOMAIN d.nodes = DOMAIN c.nodes
      /\ \A i \in DOMAIN c.nodes : d.nodes[i] = NormalNode(c.nodes[i])
    BY NormalizeKeeps, NormalIsAcceptable
<1>2. /\ e \in Canvas
      /\ DOMAIN e.nodes = DOMAIN d.nodes
      /\ \A i \in DOMAIN d.nodes : e.nodes[i] = NormalNode(d.nodes[i])
      /\ e.edges = d.edges /\ e.listed = d.listed
    BY <1>1, NormalizeKeeps
<1>3. \A i \in DOMAIN c.nodes : NormalNode(NormalNode(c.nodes[i])) = NormalNode(c.nodes[i])
    BY NormalNodeIsTyped DEF Canvas, Acceptable
<1>4. \A i \in DOMAIN d.nodes : e.nodes[i] = d.nodes[i]
    BY <1>1, <1>2, <1>3
<1> HIDE DEF d, e
<1>5. e.nodes = d.nodes
    BY <1>1, <1>2, <1>4 DEF Canvas
<1>6. e = d
    BY <1>1, <1>2, <1>5 DEF Canvas
<1> QED BY <1>6 DEF d, e

(***************************************************************************)
(* Every step makes a canvas and normalizes it                             *)
(***************************************************************************)
LEMMA PasteIsTyped == \A c \in Pastes : c \in Canvas
OBVIOUS

Selecting(c, i, columns) == [c EXCEPT !.nodes[i].selected = columns]

LEMMA SelectingIsTyped ==
    ASSUME NEW c \in Canvas, NEW i \in DOMAIN c.nodes, NEW columns \in SUBSET Columns
    PROVE  Selecting(c, i, columns) \in Canvas
<1> DEFINE n == [c.nodes[i] EXCEPT !.selected = columns]
           ns == [c.nodes EXCEPT ![i] = n]
<1>1. n \in Node
    <2>1. c.nodes[i] \in Node
        BY DEF Canvas
    <2> QED BY <2>1 DEF Node
<1> HIDE DEF n
<1>2. ns \in Seq(Node)
    BY <1>1 DEF Canvas
<1>3. Selecting(c, i, columns) = [c EXCEPT !.nodes = ns]
    BY DEF Selecting, n
<1> QED BY <1>2, <1>3 DEF Canvas

LEMMA WithNodesIsTyped ==
    ASSUME NEW c \in Canvas, NEW ns \in Seq(Node)
    PROVE  [c EXCEPT !.nodes = ns] \in Canvas
BY DEF Canvas

LEMMA WithEdgesIsTyped ==
    ASSUME NEW c \in Canvas, NEW es \in Seq(Edge)
    PROVE  [c EXCEPT !.edges = es, !.listed = TRUE] \in Canvas
BY DEF Canvas

LEMMA WithNodeIsTyped ==
    ASSUME NEW c \in Canvas, NEW n \in Node
    PROVE  [c EXCEPT !.nodes = Append(c.nodes, n)] \in Canvas
<1> DEFINE ns == Append(c.nodes, n)
<1>1. ns \in Seq(Node)
    BY DEF Canvas
<1> HIDE DEF ns
<1> QED BY <1>1, WithNodesIsTyped DEF ns

LEMMA WithEdgeIsTyped ==
    ASSUME NEW c \in Canvas, NEW e \in Edge
    PROVE  WithEdge(c, e) \in Canvas
<1> DEFINE es == Append(c.edges, e)
<1>1. es \in Seq(Edge)
    BY DEF Canvas
<1>2. WithEdge(c, e) = [c EXCEPT !.edges = es, !.listed = TRUE]
    BY DEF WithEdge
<1> HIDE DEF es
<1> QED BY <1>1, <1>2, WithEdgesIsTyped

LEMMA PatchedIsTyped ==
    ASSUME NEW c \in Canvas, NEW i \in DOMAIN c.edges, NEW e \in Edge
    PROVE  [c EXCEPT !.edges[i] = e] \in Canvas
<1>1. [c.edges EXCEPT ![i] = e] \in Seq(Edge)
    BY DEF Canvas
<1> QED BY <1>1 DEF Canvas

LEMMA KeptIsFinite ==
    ASSUME NEW c \in Canvas, NEW id
    PROVE  IsFiniteSet(Kept(c, id)) /\ Kept(c, id) \in SUBSET Nat /\ Kept(c, id) \subseteq DOMAIN c.edges
<1> DEFINE n == Len(c.edges)
<1>1. n \in Nat /\ DOMAIN c.edges = 1 .. n
    BY DEF Canvas
<1> HIDE DEF n
<1>2. IsFiniteSet(1 .. n)
    <2>1. n \in Int
        BY <1>1
    <2> QED BY <2>1, FS_Interval
<1>3. Kept(c, id) \subseteq 1 .. n
    BY <1>1 DEF Kept
<1> QED BY <1>1, <1>2, <1>3, FS_Subset

LEMMA DeletionIsTyped ==
    ASSUME NEW c \in Canvas, NEW id \in Words, NEW d \in Deletions(c, id)
    PROVE  d \in Canvas
<1> DEFINE K == Kept(c, id)
<1>1. PICK h \in Increasing(K) :
          d = [c EXCEPT !.edges = [i \in 1 .. Cardinality(K) |-> c.edges[h[i]]], !.listed = TRUE]
    BY DEF Deletions
<1>2. IsFiniteSet(K)
    BY KeptIsFinite
<1>3. Cardinality(K) \in Nat
    BY <1>2, FS_CardinalityType
<1>4. h \in [1 .. Cardinality(K) -> K] /\ K \subseteq DOMAIN c.edges
    BY <1>1 DEF Increasing, Kept
<1> DEFINE es == [i \in 1 .. Cardinality(K) |-> c.edges[h[i]]]
<1>5. es \in Seq(Edge)
    <2>1. \A i \in 1 .. Cardinality(K) : c.edges[h[i]] \in Edge
        BY <1>4 DEF Canvas
    <2> QED BY <1>3, <2>1
<1>6. d = [c EXCEPT !.edges = es, !.listed = TRUE]
    BY <1>1
<1> HIDE DEF es
<1> QED BY <1>5, <1>6, WithEdgesIsTyped

LEMMA StepBecomes ==
    ASSUME canvas \in Canvas, Next
    PROVE  \E c \in Canvas : Become(c)
<1>1. ASSUME NEW c \in Pastes, Paste(c) PROVE \E d \in Canvas : Become(d)
    BY <1>1, PasteIsTyped DEF Paste
<1>2. ASSUME NEW id \in Words, MoveNode(id) PROVE \E d \in Canvas : Become(d)
    BY <1>2 DEF MoveNode
<1>3. ASSUME NEW id \in Words, NEW columns \in SUBSET Columns, SelectFields(id, columns)
      PROVE  \E d \in Canvas : Become(d)
    <2>1. PICK i \in DOMAIN canvas.nodes : Become(Selecting(canvas, i, columns))
        BY <1>3 DEF SelectFields, Selecting
    <2> QED BY <2>1, SelectingIsTyped
<1>4. ASSUME NEW n \in NewNodes, AddNode(n) PROVE \E d \in Canvas : Become(d)
    BY <1>4, WithNodeIsTyped DEF AddNode
<1>5. ASSUME NEW e \in NewEdges, AddEdge(e) PROVE \E d \in Canvas : Become(d)
    BY <1>5, WithEdgeIsTyped DEF AddEdge
<1>6. ASSUME NEW e \in NewEdges, PatchEdge(e) PROVE \E d \in Canvas : Become(d)
    BY <1>6, PatchedIsTyped DEF PatchEdge
<1>7. ASSUME NEW id \in Words, DeleteEdge(id) PROVE \E d \in Canvas : Become(d)
    BY <1>7, DeletionIsTyped DEF DeleteEdge
<1> QED BY <1>1, <1>2, <1>3, <1>4, <1>5, <1>6, <1>7 DEF Next

(***************************************************************************)
(* Type correctness and canonicity                                         *)
(***************************************************************************)
CanvasInv == TypeOK /\ StaysNormal

LEMMA NormalizedSatisfies ==
    ASSUME NEW c \in Canvas, Acceptable(c), NEW d, d = Normalize(c)
    PROVE  /\ d \in Canvas
           /\ \A i \in DOMAIN d.nodes : d.nodes[i].alias # Blank
           /\ Acceptable(d)
           /\ Normalize(d) = d
<1>1. \A i \in DOMAIN c.nodes : NormalNode(c.nodes[i]).alias # Blank
    BY NormalNodeIsTyped DEF Canvas, Acceptable
<1> QED BY <1>1, NormalizeKeeps, NormalIsAcceptable, NormalizeIsIdempotent

LEMMA CanvasInvHolds == Spec => []CanvasInv
<1>1. Init => CanvasInv
    BY PasteIsTyped, NormalizedSatisfies DEF Init, CanvasInv, TypeOK, StaysNormal
<1>2. CanvasInv /\ [Next]_canvas => CanvasInv'
    <2> SUFFICES ASSUME CanvasInv, [Next]_canvas PROVE CanvasInv'
        OBVIOUS
    <2>1. CASE Next
        <3>1. PICK c \in Canvas : Become(c)
            BY <2>1, StepBecomes DEF CanvasInv, TypeOK
        <3>2. Acceptable(c) /\ canvas' = Normalize(c)
            BY <3>1 DEF Become
        <3>3. /\ canvas' \in Canvas
              /\ \A i \in DOMAIN canvas'.nodes : canvas'.nodes[i].alias # Blank
              /\ Acceptable(canvas')
              /\ Normalize(canvas') = canvas'
            BY <3>2, NormalizedSatisfies
        <3> QED BY <3>3 DEF CanvasInv, TypeOK, StaysNormal
    <2>2. CASE UNCHANGED canvas
        BY <2>2 DEF CanvasInv, TypeOK, StaysNormal
    <2> QED BY <2>1, <2>2
<1> QED BY <1>1, <1>2, PTL DEF Spec

\* The draft is a canvas whose nodes all have aliases, whatever is pasted and edited.
THEOREM TypeCorrect == Spec => []TypeOK
<1>1. CanvasInv => TypeOK
    BY DEF CanvasInv
<1> QED BY <1>1, CanvasInvHolds, PTL

\* The draft text is canonical after every edit, whatever names, fields and edges
\* the edits bring in: every edit ends in a normalization, which is idempotent.
THEOREM DraftStaysNormal == Spec => []StaysNormal
<1>1. CanvasInv => StaysNormal
    BY DEF CanvasInv
<1> QED BY <1>1, CanvasInvHolds, PTL

HIDE CanvasAssumption DEF CanvasAssumption

(***************************************************************************)
(* SQL                                                                     *)
(***************************************************************************)
\* An id stands for one node.
LEMMA NodeIsTheOne ==
    ASSUME NEW c, Acceptable(c), NEW i \in DOMAIN c.nodes
    PROVE  NodeOf(c, c.nodes[i].id) = i
BY DEF Acceptable, NodesDiffer, NodeOf

\* Both ends of an edge are nodes.
LEMMA EndsAreNodes ==
    ASSUME NEW c, Acceptable(c), NEW k \in DOMAIN c.edges
    PROVE  /\ NodeOf(c, c.edges[k].from) \in DOMAIN c.nodes
           /\ NodeOf(c, c.edges[k].to) \in DOMAIN c.nodes
<1>1. PICK i, j \in DOMAIN c.nodes : Joins(c.edges[k], c.nodes[i], c.nodes[j])
    BY DEF Acceptable
<1> QED BY <1>1, NodeIsTheOne DEF Joins

\* Whatever a canvas names in its SQL is the alias of one of its nodes.
LEMMA SourcesAreNodes ==
    ASSUME NEW c \in Canvas, Acceptable(c), NEW k \in 0 .. Len(c.edges)
    PROVE  \E i \in DOMAIN c.nodes : Source(c, k) = Alias(c.nodes[i])
<1>1. CASE k = 0
    <2>1. 1 \in DOMAIN c.nodes
        BY DEF Canvas, Acceptable
    <2> QED BY <1>1, <2>1 DEF Source
<1>2. CASE k # 0
    <2>1. k \in DOMAIN c.edges
        BY <1>2 DEF Canvas
    <2> QED BY <1>2, <2>1, EndsAreNodes DEF Source, AliasOf
<1> QED BY <1>1, <1>2

\* A canvas that has SQL names no alias twice, and its nodes' aliases differ in
\* more than case.
LEMMA SourcesAreToldApart ==
    ASSUME NEW c \in Canvas, Acceptable(c), JoinsInTurn(c),
           NEW j \in 0 .. Len(c.edges), NEW k \in 0 .. Len(c.edges), j < k
    PROVE  Fold[Source(c, j)] # Fold[Source(c, k)]
<1>1. k \in DOMAIN c.edges /\ k # 0
    BY DEF Canvas
<1>2. Source(c, k) \notin Declared(c, k)
    BY <1>1 DEF JoinsInTurn, Source
<1>3. j \in 0 .. k - 1
    BY <1>1 DEF Canvas
<1>4. Source(c, j) # Source(c, k)
    BY <1>2, <1>3 DEF Declared
<1>5. PICK m \in DOMAIN c.nodes : Source(c, j) = Alias(c.nodes[m])
    BY SourcesAreNodes
<1>6. PICK n \in DOMAIN c.nodes : Source(c, k) = Alias(c.nodes[n])
    BY SourcesAreNodes
<1>7. NodesDiffer(c.nodes[m], c.nodes[n])
    BY <1>4, <1>5, <1>6 DEF Acceptable
<1> QED BY <1>5, <1>6, <1>7 DEF NodesDiffer

\* No two tables of a canvas's SQL have names that the database takes for one,
\* although NormalizeGraph compares them exactly: NormalizeCanvasSpec compared the
\* nodes' aliases without regard to case, and each join declares one.
THEOREM NamesAreToldApart == Spec => []TablesAreToldApart
<1>1. CanvasInv => TablesAreToldApart
    <2> SUFFICES ASSUME CanvasInv, Compiles(canvas),
                        NEW j \in 0 .. Len(canvas.edges), NEW k \in 0 .. Len(canvas.edges), j # k
                 PROVE  Fold[Source(canvas, j)] # Fold[Source(canvas, k)]
        BY DEF TablesAreToldApart
    <2>1. canvas \in Canvas /\ Acceptable(canvas) /\ JoinsInTurn(canvas)
        BY DEF CanvasInv, TypeOK, StaysNormal, Compiles
    <2>2. Len(canvas.edges) \in Nat
        BY <2>1 DEF Canvas
    <2>3. j < k \/ k < j
        BY <2>2
    <2> QED BY <2>1, <2>3, SourcesAreToldApart
<1> QED BY <1>1, CanvasInvHolds, PTL

\* A node of a normal canvas shows something exactly if it has fields.
LEMMA ShowsItsFields ==
    ASSUME NEW c \in Canvas, Acceptable(c), Normalize(c) = c, NEW i \in DOMAIN c.nodes
    PROVE  Shown(c.nodes[i]) = {} <=> c.nodes[i].fields = {}
<1>1. c.nodes[i] \in Node /\ c.nodes[i].table # Blank
    BY DEF Canvas, Acceptable
<1>2. c.nodes[i] = NormalNode(c.nodes[i])
    BY NormalizeKeeps
<1>3. c.nodes[i].selected \subseteq c.nodes[i].fields
    BY <1>1, <1>2, NormalNodeIsTyped
<1> QED BY <1>3 DEF Shown

SameButSelection(c, d) ==
    /\ DOMAIN d.nodes = DOMAIN c.nodes
    /\ \A i \in DOMAIN c.nodes :
           [d.nodes[i] EXCEPT !.selected = {}] = [c.nodes[i] EXCEPT !.selected = {}]
    /\ DOMAIN d.edges = DOMAIN c.edges
    /\ \A k \in DOMAIN c.edges :
           d.edges[k].from = c.edges[k].from /\ d.edges[k].to = c.edges[k].to

LEMMA NodesAgree ==
    ASSUME NEW m \in Node, NEW n \in Node,
           [m EXCEPT !.selected = {}] = [n EXCEPT !.selected = {}]
    PROVE  m.id = n.id /\ Alias(m) = Alias(n) /\ m.fields = n.fields
<1>1. m.id = n.id /\ m.alias = n.alias /\ m.table = n.table /\ m.fields = n.fields
    BY DEF Node
<1> QED BY <1>1 DEF Alias

LEMMA SourcesAgree ==
    ASSUME NEW c \in Canvas, NEW d \in Canvas, Acceptable(c), Acceptable(d),
           SameButSelection(c, d)
    PROVE  /\ \A i \in DOMAIN c.nodes :
                  Alias(d.nodes[i]) = Alias(c.nodes[i]) /\ d.nodes[i].fields = c.nodes[i].fields
           /\ \A k \in DOMAIN c.edges : AliasOf(d, d.edges[k].from) = AliasOf(c, c.edges[k].from)
           /\ \A k \in 0 .. Len(c.edges) : Source(d, k) = Source(c, k)
           /\ \A k \in 1 .. Len(c.edges) + 1 : Declared(d, k) = Declared(c, k)
<1>1. \A i \in DOMAIN c.nodes :
          /\ d.nodes[i].id = c.nodes[i].id
          /\ Alias(d.nodes[i]) = Alias(c.nodes[i])
          /\ d.nodes[i].fields = c.nodes[i].fields
    <2> SUFFICES ASSUME NEW i \in DOMAIN c.nodes
                 PROVE  /\ d.nodes[i].id = c.nodes[i].id
                        /\ Alias(d.nodes[i]) = Alias(c.nodes[i])
                        /\ d.nodes[i].fields = c.nodes[i].fields
        OBVIOUS
    <2>1. c.nodes[i] \in Node /\ d.nodes[i] \in Node
        BY DEF SameButSelection, Canvas
    <2>2. [d.nodes[i] EXCEPT !.selected = {}] = [c.nodes[i] EXCEPT !.selected = {}]
        BY DEF SameButSelection
    <2> QED BY <2>1, <2>2, NodesAgree
<1>2. \A i \in DOMAIN c.nodes : NodeOf(c, c.nodes[i].id) = i /\ NodeOf(d, c.nodes[i].id) = i
    BY <1>1, NodeIsTheOne DEF SameButSelection
<1>3. \A i \in DOMAIN c.nodes : AliasOf(d, c.nodes[i].id) = AliasOf(c, c.nodes[i].id)
    BY <1>1, <1>2 DEF AliasOf
<1>4. \A k \in DOMAIN c.edges :
          /\ \E i \in DOMAIN c.nodes : c.edges[k].from = c.nodes[i].id
          /\ \E i \in DOMAIN c.nodes : c.edges[k].to = c.nodes[i].id
    BY DEF Acceptable, Joins
<1>5. \A k \in DOMAIN c.edges :
          /\ AliasOf(d, d.edges[k].from) = AliasOf(c, c.edges[k].from)
          /\ AliasOf(d, d.edges[k].to) = AliasOf(c, c.edges[k].to)
    BY <1>3, <1>4 DEF SameButSelection
<1>6. 1 \in DOMAIN c.nodes /\ DOMAIN c.edges = 1 .. Len(c.edges) /\ Len(c.edges) \in Nat
    BY DEF Canvas, Acceptable
<1>7. ASSUME NEW k \in 0 .. Len(c.edges) PROVE Source(d, k) = Source(c, k)
    <2>1. CASE k = 0
        BY <1>1, <1>6, <2>1 DEF Source
    <2>2. CASE k # 0
        <3>1. k \in DOMAIN c.edges
            BY <1>6, <2>2
        <3> QED BY <1>5, <2>2, <3>1 DEF Source
    <2> QED BY <2>1, <2>2
<1>8. ASSUME NEW k \in 1 .. Len(c.edges) + 1 PROVE Declared(d, k) = Declared(c, k)
    <2>1. \A j \in 0 .. k - 1 : j \in 0 .. Len(c.edges)
        BY <1>6
    <2> QED BY <1>7, <2>1 DEF Declared
<1> QED BY <1>1, <1>5, <1>7, <1>8

\* Whether a canvas has SQL depends on its nodes' aliases and fields and on the
\* ends of its edges only: not on what is selected, since a node that has fields
\* shows some of them whichever are selected.
THEOREM SelectingIsSafe == Spec => SelectionNeverBreaks
<1>1. CanvasInv /\ CanvasInv' /\ Compiles(canvas) /\ SameButSelection(canvas, canvas') => Compiles(canvas')
    <2> SUFFICES ASSUME CanvasInv, CanvasInv', Compiles(canvas), SameButSelection(canvas, canvas')
                 PROVE  Compiles(canvas')
        OBVIOUS
    <2> DEFINE c == canvas
               d == canvas'
    <2>1. /\ c \in Canvas /\ Acceptable(c) /\ Normalize(c) = c
          /\ d \in Canvas /\ Acceptable(d) /\ Normalize(d) = d
        BY DEF CanvasInv, TypeOK, StaysNormal
    <2>2. Compiles(c) /\ SameButSelection(c, d)
        OBVIOUS
    <2> HIDE DEF c, d
    <2>3. /\ DOMAIN c.edges = 1 .. Len(c.edges) /\ Len(c.edges) \in Nat
          /\ DOMAIN d.edges = DOMAIN c.edges /\ Len(d.edges) = Len(c.edges)
          /\ DOMAIN d.nodes = DOMAIN c.nodes
        BY <2>1, <2>2 DEF Canvas, SameButSelection
    <2>4. JoinsInTurn(d)
        <3> SUFFICES ASSUME NEW k \in DOMAIN d.edges
                     PROVE  /\ AliasOf(d, d.edges[k].from) \in Declared(d, k)
                            /\ AliasOf(d, d.edges[k].to) \notin Declared(d, k)
            BY DEF JoinsInTurn
        <3>1. /\ AliasOf(c, c.edges[k].from) \in Declared(c, k)
              /\ AliasOf(c, c.edges[k].to) \notin Declared(c, k)
            BY <2>2, <2>3 DEF Compiles, JoinsInTurn
        <3>2. k \in 1 .. Len(c.edges) + 1 /\ k \in 0 .. Len(c.edges) /\ k # 0
            BY <2>3
        <3>3. Source(d, k) = Source(c, k) /\ Declared(d, k) = Declared(c, k)
            BY <2>1, <2>2, <3>2, SourcesAgree
        <3>4. AliasOf(d, d.edges[k].from) = AliasOf(c, c.edges[k].from)
            BY <2>1, <2>2, <2>3, SourcesAgree
        <3> QED BY <3>1, <3>2, <3>3, <3>4 DEF Source
    <2>5. ASSUME NEW i \in DOMAIN d.nodes, Shown(d.nodes[i]) # {}
          PROVE  Alias(d.nodes[i]) \in Declared(d, Len(d.edges) + 1)
        <3>1. /\ Alias(d.nodes[i]) = Alias(c.nodes[i])
              /\ d.nodes[i].fields = c.nodes[i].fields
              /\ Declared(d, Len(c.edges) + 1) = Declared(c, Len(c.edges) + 1)
            BY <2>1, <2>2, <2>3, SourcesAgree
        <3>2. Shown(c.nodes[i]) # {}
            BY <2>1, <2>3, <2>5, <3>1, ShowsItsFields
        <3> QED BY <2>2, <2>3, <3>1, <3>2 DEF Compiles
    <2>6. Compiles(d)
        BY <2>4, <2>5 DEF Compiles
    <2> QED BY <2>6 DEF d
<1>2. [Next]_canvas /\ CanvasInv /\ CanvasInv' =>
          [ /\ Compiles(canvas)
            /\ DOMAIN canvas'.nodes = DOMAIN canvas.nodes
            /\ \A i \in DOMAIN canvas.nodes :
                   [canvas'.nodes[i] EXCEPT !.selected = {}] = [canvas.nodes[i] EXCEPT !.selected = {}]
            /\ DOMAIN canvas'.edges = DOMAIN canvas.edges
            /\ \A k \in DOMAIN canvas.edges :
                   canvas'.edges[k].from = canvas.edges[k].from /\ canvas'.edges[k].to = canvas.edges[k].to
            => Compiles(canvas') ]_canvas
    BY <1>1 DEF SameButSelection
<1> QED BY <1>2, CanvasInvHolds, PTL DEF Spec, SelectionNeverBreaks

(***************************************************************************)
(* Least and greatest numbers, for arguments by induction                  *)
(***************************************************************************)
LEMMA Least ==
    ASSUME NEW K \in SUBSET Nat, K # {}
    PROVE  \E x \in K : \A y \in K : x <= y
<1> DEFINE R == {ss \in Nat \X Nat : ss[1] < ss[2]}
<1>1. IsWellFoundedOn(R, Nat)
    BY NatLessThanWellFounded DEF OpToRel
<1>2. \E x \in K : \A y \in K : <<y, x>> \notin R
    <2> HIDE DEF R
    <2> QED BY <1>1, WFMin
<1>3. PICK x \in K : \A y \in K : <<y, x>> \notin R
    BY <1>2
<1>4. ASSUME NEW y \in K PROVE x <= y
    <2>1. <<y, x>> \notin R
        BY <1>3
    <2>2. ~ (y < x)
        BY <2>1
    <2> QED BY <2>2
<1> QED BY <1>4

LEMMA Greatest ==
    ASSUME NEW n \in Nat, NEW K \in SUBSET (0 .. n), K # {}
    PROVE  \E x \in K : \A y \in K : y <= x
<1> DEFINE C == {n - x : x \in K}
<1>1. C \in SUBSET Nat /\ C # {}
    <2>1. \A x \in K : x \in 0 .. n
        OBVIOUS
    <2>2. \A x \in K : n - x \in Nat
        BY <2>1
    <2> QED BY <2>2
<1>2. PICK z \in C : \A y \in C : z <= y
    <2> HIDE DEF C
    <2> QED BY <1>1, Least
<1>3. PICK x \in K : z = n - x
    BY <1>2
<1>4. ASSUME NEW y \in K PROVE y <= x
    <2>1. n - y \in C /\ x \in Nat /\ y \in Nat
        OBVIOUS
    <2>2. n - x <= n - y
        BY <1>2, <1>3, <2>1
    <2> QED BY <2>1, <2>2
<1> QED BY <1>4

(***************************************************************************)
(* What is left has one order                                              *)
(***************************************************************************)
LEMMA IncreasingIsOnto ==
    ASSUME NEW K \in SUBSET Nat, IsFiniteSet(K), NEW h \in Increasing(K)
    PROVE  /\ h \in [1 .. Cardinality(K) -> K]
           /\ \A i, j \in 1 .. Cardinality(K) : i < j => h[i] < h[j]
           /\ \A x \in K : \E i \in 1 .. Cardinality(K) : h[i] = x
<1> DEFINE n == Cardinality(K)
<1>1. n \in Nat
    BY FS_CardinalityType
<1>2. h \in [1 .. n -> K] /\ \A i, j \in 1 .. n : i < j => h[i] < h[j]
    BY DEF Increasing
<1> HIDE DEF n
<1>3. \A i, j \in 1 .. n : h[i] = h[j] => i = j
    <2> TAKE i, j \in 1 .. n
    <2>1. h[i] \in Nat /\ h[j] \in Nat
        BY <1>2
    <2> QED BY <1>1, <1>2, <2>1
<1>4. h \in Injection(1 .. n, K)
    BY <1>2, <1>3 DEF Injection, IsInjective
<1>5. IsFiniteSet(1 .. n) /\ Cardinality(1 .. n) = n
    <2>1. 1 \in Int /\ n \in Int
        BY <1>1
    <2>2. IsFiniteSet(1 .. n)
        BY <2>1, FS_Interval
    <2>3. Cardinality(1 .. n) = IF 1 > n THEN 0 ELSE n - 1 + 1
        BY <2>1, FS_Interval
    <2> QED BY <1>1, <2>2, <2>3
<1>6. h \in Surjection(1 .. n, K)
    BY <1>4, <1>5, FS_Injection DEF n
<1> QED BY <1>2, <1>6 DEF Surjection, n

\* Where h and g first differ, the smaller of the two numbers can be nowhere in
\* the other.
LEMMA NotBehind ==
    ASSUME NEW K \in SUBSET Nat, IsFiniteSet(K), NEW h \in Increasing(K), NEW g \in Increasing(K),
           NEW i \in 1 .. Cardinality(K), \A j \in 1 .. i - 1 : h[j] = g[j]
    PROVE  ~ (h[i] < g[i])
<1> DEFINE n == Cardinality(K)
<1>1. n \in Nat /\ i \in 1 .. n
    BY FS_CardinalityType
<1>2. /\ h \in [1 .. n -> K] /\ g \in [1 .. n -> K]
      /\ \A k, j \in 1 .. n : k < j => h[k] < h[j] /\ g[k] < g[j]
    BY IncreasingIsOnto
<1> SUFFICES ASSUME h[i] < g[i] PROVE FALSE
    OBVIOUS
<1>3. PICK j \in 1 .. n : g[j] = h[i]
    BY <1>1, <1>2, IncreasingIsOnto
<1> HIDE DEF n
<1>4. h[i] \in Nat /\ g[i] \in Nat /\ i \in Nat /\ j \in Nat
    <2>1. h[i] \in K /\ g[i] \in K
        BY <1>1, <1>2
    <2>2. h[i] \in Nat /\ g[i] \in Nat
        BY <2>1
    <2>3. 1 .. n \subseteq Nat
        BY <1>1
    <2>4. i \in Nat /\ j \in Nat
        BY <1>1, <2>3
    <2> QED BY <2>2, <2>4
<1>5. CASE j < i
    <2>1. j \in 1 .. i - 1
        BY <1>1, <1>4, <1>5
    <2>2. h[j] = h[i] /\ h[j] < h[i]
        BY <1>1, <1>2, <1>3, <1>5, <2>1
    <2> QED BY <1>4, <2>2
<1>6. CASE j = i
    BY <1>3, <1>4, <1>6
<1>7. CASE i < j
    <2>1. g[i] < h[i]
        BY <1>1, <1>2, <1>3, <1>7
    <2> QED BY <1>4, <2>1
<1> QED BY <1>4, <1>5, <1>6, <1>7

LEMMA OneOrder ==
    ASSUME NEW K \in SUBSET Nat, IsFiniteSet(K), NEW h \in Increasing(K), NEW g \in Increasing(K)
    PROVE  h = g
<1> DEFINE n == Cardinality(K)
           apart == {i \in 1 .. n : h[i] # g[i]}
<1>1. n \in Nat
    BY FS_CardinalityType
<1>2. h \in [1 .. n -> K] /\ g \in [1 .. n -> K]
    BY IncreasingIsOnto
<1>3. apart = {}
    <2> SUFFICES ASSUME apart # {} PROVE FALSE
        OBVIOUS
    <2>1. PICK i \in apart : \A j \in apart : i <= j
        <3>1. apart \in SUBSET Nat
            BY <1>1
        <3> HIDE DEF apart
        <3> QED BY <3>1, Least
    <2>2. i \in 1 .. n /\ h[i] # g[i] /\ h[i] \in Nat /\ g[i] \in Nat
        BY <1>2
    <2>3. ASSUME NEW j \in 1 .. i - 1 PROVE h[j] = g[j]
        <3>1. j \in 1 .. n /\ ~ (i <= j)
            BY <1>1, <2>2
        <3>2. j \notin apart
            BY <2>1, <3>1
        <3> QED BY <3>1, <3>2
    <2>4. ~ (h[i] < g[i]) /\ ~ (g[i] < h[i])
        BY <2>2, <2>3, NotBehind
    <2> QED BY <2>2, <2>4
<1>4. \A i \in 1 .. n : h[i] = g[i]
    BY <1>3
<1> HIDE DEF n, apart
<1>5. h = [i \in 1 .. n |-> h[i]] /\ g = [i \in 1 .. n |-> g[i]]
    BY <1>2
<1>6. [i \in 1 .. n |-> h[i]] = [i \in 1 .. n |-> g[i]]
    BY <1>4
<1> QED BY <1>5, <1>6

\* The first m numbers of K, in order.
Firsts(K, m) ==
    {h \in [1 .. m -> K] :
        /\ \A i, j \in 1 .. m : i < j => h[i] < h[j]
        /\ \A x \in K : (\A i \in 1 .. m : h[i] # x) => \A i \in 1 .. m : h[i] < x}

LEMMA FirstsGrow ==
    ASSUME NEW K \in SUBSET Nat, IsFiniteSet(K), NEW m \in Nat, m < Cardinality(K),
           NEW h \in Firsts(K, m)
    PROVE  Firsts(K, m + 1) # {}
<1> DEFINE rest == {x \in K : \A i \in 1 .. m : h[i] # x}
<1>1. /\ h \in [1 .. m -> K]
      /\ \A i, j \in 1 .. m : i < j => h[i] < h[j]
      /\ \A x \in rest, i \in 1 .. m : h[i] < x
    BY DEF Firsts
<1>2. rest # {}
    <2> SUFFICES ASSUME \A x \in K : \E i \in 1 .. m : h[i] = x PROVE FALSE
        OBVIOUS
    <2>1. h \in Surjection(1 .. m, K)
        BY <1>1 DEF Surjection
    <2>2. IsFiniteSet(1 .. m) /\ Cardinality(1 .. m) = m
        BY FS_Interval
    <2>3. Cardinality(K) <= Cardinality(1 .. m) /\ Cardinality(K) \in Nat
        BY <2>1, <2>2, FS_Surjection, FS_CardinalityType
    <2> QED BY <2>2, <2>3
<1>3. rest \in SUBSET Nat
    OBVIOUS
<1>4. PICK z \in rest : \A y \in rest : z <= y
    <2> HIDE DEF rest
    <2> QED BY <1>2, <1>3, Least
<1>5. z \in K /\ z \in Nat /\ \A i \in 1 .. m : h[i] < z
    BY <1>1
<1> DEFINE g == [i \in 1 .. m + 1 |-> IF i = m + 1 THEN z ELSE h[i]]
<1>6. /\ g[m + 1] = z
      /\ \A i \in 1 .. m : g[i] = h[i] /\ i \in 1 .. m + 1 /\ i < m + 1
      /\ \A i \in 1 .. m + 1 : i \in 1 .. m \/ i = m + 1
    OBVIOUS
<1>7. g \in [1 .. m + 1 -> K]
    BY <1>1, <1>5
<1> HIDE DEF g
<1>8. ASSUME NEW i \in 1 .. m + 1, NEW j \in 1 .. m + 1, i < j PROVE g[i] < g[j]
    <2>1. i \in 1 .. m
        BY <1>6, <1>8
    <2> QED BY <1>1, <1>5, <1>6, <1>8, <2>1
<1>9. ASSUME NEW x \in K, \A i \in 1 .. m + 1 : g[i] # x, NEW i \in 1 .. m + 1 PROVE g[i] < x
    <2>1. m + 1 \in 1 .. m + 1
        OBVIOUS
    <2>2. x \in rest /\ x # z /\ x \in Nat
        BY <1>6, <1>9, <2>1
    <2>3. z < x
        BY <1>4, <1>5, <2>2
    <2>4. CASE i \in 1 .. m
        BY <1>1, <1>6, <2>2, <2>4
    <2> QED BY <1>6, <2>3, <2>4
<1> QED BY <1>7, <1>8, <1>9 DEF Firsts

LEMMA AnOrder ==
    ASSUME NEW K \in SUBSET Nat, IsFiniteSet(K)
    PROVE  Increasing(K) # {}
<1> DEFINE n == Cardinality(K)
           begun == {m \in 0 .. n : Firsts(K, m) # {}}
<1>1. n \in Nat
    BY FS_CardinalityType
<1>2. 0 \in begun
    <2>1. [i \in 1 .. 0 |-> 1] \in Firsts(K, 0)
        BY DEF Firsts
    <2> QED BY <1>1, <2>1
<1>3. PICK m \in begun : \A l \in begun : l <= m
    <2>1. begun \in SUBSET (0 .. n) /\ begun # {}
        BY <1>2
    <2> HIDE DEF begun, n
    <2> QED BY <1>1, <2>1, Greatest
<1>4. m \in 0 .. n /\ Firsts(K, m) # {}
    OBVIOUS
<1>5. ASSUME m < n PROVE FALSE
    <2>1. Firsts(K, m + 1) # {}
        BY <1>1, <1>4, <1>5, FirstsGrow
    <2>2. m + 1 \in 0 .. n /\ ~ (m + 1 <= m)
        BY <1>1, <1>4, <1>5
    <2> QED BY <1>3, <2>1, <2>2
<1>6. m = n
    BY <1>1, <1>4, <1>5
<1> QED BY <1>4, <1>6 DEF Firsts, Increasing

(***************************************************************************)
(* Deleting what was added                                                 *)
(***************************************************************************)
LEMMA IncreasingInterval ==
    ASSUME NEW n \in Nat
    PROVE  /\ Cardinality(1 .. n) = n
           /\ Increasing(1 .. n) = {[i \in 1 .. n |-> i]}
<1>1. Cardinality(1 .. n) = n
    BY FS_Interval
<1>2. Increasing(1 .. n) =
          {h \in [1 .. n -> 1 .. n] : \A i, j \in 1 .. n : i < j => h[i] < h[j]}
    BY <1>1 DEF Increasing
<1>3. [i \in 1 .. n |-> i] \in Increasing(1 .. n)
    BY <1>2
<1>4. ASSUME NEW h \in Increasing(1 .. n) PROVE h = [i \in 1 .. n |-> i]
    <2>1. IsFiniteSet(1 .. n) /\ (1 .. n) \in SUBSET Nat
        BY FS_Interval
    <2> QED BY <1>3, <2>1, OneOrder
<1> QED BY <1>1, <1>3, <1>4

LEMMA AddedIsLast ==
    ASSUME NEW c \in Canvas, Normalize(c) = c, Acceptable(c),
           NEW e \in Edge, Acceptable(WithEdge(c, e)),
           NEW d, d = Normalize(WithEdge(c, e))
    PROVE  d \in Canvas /\ d.nodes = c.nodes /\ d.edges = Append(c.edges, e)
<1> DEFINE w == WithEdge(c, e)
<1>1. w \in Canvas /\ w.nodes = c.nodes /\ w.edges = Append(c.edges, e)
    BY WithEdgeIsTyped DEF WithEdge, Canvas
<1>2. /\ d \in Canvas /\ DOMAIN d.nodes = DOMAIN w.nodes
      /\ \A i \in DOMAIN w.nodes : d.nodes[i] = NormalNode(w.nodes[i])
      /\ d.edges = w.edges
    BY <1>1, NormalizeKeeps
<1>3. \A i \in DOMAIN c.nodes : c.nodes[i] = NormalNode(c.nodes[i])
    BY NormalizeKeeps
<1> HIDE DEF w
<1>4. DOMAIN d.nodes = DOMAIN c.nodes /\ \A i \in DOMAIN c.nodes : d.nodes[i] = c.nodes[i]
    BY <1>1, <1>2, <1>3
<1>5. d.nodes \in Seq(Node) /\ c.nodes \in Seq(Node)
    BY <1>2 DEF Canvas
<1>6. d.nodes = c.nodes
    BY <1>4, <1>5
<1> QED BY <1>1, <1>2, <1>6

\* Only the edge that was added has an id like it, so the deletion takes it and
\* leaves the others where they were.
LEMMA OnlyAddedGoes ==
    ASSUME NEW c \in Canvas, NEW e \in Edge, IsNewEdge(c, e),
           NEW d \in Canvas, d.nodes = c.nodes, d.edges = Append(c.edges, e)
    PROVE  Kept(d, e.id) = 1 .. Len(c.edges)
<1> DEFINE n == Len(c.edges)
<1>1. c.edges \in Seq(Edge) /\ n \in Nat /\ DOMAIN c.edges = 1 .. n
    BY DEF Canvas
<1>2. /\ DOMAIN d.edges = 1 .. n + 1
      /\ d.edges[n + 1] = e
      /\ \A i \in 1 .. n : d.edges[i] = c.edges[i]
    BY <1>1
<1>3. e.id # Blank /\ \A i \in 1 .. n : c.edges[i].id # Blank => Fold[c.edges[i].id] # Fold[e.id]
    BY <1>1 DEF IsNewEdge
<1>4. n + 1 \notin Kept(d, e.id)
    BY <1>2, <1>3 DEF Kept
<1>5. \A i \in 1 .. n : i \in Kept(d, e.id)
    BY <1>1, <1>2, <1>3 DEF Kept
<1>6. Kept(d, e.id) \subseteq 1 .. n + 1
    BY <1>2 DEF Kept
<1>7. \A i \in 1 .. n + 1 : i \in 1 .. n \/ i = n + 1
    BY <1>1
<1> QED BY <1>4, <1>5, <1>6, <1>7

LEMMA AddThenDelete ==
    ASSUME NEW c \in Canvas, Normalize(c) = c, Acceptable(c),
           NEW e \in Edge, IsNewEdge(c, e), Acceptable(WithEdge(c, e))
    PROVE  Deletions(Normalize(WithEdge(c, e)), e.id) = {[c EXCEPT !.listed = TRUE]}
<1> DEFINE d == Normalize(WithEdge(c, e))
           n == Len(c.edges)
<1>1. d \in Canvas /\ d.nodes = c.nodes /\ d.edges = Append(c.edges, e)
    BY AddedIsLast
<1> HIDE DEF d
<1>2. c.edges \in Seq(Edge) /\ n \in Nat /\ DOMAIN c.edges = 1 .. n
    BY DEF Canvas
<1>3. Kept(d, e.id) = 1 .. n
    BY <1>1, OnlyAddedGoes
<1>4. Cardinality(1 .. n) = n /\ Increasing(1 .. n) = {[i \in 1 .. n |-> i]}
    BY <1>2, IncreasingInterval
<1> DEFINE id == [i \in 1 .. n |-> i]
<1>5. Deletions(d, e.id) =
        {[d EXCEPT !.edges = [i \in 1 .. n |-> d.edges[id[i]]], !.listed = TRUE]}
    <2>1. Cardinality(Kept(d, e.id)) = n /\ Increasing(Kept(d, e.id)) = {id}
        BY <1>3, <1>4
    <2> HIDE DEF n, id
    <2> QED BY <2>1, Zenon DEF Deletions
<1> DEFINE es == [i \in 1 .. n |-> d.edges[id[i]]]
<1>6. es = c.edges
    <2>1. es \in Seq(Edge) /\ Len(es) = n
        BY <1>1, <1>2
    <2>2. \A i \in 1 .. n : es[i] = c.edges[i]
        BY <1>1, <1>2
    <2> HIDE DEF es
    <2> QED BY <1>2, <2>1, <2>2
<1>7. [d EXCEPT !.edges = c.edges, !.listed = TRUE] = [c EXCEPT !.listed = TRUE]
    <2>1. c \in [nodes : Seq(Node), edges : Seq(Edge), listed : BOOLEAN]
          /\ d \in [nodes : Seq(Node), edges : Seq(Edge), listed : BOOLEAN]
        BY <1>1 DEF Canvas
    <2> QED BY <1>1, <2>1
<1> QED BY <1>5, <1>6, <1>7 DEF d

\* Adding an edge and deleting it by its id gives back the canvas as it was, except
\* that it has a list of edges, if an empty one: the addition makes sure that no other
\* edge has the id in any case, the normalization in between changes nothing of a
\* normal canvas, and the deletion keeps the order.
THEOREM AddingCanBeUndone == Spec => []DeletingUndoesAdding
<1> USE CanvasAssumption DEF CanvasAssumption
<1>1. CanvasInv => DeletingUndoesAdding
    <2> SUFFICES ASSUME CanvasInv, NEW e \in NewEdges, IsNewEdge(canvas, e),
                        Acceptable(WithEdge(canvas, e))
                 PROVE  LET afterwards == Deletions(Normalize(WithEdge(canvas, e)), e.id)
                        IN  /\ canvas.listed => afterwards = {canvas}
                            /\ ~ canvas.listed => afterwards = {[canvas EXCEPT !.listed = TRUE]}
        BY Zenon DEF DeletingUndoesAdding
    <2>1. canvas \in Canvas /\ Acceptable(canvas) /\ Normalize(canvas) = canvas /\ e \in Edge
        BY DEF CanvasInv, TypeOK, StaysNormal
    <2>2. Deletions(Normalize(WithEdge(canvas, e)), e.id) = {[canvas EXCEPT !.listed = TRUE]}
        BY <2>1, AddThenDelete
    <2>3. canvas.listed => [canvas EXCEPT !.listed = TRUE] = canvas
        BY <2>1 DEF Canvas
    <2> QED BY <2>2, <2>3
<1> QED BY <1>1, CanvasInvHolds, PTL

(***************************************************************************)
(* Edits that cannot fail                                                  *)
(***************************************************************************)
LEMMA SelectingIsAcceptable ==
    ASSUME NEW c \in Canvas, Acceptable(c), NEW i \in DOMAIN c.nodes, NEW columns \in SUBSET Columns
    PROVE  Acceptable(Selecting(c, i, columns))
<1> DEFINE d == Selecting(c, i, columns)
<1>1. d \in Canvas /\ d.edges = c.edges
    BY SelectingIsTyped DEF Selecting, Canvas
<1>2. /\ DOMAIN d.nodes = DOMAIN c.nodes
      /\ d.nodes[i] = [c.nodes[i] EXCEPT !.selected = columns]
      /\ \A j \in DOMAIN c.nodes : j # i => d.nodes[j] = c.nodes[j]
    BY DEF Selecting, Canvas
<1>3. \A j \in DOMAIN c.nodes : c.nodes[j] \in Node
    BY DEF Canvas
<1> HIDE DEF d
<1>4. \A j \in DOMAIN c.nodes :
          /\ d.nodes[j].id = c.nodes[j].id
          /\ d.nodes[j].table = c.nodes[j].table
          /\ d.nodes[j].alias = c.nodes[j].alias
          /\ d.nodes[j].fields = c.nodes[j].fields
    BY <1>2, <1>3 DEF Node
<1>5. \A j, k \in DOMAIN c.nodes :
          NodesDiffer(c.nodes[j], c.nodes[k]) => NodesDiffer(d.nodes[j], d.nodes[k])
    BY <1>4 DEF NodesDiffer, Alias
<1>6. \A k \in DOMAIN c.edges : \A j, l \in DOMAIN c.nodes :
          Joins(c.edges[k], c.nodes[j], c.nodes[l]) => Joins(d.edges[k], d.nodes[j], d.nodes[l])
    BY <1>1, <1>4 DEF Joins, HasField
<1>7. d.nodes # << >>
    BY <1>1, <1>2 DEF Canvas
<1>8. \A j \in DOMAIN d.nodes : d.nodes[j].table # Blank
    BY <1>2, <1>4 DEF Acceptable
<1>9. \A j, k \in DOMAIN d.nodes : j # k => NodesDiffer(d.nodes[j], d.nodes[k])
    BY <1>2, <1>5 DEF Acceptable
<1>10. \A k \in DOMAIN d.edges :
           /\ d.edges[k].joinType \in KnownJoinTypes
           /\ \E j, l \in DOMAIN d.nodes : Joins(d.edges[k], d.nodes[j], d.nodes[l])
    BY <1>1, <1>2, <1>6 DEF Acceptable
<1>11. \A j, k \in DOMAIN d.edges :
           j # k => d.edges[j].id = Blank \/ d.edges[j].id # d.edges[k].id
    BY <1>1 DEF Acceptable
<1> QED BY <1>7, <1>8, <1>9, <1>10, <1>11 DEF Acceptable, d

\* A deletion has one outcome: the canvas with the edges of Kept, in their order.
LEMMA DeletionIsTheOne ==
    ASSUME NEW c \in Canvas, NEW id \in Words
    PROVE  \E d \in Canvas, h \in Increasing(Kept(c, id)) :
               /\ Deletions(c, id) = {d}
               /\ d.nodes = c.nodes
               /\ DOMAIN d.edges = 1 .. Cardinality(Kept(c, id))
               /\ \A i \in DOMAIN d.edges : d.edges[i] = c.edges[h[i]]
<1> DEFINE K == Kept(c, id)
           n == Cardinality(K)
<1>1. IsFiniteSet(K) /\ K \in SUBSET Nat
    BY KeptIsFinite
<1>2. n \in Nat
    BY <1>1, FS_CardinalityType
<1> HIDE DEF K, n
<1>3. PICK h \in Increasing(K) : TRUE
    BY <1>1, AnOrder
<1>4. Increasing(K) = {h}
    BY <1>1, <1>3, OneOrder
<1> DEFINE es == [i \in 1 .. n |-> c.edges[h[i]]]
           d == [c EXCEPT !.edges = es, !.listed = TRUE]
<1>5. Deletions(c, id) = {d}
    <2> HIDE DEF es
    <2>1. Deletions(c, id) =
              {[c EXCEPT !.edges = [i \in 1 .. n |-> c.edges[g[i]]], !.listed = TRUE] :
                  g \in Increasing(K)}
        BY DEF Deletions, K, n
    <2> QED BY <1>4, <2>1, Zenon DEF es
<1>6. d \in Canvas
    BY <1>5, DeletionIsTyped
<1>7. d.nodes = c.nodes /\ d.edges = es
    BY DEF Canvas
<1>8. DOMAIN d.edges = 1 .. n /\ \A i \in 1 .. n : d.edges[i] = c.edges[h[i]]
    BY <1>7
<1> HIDE DEF d
<1> QED BY <1>3, <1>5, <1>6, <1>7, <1>8 DEF K, n

LEMMA DeletionIsAcceptable ==
    ASSUME NEW c \in Canvas, Acceptable(c), Normalize(c) = c, NEW id \in Words
    PROVE  \E d \in Deletions(c, id) :
               /\ Deletions(c, id) = {d}
               /\ Acceptable(d) /\ Normalize(d) = d
               /\ {d.edges[i] : i \in DOMAIN d.edges} = {c.edges[k] : k \in Kept(c, id)}
<1>1. PICK d \in Canvas, h \in Increasing(Kept(c, id)) :
          /\ Deletions(c, id) = {d}
          /\ d.nodes = c.nodes
          /\ DOMAIN d.edges = 1 .. Cardinality(Kept(c, id))
          /\ \A i \in DOMAIN d.edges : d.edges[i] = c.edges[h[i]]
    BY DeletionIsTheOne
<1> DEFINE K == Kept(c, id)
           n == Cardinality(K)
<1>2. IsFiniteSet(K) /\ K \in SUBSET Nat /\ K \subseteq DOMAIN c.edges
    BY KeptIsFinite
<1>3. /\ h \in [1 .. n -> K]
      /\ \A i, j \in 1 .. n : i < j => h[i] < h[j]
      /\ \A x \in K : \E i \in 1 .. n : h[i] = x
    BY <1>2, IncreasingIsOnto
<1>4. n \in Nat
    BY <1>2, FS_CardinalityType
<1>5. DOMAIN d.edges = 1 .. n /\ \A i \in 1 .. n : d.edges[i] = c.edges[h[i]]
    BY <1>1
<1> HIDE DEF K, n
<1>6. \A i \in 1 .. n : h[i] \in DOMAIN c.edges /\ h[i] \in Nat
    BY <1>2, <1>3
<1>7. ASSUME NEW i \in 1 .. n, NEW j \in 1 .. n, i # j
      PROVE  h[i] # h[j]
    <2>1. i < j \/ j < i
        BY <1>4, <1>7
    <2>2. h[i] < h[j] \/ h[j] < h[i]
        BY <1>3, <2>1
    <2> QED BY <1>6, <2>2
<1>8. \A i, j \in DOMAIN d.edges : i # j => d.edges[i].id = Blank \/ d.edges[i].id # d.edges[j].id
    BY <1>5, <1>6, <1>7 DEF Acceptable
<1>9. \A k \in DOMAIN d.edges :
          /\ d.edges[k].joinType \in KnownJoinTypes
          /\ \E i, j \in DOMAIN d.nodes : Joins(d.edges[k], d.nodes[i], d.nodes[j])
    BY <1>1, <1>5, <1>6 DEF Acceptable
<1>10. Acceptable(d)
    BY <1>1, <1>8, <1>9 DEF Acceptable
<1>11. Normalize(d) = d
    <2>1. Normalize(c).nodes = [i \in DOMAIN c.nodes |-> NormalNode(c.nodes[i])]
        BY DEF Normalize, Canvas
    <2>2. Normalize(d) = [d EXCEPT !.nodes = c.nodes]
        BY <1>1, <2>1 DEF Normalize
    <2> QED BY <1>1, <2>2 DEF Canvas
<1>12. {d.edges[i] : i \in DOMAIN d.edges} = {c.edges[k] : k \in K}
    BY <1>3, <1>5
<1> QED BY <1>1, <1>10, <1>11, <1>12 DEF K

\* Selecting fields of a node never fails, and a deletion has one outcome, which is
\* normal already: exactly the edges with the id are gone.
EditsSucceed ==
    /\ \A i \in DOMAIN canvas.nodes, columns \in SUBSET Columns :
           Acceptable(Selecting(canvas, i, columns))
    /\ \A id \in Words : \E d \in Deletions(canvas, id) :
           /\ Deletions(canvas, id) = {d}
           /\ Acceptable(d) /\ Normalize(d) = d
           /\ {d.edges[i] : i \in DOMAIN d.edges} = {canvas.edges[k] : k \in Kept(canvas, id)}

\* The errors that DeleteCanvasEdge and SetCanvasNodeSelectedFields pass on from the closing
\* normalization never happen: these edits leave a normal canvas acceptable.
THEOREM EditsNeverFail == Spec => []EditsSucceed
<1>1. CanvasInv => EditsSucceed
    BY SelectingIsAcceptable, DeletionIsAcceptable
       DEF CanvasInv, TypeOK, StaysNormal, EditsSucceed
<1> QED BY <1>1, CanvasInvHolds, PTL

(***************************************************************************)
(* Trees and the orders of their joins                                     *)
(***************************************************************************)
Ids(c) == {c.nodes[i].id : i \in DOMAIN c.nodes}

Root(c) == c.nodes[1].id

From(c, k) == c.edges[k].from

To(c, k) == c.edges[k].to

Closed(c, S) == Root(c) \in S /\ \A k \in DOMAIN c.edges : From(c, k) \in S => To(c, k) \in S

LEMMA ReachedIsTheLeast ==
    ASSUME NEW c
    PROVE  Reached(c) = {id \in Ids(c) : \A S \in SUBSET Ids(c) : Closed(c, S) => id \in S}
BY DEF Reached, Ids, Root, From, To, Closed

LEMMA EdgesJoinIds ==
    ASSUME NEW c \in Canvas, Acceptable(c)
    PROVE  /\ Len(c.edges) \in Nat /\ DOMAIN c.edges = 1 .. Len(c.edges)
           /\ 1 \in DOMAIN c.nodes /\ Root(c) \in Ids(c)
           /\ \A k \in DOMAIN c.edges : From(c, k) \in Ids(c) /\ To(c, k) \in Ids(c)
<1>1. Len(c.edges) \in Nat /\ DOMAIN c.edges = 1 .. Len(c.edges) /\ 1 \in DOMAIN c.nodes
    BY DEF Canvas, Acceptable
<1>2. ASSUME NEW k \in DOMAIN c.edges PROVE From(c, k) \in Ids(c) /\ To(c, k) \in Ids(c)
    <2>1. PICK i, j \in DOMAIN c.nodes : Joins(c.edges[k], c.nodes[i], c.nodes[j])
        BY DEF Acceptable
    <2> QED BY <2>1 DEF Joins, From, To, Ids
<1> QED BY <1>1, <1>2 DEF Root, Ids

\* Ids and aliases name the same nodes.
LEMMA AliasesAreIds ==
    ASSUME NEW c, Acceptable(c)
    PROVE  /\ \A i \in DOMAIN c.nodes : AliasOf(c, c.nodes[i].id) = Alias(c.nodes[i])
           /\ \A x, y \in Ids(c) : AliasOf(c, x) = AliasOf(c, y) => x = y
<1>1. \A i \in DOMAIN c.nodes : AliasOf(c, c.nodes[i].id) = Alias(c.nodes[i])
    BY NodeIsTheOne DEF AliasOf
<1>2. \A i, j \in DOMAIN c.nodes : Alias(c.nodes[i]) = Alias(c.nodes[j]) => i = j
    BY DEF Acceptable, NodesDiffer
<1> QED BY <1>1, <1>2 DEF Ids

\* The nodes joined before place k, when edge q[j] is the j-th join.
Seen(c, q, k) == {Root(c)} \cup {To(c, q[j]) : j \in 1 .. k - 1}

LEMMA SeenAfter ==
    ASSUME NEW c, NEW q, NEW m \in Nat
    PROVE  Seen(c, q, m + 1) = {Root(c)} \cup {To(c, q[j]) : j \in 1 .. m}
<1>1. 1 .. m + 1 - 1 = 1 .. m
    OBVIOUS
<1> QED BY <1>1 DEF Seen

\* The canvas with its edges in another order.
Ordered(c, q) == [c EXCEPT !.edges = [i \in DOMAIN c.edges |-> c.edges[q[i]]]]

\* Whether the joins can be made in an order is a matter of ids only.
LEMMA OrderedCompiles ==
    ASSUME NEW c \in Canvas, Acceptable(c), NEW q \in [DOMAIN c.edges -> DOMAIN c.edges]
    PROVE  Compiles(Ordered(c, q)) <=>
               /\ \A k \in DOMAIN c.edges :
                      From(c, q[k]) \in Seen(c, q, k) /\ To(c, q[k]) \notin Seen(c, q, k)
               /\ \A i \in DOMAIN c.nodes :
                      Shown(c.nodes[i]) # {} => c.nodes[i].id \in Seen(c, q, Len(c.edges) + 1)
<1> DEFINE d == Ordered(c, q)
           n == Len(c.edges)
<1>1. n \in Nat /\ DOMAIN c.edges = 1 .. n /\ Root(c) \in Ids(c) /\ 1 \in DOMAIN c.nodes
    BY EdgesJoinIds
<1>2. d.nodes = c.nodes /\ d.edges = [i \in 1 .. n |-> c.edges[q[i]]]
    BY <1>1 DEF Ordered, Canvas
<1>3. /\ DOMAIN d.edges = 1 .. n /\ Len(d.edges) = n
      /\ \A k \in 1 .. n : d.edges[k] = c.edges[q[k]]
    BY <1>1, <1>2
<1> HIDE DEF d, n
<1>4. \A x : AliasOf(d, x) = AliasOf(c, x)
    BY <1>2 DEF AliasOf, NodeOf
<1>5. Source(d, 0) = AliasOf(c, Root(c))
    BY <1>1, <1>2, AliasesAreIds DEF Source, Root
<1>6. \A k \in 1 .. n : Source(d, k) = AliasOf(c, To(c, q[k]))
    BY <1>3, <1>4 DEF Source, To
<1>7. ASSUME NEW k \in 1 .. n + 1 PROVE Declared(d, k) = {AliasOf(c, x) : x \in Seen(c, q, k)}
    <2>1. 0 .. k - 1 = {0} \cup (1 .. k - 1) /\ \A j \in 1 .. k - 1 : j \in 1 .. n
        BY <1>1
    <2> QED BY <1>5, <1>6, <2>1 DEF Declared, Seen
<1>8. ASSUME NEW k \in 1 .. n + 1 PROVE Seen(c, q, k) \subseteq Ids(c)
    <2>1. \A j \in 1 .. k - 1 : j \in 1 .. n
        BY <1>1
    <2>2. \A j \in 1 .. n : To(c, q[j]) \in Ids(c)
        BY <1>1, EdgesJoinIds
    <2> QED BY <1>1, <2>1, <2>2 DEF Seen
<1>9. ASSUME NEW k \in 1 .. n + 1, NEW x \in Ids(c)
      PROVE  AliasOf(c, x) \in Declared(d, k) <=> x \in Seen(c, q, k)
    BY <1>7, <1>8, AliasesAreIds
<1>10. \A k \in 1 .. n : /\ From(c, q[k]) \in Ids(c) /\ To(c, q[k]) \in Ids(c)
                         /\ d.edges[k].from = From(c, q[k]) /\ d.edges[k].to = To(c, q[k])
                         /\ k \in 1 .. n + 1
    <2>1. \A k \in 1 .. n : q[k] \in DOMAIN c.edges
        BY <1>1
    <2>2. \A k \in 1 .. n : From(c, q[k]) \in Ids(c) /\ To(c, q[k]) \in Ids(c)
        BY <2>1, EdgesJoinIds
    <2>3. \A k \in 1 .. n : d.edges[k].from = From(c, q[k]) /\ d.edges[k].to = To(c, q[k])
        BY <1>3 DEF From, To
    <2>4. \A k \in 1 .. n : k \in 1 .. n + 1
        BY <1>1
    <2> QED BY <2>2, <2>3, <2>4
<1>11. JoinsInTurn(d) <=> \A k \in 1 .. n : From(c, q[k]) \in Seen(c, q, k) /\ To(c, q[k]) \notin Seen(c, q, k)
    BY <1>3, <1>4, <1>9, <1>10 DEF JoinsInTurn
<1>12. n + 1 \in 1 .. n + 1
    BY <1>1
<1>13. \A i \in DOMAIN c.nodes : Alias(c.nodes[i]) \in Declared(d, n + 1) <=> c.nodes[i].id \in Seen(c, q, n + 1)
    BY <1>9, <1>12, AliasesAreIds DEF Ids
<1> QED BY <1>1, <1>2, <1>3, <1>11, <1>13 DEF Compiles, d, n

\* Joins that can be made in turn stay among what is reached.
LEMMA SeenIsReached ==
    ASSUME NEW c \in Canvas, Acceptable(c), NEW q \in [DOMAIN c.edges -> DOMAIN c.edges],
           \A k \in DOMAIN c.edges : From(c, q[k]) \in Seen(c, q, k),
           NEW k \in 1 .. Len(c.edges) + 1
    PROVE  Seen(c, q, k) \subseteq Reached(c)
<1> DEFINE n == Len(c.edges)
<1>1. /\ n \in Nat /\ DOMAIN c.edges = 1 .. n /\ Root(c) \in Ids(c)
      /\ \A j \in 1 .. n : To(c, q[j]) \in Ids(c)
      /\ \A j \in 1 .. n : From(c, q[j]) \in Seen(c, q, j)
      /\ q \in [1 .. n -> 1 .. n] /\ k \in 1 .. n + 1
    BY EdgesJoinIds
<1> HIDE DEF n
<1>2. ASSUME NEW S \in SUBSET Ids(c), Closed(c, S), NEW j \in 1 .. n PROVE To(c, q[j]) \in S
    <2> DEFINE outside == {i \in 1 .. n : To(c, q[i]) \notin S}
    <2> SUFFICES ASSUME outside # {} PROVE FALSE
        OBVIOUS
    <2>1. PICK i \in outside : \A h \in outside : i <= h
        <3>1. outside \in SUBSET Nat
            BY <1>1
        <3> HIDE DEF outside
        <3> QED BY <3>1, Least
    <2>2. i \in 1 .. n /\ To(c, q[i]) \notin S
        OBVIOUS
    <2>3. ASSUME NEW h \in 1 .. i - 1 PROVE To(c, q[h]) \in S
        <3>1. h \in 1 .. n /\ ~ (i <= h)
            <4>1. n \in Nat
                BY <1>1
            <4> QED BY <2>2, <4>1
        <3>2. h \notin outside
            BY <2>1, <3>1
        <3> QED BY <3>1, <3>2
    <2>4. Root(c) \in S
        BY <1>2 DEF Closed
    <2>5. From(c, q[i]) \in S
        <3>1. Seen(c, q, i) \subseteq S
            BY <2>3, <2>4 DEF Seen
        <3> QED BY <1>1, <2>2, <3>1
    <2>6. To(c, q[i]) \in S
        BY <1>1, <1>2, <2>2, <2>5 DEF Closed
    <2> QED BY <2>2, <2>6
<1>3. \A j \in 1 .. k - 1 : j \in 1 .. n
    BY <1>1
<1>4. \A S \in SUBSET Ids(c) : Closed(c, S) => Seen(c, q, k) \subseteq S
    BY <1>2, <1>3 DEF Seen, Closed
<1>5. Seen(c, q, k) \subseteq Ids(c)
    BY <1>1, <1>3 DEF Seen
<1> QED BY <1>4, <1>5, ReachedIsTheLeast

LEMMA OrderMakesTree ==
    ASSUME NEW c \in Canvas, Acceptable(c), NEW q \in [DOMAIN c.edges -> DOMAIN c.edges],
           \A i, j \in DOMAIN c.edges : q[i] = q[j] => i = j,
           Compiles(Ordered(c, q))
    PROVE  IsTree(c)
<1> DEFINE n == Len(c.edges)
<1>1. /\ n \in Nat /\ DOMAIN c.edges = 1 .. n
      /\ q \in [1 .. n -> 1 .. n] /\ \A i, j \in 1 .. n : q[i] = q[j] => i = j
    BY EdgesJoinIds
<1>2. /\ \A k \in 1 .. n : From(c, q[k]) \in Seen(c, q, k) /\ To(c, q[k]) \notin Seen(c, q, k)
      /\ \A i \in DOMAIN c.nodes : Shown(c.nodes[i]) # {} => c.nodes[i].id \in Seen(c, q, n + 1)
    BY <1>1, OrderedCompiles
<1>3. \A k \in 1 .. n + 1 : Seen(c, q, k) \subseteq Reached(c)
    BY <1>1, <1>2, SeenIsReached
<1> HIDE DEF n
<1>4. \A k \in 1 .. n : \E a \in 1 .. n : q[a] = k
    <2>1. q \in Injection(1 .. n, 1 .. n)
        BY <1>1 DEF Injection, IsInjective
    <2>2. IsFiniteSet(1 .. n)
        <3>1. n \in Int
            BY <1>1
        <3> QED BY <3>1, FS_Interval
    <2>3. q \in Surjection(1 .. n, 1 .. n)
        BY <2>1, <2>2, FS_Injection
    <2> QED BY <2>3 DEF Surjection
<1>5. ASSUME NEW k \in 1 .. n
      PROVE  From(c, k) \in Reached(c) /\ To(c, k) # Root(c)
    <2>1. PICK a \in 1 .. n : q[a] = k
        BY <1>4
    <2>2. From(c, k) \in Seen(c, q, a) /\ To(c, k) \notin Seen(c, q, a) /\ a \in 1 .. n + 1
        BY <1>1, <1>2, <2>1
    <2> QED BY <1>3, <2>2 DEF Seen
<1>6. ASSUME NEW a \in 1 .. n, NEW b \in 1 .. n, a < b PROVE To(c, q[a]) # To(c, q[b])
    <2>1. a \in 1 .. b - 1
        BY <1>1, <1>6
    <2>2. To(c, q[a]) \in Seen(c, q, b)
        BY <2>1 DEF Seen
    <2> QED BY <1>2, <2>2
<1>7. ASSUME NEW j \in 1 .. n, NEW k \in 1 .. n, j # k PROVE To(c, j) # To(c, k)
    <2>1. PICK a \in 1 .. n, b \in 1 .. n : q[a] = j /\ q[b] = k
        BY <1>4
    <2>2. a < b \/ b < a
        BY <1>1, <1>7, <2>1
    <2> QED BY <1>6, <2>1, <2>2
<1>8. ASSUME NEW i \in DOMAIN c.nodes, Shown(c.nodes[i]) # {} PROVE c.nodes[i].id \in Reached(c)
    <2>1. n + 1 \in 1 .. n + 1
        BY <1>1
    <2> QED BY <1>2, <1>3, <1>8, <2>1
<1> QED BY <1>1, <1>5, <1>7, <1>8 DEF IsTree, From, To, Root

\* The ways to begin with m joins in turn.
Starts(c, m) ==
    {q \in [1 .. m -> DOMAIN c.edges] :
        /\ \A i, j \in 1 .. m : q[i] = q[j] => i = j
        /\ \A k \in 1 .. m : From(c, q[k]) \in Seen(c, q, k)}

\* As long as a join of a tree is left, one is left that can be made next: what
\* has been joined would be closed otherwise, and all that is reached be in it.
LEMMA StartGoesOn ==
    ASSUME NEW c \in Canvas, Acceptable(c), IsTree(c),
           NEW m \in Nat, m < Len(c.edges), NEW q \in Starts(c, m)
    PROVE  \E k \in DOMAIN c.edges :
               From(c, k) \in Seen(c, q, m + 1) /\ \A i \in 1 .. m : q[i] # k
<1> DEFINE n == Len(c.edges)
           S == Seen(c, q, m + 1)
<1>1. n \in Nat /\ DOMAIN c.edges = 1 .. n /\ m < n
    BY EdgesJoinIds
<1>2. /\ Root(c) \in Ids(c)
      /\ \A k \in 1 .. n : From(c, k) \in Ids(c) /\ To(c, k) \in Ids(c)
    BY <1>1, EdgesJoinIds
<1>3. q \in [1 .. m -> 1 .. n]
    BY <1>1 DEF Starts
<1>4. \A k \in 1 .. n : From(c, k) \in Reached(c)
    BY <1>1 DEF IsTree, From
<1> HIDE DEF n
<1>5. \E k \in 1 .. n : \A i \in 1 .. m : q[i] # k
    <2> SUFFICES ASSUME \A k \in 1 .. n : \E i \in 1 .. m : q[i] = k PROVE FALSE
        OBVIOUS
    <2>1. q \in Surjection(1 .. m, 1 .. n)
        BY <1>3 DEF Surjection
    <2>2. n \in Int /\ m \in Int
        BY <1>1
    <2>3. IsFiniteSet(1 .. m) /\ Cardinality(1 .. m) = m
        BY FS_Interval
    <2>4. Cardinality(1 .. n) = n
        <3>1. n \in Nat
            BY <1>1
        <3> QED BY <3>1, IncreasingInterval
    <2>5. Cardinality(1 .. n) <= Cardinality(1 .. m)
        BY <2>1, <2>3, FS_Surjection
    <2> QED BY <1>1, <2>3, <2>4, <2>5
<1>6. S = {Root(c)} \cup {To(c, q[j]) : j \in 1 .. m}
    BY SeenAfter
<1>7. S \in SUBSET Ids(c)
    BY <1>2, <1>3, <1>6
<1> HIDE DEF S
<1> SUFFICES ASSUME \A k \in 1 .. n : From(c, k) \in S => \E i \in 1 .. m : q[i] = k
             PROVE  FALSE
    BY <1>1 DEF S
<1>8. Closed(c, S)
    BY <1>1, <1>6 DEF Closed
<1>9. Reached(c) \subseteq S
    BY <1>7, <1>8, ReachedIsTheLeast
<1> QED BY <1>4, <1>5, <1>9

LEMMA StartGrows ==
    ASSUME NEW c \in Canvas, Acceptable(c), IsTree(c),
           NEW m \in Nat, m < Len(c.edges), Starts(c, m) # {}
    PROVE  Starts(c, m + 1) # {}
<1>1. PICK q \in Starts(c, m) : TRUE
    OBVIOUS
<1>2. PICK k \in DOMAIN c.edges :
          From(c, k) \in Seen(c, q, m + 1) /\ \A i \in 1 .. m : q[i] # k
    BY StartGoesOn
<1>3. /\ q \in [1 .. m -> DOMAIN c.edges]
      /\ \A i, j \in 1 .. m : q[i] = q[j] => i = j
      /\ \A i \in 1 .. m : From(c, q[i]) \in Seen(c, q, i)
    BY DEF Starts
<1> DEFINE r == [i \in 1 .. m + 1 |-> IF i = m + 1 THEN k ELSE q[i]]
<1>4. /\ r[m + 1] = k
      /\ \A i \in 1 .. m : r[i] = q[i]
      /\ \A i \in 1 .. m + 1 : i \in 1 .. m \/ i = m + 1
      /\ m + 1 \notin 1 .. m
    OBVIOUS
<1>5. r \in [1 .. m + 1 -> DOMAIN c.edges]
    BY <1>3
<1> HIDE DEF r
<1>6. \A i, j \in 1 .. m + 1 : r[i] = r[j] => i = j
    BY <1>2, <1>3, <1>4
<1>7. ASSUME NEW j \in 1 .. m + 1 PROVE Seen(c, r, j) = Seen(c, q, j)
    <2>1. \A i \in 1 .. j - 1 : i \in 1 .. m
        OBVIOUS
    <2> QED BY <1>4, <2>1 DEF Seen
<1>8. \A i \in 1 .. m + 1 : From(c, r[i]) \in Seen(c, r, i)
    BY <1>2, <1>3, <1>4, <1>7
<1> QED BY <1>5, <1>6, <1>8 DEF Starts

LEMMA TreeHasAnOrder ==
    ASSUME NEW c \in Canvas, Acceptable(c), IsTree(c)
    PROVE  Starts(c, Len(c.edges)) # {}
<1> DEFINE n == Len(c.edges)
           begun == {m \in 0 .. n : Starts(c, m) # {}}
<1>1. n \in Nat
    BY EdgesJoinIds
<1>2. 0 \in begun
    <2>1. [i \in 1 .. 0 |-> 1] \in Starts(c, 0)
        BY DEF Starts
    <2> QED BY <1>1, <2>1
<1>3. PICK m \in begun : \A l \in begun : l <= m
    <2>1. begun \in SUBSET (0 .. n) /\ begun # {}
        BY <1>2
    <2> HIDE DEF begun, n
    <2> QED BY <1>1, <2>1, Greatest
<1>4. m \in 0 .. n /\ Starts(c, m) # {}
    OBVIOUS
<1>5. ASSUME m < n PROVE FALSE
    <2>1. Starts(c, m + 1) # {}
        BY <1>1, <1>4, <1>5, StartGrows
    <2>2. m + 1 \in 0 .. n /\ ~ (m + 1 <= m)
        BY <1>1, <1>4, <1>5
    <2> QED BY <1>3, <2>1, <2>2
<1>6. m = n
    BY <1>1, <1>4, <1>5
<1> QED BY <1>4, <1>6

LEMMA TreeMakesOrder ==
    ASSUME NEW c \in Canvas, Acceptable(c), IsTree(c), NEW q \in Starts(c, Len(c.edges))
    PROVE  /\ q \in [DOMAIN c.edges -> DOMAIN c.edges]
           /\ \A i, j \in DOMAIN c.edges : q[i] = q[j] => i = j
           /\ Compiles(Ordered(c, q))
<1> DEFINE n == Len(c.edges)
<1>1. /\ n \in Nat /\ DOMAIN c.edges = 1 .. n /\ Root(c) \in Ids(c)
      /\ \A k \in 1 .. n : To(c, k) \in Ids(c)
    BY EdgesJoinIds
<1>2. /\ q \in [1 .. n -> 1 .. n]
      /\ \A i, j \in 1 .. n : q[i] = q[j] => i = j
      /\ \A k \in 1 .. n : From(c, q[k]) \in Seen(c, q, k)
    BY <1>1 DEF Starts
<1>3. \A k \in 1 .. n : To(c, k) # Root(c) /\ \A j \in 1 .. n : j # k => To(c, j) # To(c, k)
    BY <1>1 DEF IsTree, To, Root
<1> HIDE DEF n
<1>4. ASSUME NEW k \in 1 .. n, To(c, q[k]) \in Seen(c, q, k) PROVE FALSE
    <2>1. PICK j \in 1 .. k - 1 : To(c, q[j]) = To(c, q[k])
        BY <1>2, <1>3, <1>4 DEF Seen
    <2>2. j \in 1 .. n /\ j # k
        <3>1. n \in Nat
            BY <1>1
        <3> QED BY <3>1
    <2> QED BY <1>2, <1>3, <2>1, <2>2
<1>5. \A k \in 1 .. n : \E a \in 1 .. n : q[a] = k
    <2>1. q \in Injection(1 .. n, 1 .. n)
        BY <1>2 DEF Injection, IsInjective
    <2>2. IsFiniteSet(1 .. n)
        <3>1. n \in Int
            BY <1>1
        <3> QED BY <3>1, FS_Interval
    <2>3. q \in Surjection(1 .. n, 1 .. n)
        BY <2>1, <2>2, FS_Injection
    <2> QED BY <2>3 DEF Surjection
<1>6. Reached(c) \subseteq Seen(c, q, n + 1)
    <2>1. Seen(c, q, n + 1) = {Root(c)} \cup {To(c, q[j]) : j \in 1 .. n}
        <3>1. n \in Nat
            BY <1>1
        <3> QED BY <3>1, SeenAfter
    <2>2. Seen(c, q, n + 1) \in SUBSET Ids(c)
        BY <1>1, <1>2, <2>1
    <2>3. Closed(c, Seen(c, q, n + 1))
        BY <1>1, <1>5, <2>1 DEF Closed
    <2> QED BY <2>2, <2>3, ReachedIsTheLeast
<1>7. \A i \in DOMAIN c.nodes : Shown(c.nodes[i]) # {} => c.nodes[i].id \in Seen(c, q, n + 1)
    BY <1>6 DEF IsTree
<1>8. q \in [DOMAIN c.edges -> DOMAIN c.edges]
    BY <1>1, <1>2
<1>9. Compiles(Ordered(c, q))
    BY <1>1, <1>2, <1>4, <1>7, <1>8, OrderedCompiles DEF n
<1> QED BY <1>1, <1>2, <1>8, <1>9

\* Whatever the names, a canvas can be turned into SQL, in some order of its joins,
\* exactly if its edges are a tree from the first node and whatever it shows hangs
\* on the tree: from a tree every join can be made in turn, and what can be joined
\* in turn is reached from the first node, each node by one edge.
THEOREM ExactlyTreesCompile == Spec => []TreesCompile
<1>1. CanvasInv => TreesCompile
    <2> SUFFICES ASSUME NEW c \in Canvas, Acceptable(c)
                 PROVE  CompilesInSomeOrder(c) <=> IsTree(c)
        BY DEF CanvasInv, TypeOK, StaysNormal, TreesCompile
    <2>1. CompilesInSomeOrder(c) <=>
              \E q \in [DOMAIN c.edges -> DOMAIN c.edges] :
                  /\ \A i, j \in DOMAIN c.edges : q[i] = q[j] => i = j
                  /\ Compiles(Ordered(c, q))
        BY DEF CompilesInSomeOrder, Ordered
    <2>2. CompilesInSomeOrder(c) => IsTree(c)
        BY <2>1, OrderMakesTree
    <2>3. ASSUME IsTree(c) PROVE CompilesInSomeOrder(c)
        <3>1. PICK q \in Starts(c, Len(c.edges)) : TRUE
            BY <2>3, TreeHasAnOrder
        <3> QED BY <2>1, <2>3, <3>1, TreeMakesOrder
    <2> QED BY <2>2, <2>3
<1> QED BY <1>1, CanvasInvHolds, PTL

=============================================================================
