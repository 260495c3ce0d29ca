\* Up to three nodes and two edges.
SPECIFICATION Spec
CONSTANTS
    Words <- MCWords
    Fold <- MCFold
    Blank = ""
    Columns = {"x", "y"}
    JoinTypes = {"LEFT", "CROSS"}
    KnownJoinTypes = {"LEFT"}
    Pastes <- MCPastes
    NewNodes <- MCNewNodes
    NewEdges <- MCNewEdges
    MaxNodes = 3
    MaxEdges = 2
INVARIANTS
    TypeOK
    StaysNormal
    TablesAreToldApart
    DeletingUndoesAdding
    TreesCompile
PROPERTY
    SelectionNeverBreaks
