\* Five canvases to switch between, up to three nodes and three edges.
SPECIFICATION Spec
CONSTANTS
    Words <- MCWords
    Fold <- MCFold
    Blank = ""
    Columns = {"x", "y"}
    JoinTypes = {"INNER", "LEFT"}
    KnownJoinTypes = {"INNER", "LEFT"}
    Pastes <- MCPastes
    NewNodes = {}
    NewEdges = {}
    MaxNodes = 3
    MaxEdges = 3
    Inner = "INNER"
    LineIds <- MCLineIds
    NoDraft = NoDraft
    Off = Off
INVARIANTS
    TypeOK
    ShowsTheDraft
    SelectionIsOnCanvas
    EditorsAreCurrent
    LinesAreAccepted
