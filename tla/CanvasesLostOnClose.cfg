\* The canvases of a session are not in the archive when it has closed.
SPECIFICATION Spec
CONSTANTS
    Sessions = {s1, s2}
    Artifacts = {a1, a2}
    CanvasIds <- MCCanvasIds
    Texts = {t1}
    c1 = c1
    t1 = t1
    None = None
    Manifest = Manifest
    Seeds <- MCSeeds
    Fresh <- EmptyDb
    Databases <- MCDatabases
PROPERTY
    ClosingKeepsCanvases
