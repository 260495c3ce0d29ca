\* Two processes on one project, killed or failing anywhere.
SPECIFICATION Spec
SYMMETRY Symmetry
CONSTANTS
    Sessions = {s1, s2}
    Artifacts = {a1, a2}
    CanvasIds <- MCCanvasIds
    Texts = {t1}
    c1 = c1
    t1 = t1
    None = None
    Manifest = Manifest
    Seeds <- MCSeeds
    Fresh <- EmptyDb
    Databases <- MCDatabases
INVARIANTS
    TypeOK
    OpenIsCurrent
    NoLitter
PROPERTIES
    ArchiveStaysWhole
    OpeningMendsTheListing
    OnlyOvertakenWritersLose
