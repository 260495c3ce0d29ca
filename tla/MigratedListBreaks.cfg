\* A canvas created after the migration from 1.0.0 breaks the listing.
SPECIFICATION Spec
CONSTANTS
    Sessions = {s1, s2}
    Artifacts = {a1, a2}
    CanvasIds <- MCCanvasIds
    Texts = {t1}
    c1 = c1
    t1 = t1
    None = None
    Manifest = Manifest
    Seeds <- MCSeeds
    Fresh <- EmptyDb
    Databases <- OldDatabases
INVARIANT
    EveryCanvasIsListed
