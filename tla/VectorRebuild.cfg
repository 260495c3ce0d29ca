\* Two rebuilds of a table of two rows, with texts changing under them, under
\* fairness; no symmetry, because of the liveness property.
SPECIFICATION FairSpec
CONSTANTS
    Rows = {r1, r2}
    Texts = {t1, t2}
    None = None
    Jobs = {j1, j2}
    Window = 2
    MaxClock = 2
INVARIANTS
    TypeOK
    FreshMeansCovered
PROPERTIES
    RepeatedBuildsConverge
