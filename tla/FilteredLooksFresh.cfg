\* A rebuild with a filter makes the whole field look fresh.
SPECIFICATION Spec
SYMMETRY Symmetry
CONSTANTS
    Rows = {r1, r2}
    Texts = {t1, t2}
    None = None
    Jobs = {j1}
    Window = 2
    MaxClock = 3
INVARIANT
    StaleIndexIsDetected
