\* Two calls of every kind and two subscribers with the smallest buffer.  The
\* server stops when both calls have returned and nobody is subscribed.
SPECIFICATION Spec
SYMMETRY Symmetry
CHECK_DEADLOCK FALSE
CONSTANTS
    Principals <- MCPrincipals
    Granted <- MCGranted
    agent = agent
    guest = guest
    NoArtifact = NoArtifact
    NoCall = NoCall
    Publishers = {c1, c2}
    Subscribers = {s1, s2}
    Capacity = 1
    Batches = 1
    Arrivals <- MixedArrivals
INVARIANTS
    TypeOK
    NeverSendsOnClosed
    EachCallTellsOneStory
    AttentiveSubscribersMissNothing
