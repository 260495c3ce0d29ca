\* Three calls on one artifact, watched by one subscriber with the smallest
\* buffer, who may come, read or not, and go.  No symmetry: liveness.
\* The server stops when the calls have returned.
SPECIFICATION FairSpec
CHECK_DEADLOCK FALSE
CONSTANTS
    Principals <- MCPrincipals
    Granted <- MCGranted
    agent = agent
    guest = guest
    NoArtifact = NoArtifact
    NoCall = NoCall
    Publishers = {1, 2, 3}
    Subscribers = {s1}
    Capacity = 1
    Batches = 0
    Arrivals <- ArtifactArrivals
INVARIANT
    ReadsAgreeWithTheLog
PROPERTY
    EveryCallReturns
