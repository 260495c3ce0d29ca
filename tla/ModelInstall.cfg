SPECIFICATION FairSpec
CONSTANTS
    ListPaths <- MCListPaths
    PullPaths <- MCPullPaths
    Providers <- MCProviders
INVARIANTS
    TypeOK
    ReadyMeansLoaded
    ServedModelIsFound
PROPERTIES
    RerunsSucceed
