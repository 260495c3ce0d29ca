\* One canvas name of two words, two of one word, all competing for two ids.
SPECIFICATION Spec
CONSTANTS
    Names <- MCNames
    OneWord <- MCOneWord
    Ids <- MCIds
    IdOf <- MCIdOf
    Specs <- MCSpecs
    Edits <- MCEdits
    InitialCatalogues <- MCInitialCatalogues
    MaxAttempts = 2
    MaxVersion = 3
    s1 = s1
    s2 = s2
    EmptySpec = EmptySpec
    BadText = BadText
    NoSpec = NoSpec
    NoCanvas = NoCanvas
    Absent = Absent
INVARIANTS
    TypeOK
    DirtyIffDifferent
    ValidationMatchesDraft
    EmptyDraftIsClean
PROPERTIES
    SavedAgreement
    CleanMeansStored
    ValidSpecsStayValid
    DraftFollowsOnlyItsCanvas
    CatalogPromise
