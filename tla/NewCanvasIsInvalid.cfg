\* A new canvas is stored with a spec that does not parse.
SPECIFICATION Spec
CONSTANTS
    Names <- MCNames
    OneWord <- MCOneWord
    Ids <- MCIds
    IdOf <- MCIdOf
    Specs <- MCSpecs
    Edits <- MCEdits
    InitialCatalogues <- MCInitialCatalogues
    MaxAttempts = 2
    MaxVersion = 2
    s1 = s1
    s2 = s2
    EmptySpec = EmptySpec
    BadText = BadText
    NoSpec = NoSpec
    NoCanvas = NoCanvas
    Absent = Absent
INVARIANT
    StoredSpecsAreValid
