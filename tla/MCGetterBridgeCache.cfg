CONSTANTS
    Paths <- MCPaths
    Scalars <- MCScalars
    Roots <- MCRoots
    Owners <- MCOwners
    Contents <- MCContents
    Bases <- MCBases
    MaxEdits = 2
SPECIFICATION Spec
INVARIANTS
    CacheConsistent
    RecordIndependentOfOrder
PROPERTIES
    UnrelatedEditsKeepAnswers
