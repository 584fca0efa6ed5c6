SPECIFICATION FairSpec
CONSTANTS
    Scripts <- MCScripts
    MaxDepth = 2
INVARIANTS
    TypeOK
    ListsComplete
    ListsNothingElse
    NoCycleIsAccepted
    RejectsOnlyCycles
PROPERTIES
    FlatteningEnds
