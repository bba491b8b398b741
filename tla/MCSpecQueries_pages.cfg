SPECIFICATION FairSpec
CONSTANTS
    SpecOrder <- MCSpecOrder
    PathOrder <- MCPathOrder
    LocalOrder <- MCLocalOrder
    SpecOf <- MCSpecOf
    DocumentKind <- MCDocumentKind
    NodeKind <- MCNodeKind
    ParentOf <- MCParentOf
    Offset <- MCOffset
    MaxBytes = 4
    MaxAggregate = 13
    MaxDiagnostics = 4
    Variants <- MCVariants
    PageBytes = 3
    MaxEdits = 1
    Corpora <- MCCorpora
    MaxSeen = 6
    MaxPatches = 1
    Lists <- MCLists
INVARIANTS
    TypeOK
    ListedOnce
    TraceCovers
    VerdictIsWhole
PROPERTIES
    StaysInOrder
    PatchKeepsDefinitions
    ArchiveBreaksNothing
    EditsStayLocal
    ChainEnds
CHECK_DEADLOCK FALSE
