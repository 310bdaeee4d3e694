SPECIFICATION Spec
CONSTANTS
    Contents <- MCContents
    Size <- MCSize
    Rank <- MCRank
    Outputs = {"debug", "rodata", "comment"}
    Alloc = {"rodata"}
    Alignments <- MCAlignments
    NumFiles = 2
    FileShapes <- MCFileShapes
    SymCount = 3
INVARIANTS
    TypeOK
    ReferencesReadSame
    CopyInBounds
    AlignedForEarlier
    ErrorsAreReal
PROPERTIES
    ImplementsPlacement
