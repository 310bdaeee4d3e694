SPECIFICATION Spec
CONSTANTS
    NumFiles = 2
    FileShapes <- MCFileShapes
    MaxSections = 4
    IntBits = 8
INVARIANT
    MembersAligned
