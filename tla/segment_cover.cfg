SPECIFICATION Spec
CONSTANTS
    NumNames = 3
    Bss = 1
    Shapes <- MCShapes
    Page = 8
    ImageBase = 16
    HeaderAlign = 2
    EhdrSize = 2
    PhdrEntry = 1
    ShdrEntry = 4
    Reserve = 3
    HalfMax = 4
    KeptFlags <- MCKeptFlags
    Stable = 1
INVARIANT
    SegmentsCover
