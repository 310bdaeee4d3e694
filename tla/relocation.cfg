SPECIFICATION Spec
CONSTANTS
    NumMembers = 2
    MemberShapes <- MCMemberShapes
    Symbols <- MCSymbols
    Places = {"elsewhere"}
    Addresses <- MCAddresses
    Base <- MCBase
    Stride = 16
    WordBits = 22
    AddrBits = 26
INVARIANTS
    JumpsReach
    HighAndLowMeet
    DataHolds
    OtherBitsKept
    ErrorsAreReal
