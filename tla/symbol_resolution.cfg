SPECIFICATION FairSpec
CONSTANTS
    NumFiles = 3
    Symbols <- MCSymbols
    Entry = "_start"
    Optional = {"foo"}
    Synthetic = {"end"}
    Boundary = {"end"}
    SymbolTables <- MCSymbolTables
INVARIANTS
    TypeOK
    WorkListSound
    ReferencesBound
    DanglingExactly
    UniqueDefinition
    ShadowedNeverKept
    ErrorsAreReal
PROPERTIES
    ImplementsClosure
    Termination
