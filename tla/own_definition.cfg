SPECIFICATION Spec
CONSTANTS
    NumFiles = 3
    Symbols <- MCSymbols
    Entry = "_start"
    Optional = {"foo"}
    Synthetic = {"end"}
    Boundary = {"end"}
    SymbolTables <- MCSymbolTables
INVARIANT
    DefinedIsItself
