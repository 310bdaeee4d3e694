SPECIFICATION Spec
CONSTANTS
    ArgLists <- MCArgLists
    Machines <- MCMachines
    Objects <- MCObjects
    Archives <- MCArchives
    MagicSize = 8
    HeaderSize = 60
INVARIANTS
    TypeOK
    OptionsRead
    InputsComplete
    ErrorsAreReal
