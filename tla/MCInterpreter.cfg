SPECIFICATION BlocksSpec
CONSTANTS
    a = a
    b = b
    s = s
    t = t
    None = None
    ByteBase = 2
    UsizeMax = 15
    MaxRepeatCount = 3
    MaxBit = 7
    Idents <- MCIdents
    Files <- MCFiles
    Schemas <- MCSchemas
INVARIANTS
    TypeOK
    ContextIsLastSuccess
    RowsWellFormed
    NoStructuralErrors
    ReferencesLookBack
    FieldsAreAccountedFor
    RowsAreBounded
PROPERTY
    ImplementsRowBlocks
