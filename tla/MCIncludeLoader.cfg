SPECIFICATION SpecErrors
CONSTANTS
    a = a
    s = s
    d = d
    e = e
    f = f
    x = x
    y = y
    z = z
    None = None
    ByteBase = 2
    UsizeMax = 255
    MaxRepeatCount = 3
    MaxBit = 7
    MaxEdits = 0
    MaxLines = 6
    Idents <- MCIdents
    Path <- MCPath
    Canon <- MCCanon
    CanonDir <- MCCanonDir
    Disks <- MCDisks
    Docs <- MCDocs
    Requests <- MCRequests
INVARIANTS
    LoadsExactlyTheLegal
    ErrorNamesTheFault
    PlaceIsAtFault
    QuotesTheFault
