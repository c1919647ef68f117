SPECIFICATION Spec
CONSTANTS
    p = p
    i = i
    j = j
    s = s
    t = t
    q = q
    None = None
    Path = {p, q}
    Inode = {i, j}
    Contents <- MCContents
    Byte = {0, 1}
    MaxLength = 3
    PageSize = 2
    Threshold = 2
    MaxEdits = 2
    Schemas = {s, t}
    MaxDocuments = 2
INVARIANTS
    SizeIsLength
PROPERTIES
    OnlyTheShownChanges
