SPECIFICATION Spec
CONSTANTS
    p = p
    i = i
    j = j
    texts = texts
    numbers = numbers
    None = None
    Path = {p}
    Inode = {i, j}
    Contents <- MCContents
    Byte = {0, 1}
    MaxLength = 3
    PageSize = 2
    Threshold = 2
    MaxEdits = 2
    MaxDisplay = 4
    Arguments <- MCArguments
    Schemas = {texts, numbers}
    Interpretation <- MCInterpretation
INVARIANTS
    JsonIsPure
    StatusTellsTheOutput
    RecordsAreHonest
    RowsAreOfTheFile
