SPECIFICATION Spec
CONSTANTS
    a = a
    b = b
    h = h
    p = p
    q = q
    None = None
    Idents <- MCIdents
    Paths <- MCPaths
    Texts <- MCTexts
    Tables <- MCTables
    Size = 4
    Page = 3
    BufferLen = 4
    BytesPerRow = {2, 3}
    SearchModes = {"Ascii"}
    Queries <- NoQueries
    Answers <- NoAnswers
    Filters <- MCFilters
INVARIANTS
    EditorAgrees
    ErrorsHaveDiagnostics
    SelectionIsRow
    MarksAreCurrent
    TableIsRight
PROPERTIES
    SelectionIsRevealed
    ScrollsAreHonoured
