SPECIFICATION Spec
CONSTANTS
    a = a
    b = b
    h = h
    p = p
    q = q
    None = None
    Idents <- MCIdents
    Paths <- OnePath
    Texts <- OneTexts
    Tables <- OneTables
    Size = 6
    Page = 4
    BufferLen = 6
    BytesPerRow = {1, 2, 3, 4, 5}
    SearchModes = {"Ascii", "Hex"}
    Queries <- MCQueries
    Answers <- MCAnswers
    Filters <- NoFilters
INVARIANTS
    SearchIsCoherent
    OffsetErrorKnown
    PageIsRight
PROPERTIES
    CurrentMatchIsShown
