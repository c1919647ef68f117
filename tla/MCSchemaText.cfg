SPECIFICATION Spec
CONSTANTS
    None = None
    Chars <- MCChars
    MaxText = 4
INVARIANTS
    NothingIsLost
    MatchIsLine
    ClicksFindNames
